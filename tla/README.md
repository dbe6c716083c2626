# BitConnect: TLA+ models and proofs

BitConnect is the code of a team of three for three labs: a proof-of-work submission over IPv8
(Lab 1), a signature relay race against the clock (Lab 2) and a small blockchain with gossip,
mining and fork choice (Lab 3). This directory holds the specifications kept beside that code,
their TLC configurations, and theorems about them that TLAPS checks. Paths below are relative to
the root of the repository; `src/src/...` is the Python source.

Contents: [inventory](#inventory), [modules](#modules), [runs](#runs), [fairness](#fairness),
[proofs](#proofs), [disagreements with the documents](#disagreements-with-the-documents),
[not modelled](#not-modelled), [plan](#plan).

## Inventory

### Lab 3: a blockchain (`src/lab3_blockchain`)

| component | state | operations | what makes it correct |
|---|---|---|---|
| `BlockchainState` (`chain.py`) | blocks by hash, tip, height index, orphans and their hashes, transactions, mempool | `add_transaction`, `add_block` (a loop over a work queue), queries | the tip is the best block known, whatever the order of arrival; the index is the path to the tip; no accepted transaction is lost in a reorganisation; orphans attach as soon as they can; `add_block` returns |
| `BlockchainCommunity` (`community.py`) | none of its own: the handlers call `BlockchainState` and send | submit, peer transaction, peer block, status request and response, block request; gossip | nodes that know the same blocks agree; what one node has reaches the others despite a lost datagram; missing parents can be found |
| the node service (`service.py`) | the tip and mempool a nonce search works on, across an `await` | `_mining_loop`, `_mine_one_block`, `_catchup_loop`, `build_node` | every transaction gets its confirmations; mining ends; the tips converge |
| block format (`block.py`, `codec.py`, `transaction.py`, `validation.py`) | none | pack and hash a header, count zero bits, split and join a body, sign and verify | encoding and decoding are inverse; the bound on bodies |
| discovery and start (`discovery.py`, `ipv8_base.py`, `build_node`) | IPv8 peers per overlay, the gate before the loops | seed walks, name lookups, waits with timeouts | all nodes meet; the loops run only with all teammates there |
| registration (`registration.py`, `cli.py`) | a queue of answers | send, wait, retry | what is reported is what the server did |
| tools (`run_lab3_nodes.py`, `recover_group_id.py`) | none | start processes, read files | - |

All consensus state is in memory and touched from one event loop. The hard parts are the orders in
which blocks and transactions arrive, the reorganisations they cause, the `await` inside the nonce
search while handlers run, lost and stale datagrams, and restarts that begin at genesis.

### Lab 2: the relay race (`src/lab2_relay_race`)

| component | state | operations | what makes it correct |
|---|---|---|---|
| `_RelayRaceSession` (`race.py`) | a coroutine per member, the rounds it signed, a prefetched challenge, the task that submits the bundle | group ready, follow or lead a round, baton or fallback, submit until a result | turns in order; a recorded round has all signatures; a reported success is one; the race finishes although datagrams are lost |
| `SignedUdpNode`, `SignedUdpCodec` (`udp_runtime.py`, `udp_protocol.py`) | sequence number, queue, backlog, endpoints, sequences seen per sender | send, receive, `wait_for` a predicate, set and learn endpoints, drop duplicates | no message twice, none lost between backlog and queue; answers go where a teammate sent from |
| `Lab2Community` (`community.py`) | queues of server answers, endpoints of teammates | announce, request and gossip endpoints; wait for the server | every member learns the endpoint of every other |
| set-up of the race (`run_relay_race`, `_register_group`) | a hinted address and its age, a file with the last address, a queue of answers | look for the server, use or broadcast a hint, register the group | the search ends; no search fails with an address at hand; nobody races unregistered |
| UDP preparation (`udp_prep.py`, `prep_cli.py`) | last response and an event per peer | ping, pong, hello | a peer counts as reachable only if it has greeted |
| keys, team file, command line | none | read and validate | - |

The members talk over UDP, the server over IPv8; every wait has a timeout and nearly every message
is repeated. The hard parts are retries that race with late answers, members that have left the
loop that would answer, and the fallback that runs beside the baton.

### Lab 1: a submission (`src/lab1_pow_ipv8`)

A client searches a nonce, waits for the server as a peer, sends its submission once and waits for
the answer (`main.py`, `client.py`, `pow.py`); `libsodium_bootstrap.py` fetches a library. The hard
cases are the ends of the search, the count of zero bits, and a submission or answer that is lost
or comes from another peer.

The hazards of all three, each at its line and with the properties that cover it, are listed under
`hazards` in `PROJECT.json`.

## Modules

| module | of | proofs in |
|---|---|---|
| `ChainRules`, `BlockchainState`, `ForkChoice` | the consensus state of one Lab 3 node | `ChainRulesProofs`, `BlockchainStateProofs` |
| `BlockchainNetwork` | the Lab 3 team | `BlockchainNetworkProofs`, `MiningProofs` |
| `NodeStartup` | the start of the Lab 3 nodes and their registration | `ProgramsProofs` |
| `RelayRace`, `Relay` | the Lab 2 race | `RelayRaceProofs` |
| `RaceSetup` | what `run_relay_race` does before the rounds | `ProgramsProofs` |
| `SignedUdp`, `Mailbox` | the transport of the race | `SignedUdpProofs` |
| `EndpointDiscovery`, `PrepPhase` | endpoints over IPv8, and the UDP preparation | `PrepPhaseProofs` |
| `PowClient` | Lab 1 | `ProgramsProofs` |

Several modules have a constant `Setups` and a variable `setup` that holds one of them and never
changes: a team, which parts of the code are in play, and the bounds of the model. One run of TLC
looks at several instances that way, and the theorems hold for any set of setups.

### `ChainRules`, `BlockchainState`, `ForkChoice`: the consensus state of one node

`ChainRules` holds the constants (`Txs`, `Blocks`, `Genesis`) and the pure rules of `chain.py`:
`ValidateBlock`, `IsBetterTip`, `MainChain` (the walk of `_rebuild_main_chain_index`),
`ReconcileMempool`, `Confirmations`. A block is the record of what these rules look at: its hash, a
number compared like the 32 bytes; the hash of its parent; its height; its transactions; and
whether it has its proof of work. `MainChain` is a recursive function and not a `RECURSIVE`
operator, so that it can be reasoned about.

`BlockchainState` is the class. `blocks`, `tip`, `main_chain`, `orphans`, `orphan_hashes`,
`transactions` and `mempool` are its fields (dictionaries keyed by hash are sets of blocks);
`pending` is the work queue of `add_block`, one iteration of which is one step (`InsertBlock`,
`StoreOrphan`, `RejectBlock`), and `received` is a history variable. No method starts while
`pending` is non-empty, as the class never awaits. The queue is a set, which includes the
last-in-first-out order of the code.

`ForkChoice` is what the class promises without the way blocks arrive: a growing tree and its best
block. `BlockchainState` implements it (`ImplementsForkChoice`, `known <- blocks`, `best <- tip`), and so does each node of a team (`NodesChoose`, below).

### `BlockchainNetwork`: the team

Each node has the consensus state as a record, without the two fields the proofs show to be
functions of the others (`hash_by_height`, `_orphan_hashes`), and a `miner`: what `_mine_one_block`
took from the tip and the mempool before it handed the nonce search to the executor. `msgs` is UDP:
any datagram may be the next to arrive, or be lost. Each handler of `community.py` is an operator
(`OnPeerTransaction`, `IngestBlock`, `OnPeerStatusRequest`, ...) with all the datagrams it sends;
`StartMining`, `AbandonMining` and `FindBlock` are the nonce search around its `await`; `CatchUp` is
a turn of the catch-up loop and `Restart` a process started again. Handlers run to their end on the
event loop of a node, so the iterations of `add_block` exclude every other action (`Quiet`), which
loses no behaviour since they touch only their own node. `FindBlock` adds and gossips the block even
if the tip has moved since `StartMining`, as the code compares the tip only before a batch.

A setup says how many confirmations are required, which nonces each node can find, how the rounds
of the catch-up loops go ("off"; "apart": a turn waits until nothing is under way; "overlapping":
at any time), and the bounds on height, submissions, losses and restarts. `MiningAssumption` says
that what the miners can find is among the blocks of the model. `NodeChoice(n)` is the `ForkChoice`
that node `n` is seen to make: between two of its own states lie handlers of any kind, the result of
its nonce search, and everything its peers do.

### `NodeStartup`: from the command line to the loops

`progress` is the main coroutine of a node (`build_node` up to its gate, `cli.run` with
`register_blockchain`), beside it the task `seed_walk_loop`: `SeedWalkRound` is one turn, which
looks the names up again every `ReresolveEvery` rounds and walks, in both overlays, to the seeds and
to every peer known in either. The first lookup gives a node the address of the server or not
(`ResolveSeeds`). A later one replaces the list by what resolves now, so that the address is
forgotten when the server's name alone fails; the old list is kept only if nothing resolves
(`ReresolveSeeds`). `Introduce` is IPv8 following an introduction by the server, which
takes part in the registration overlay only. The gate may time out; the node then exists, but its
loops never start (`GateTimesOut`). Any subset of the members is ever started. The answers of the
server carry no number and wait in a queue, where a late one counts for a later attempt.

### `RelayRace`: Lab 2's race

Member `i` has role `i` (A, B, C) and leads round `i`. `node[n].pc` is the method the coroutine of
`n` waits in; `task[n]` the task that submits its bundle; `net` the datagrams under way together
with those in queues and backlogs, since a late message may be overtaken by any other in each of
the three places. Every loop of the code has the form "send, wait for a message or a timeout": what
an iteration sends is `Sends`, the next one after a timeout is `Retry` (`SubmitAgain` for the task),
its end at a deadline `Expire`, `BatonTimeout`, `GiveUpBaton` or `GiveUpResult`. Messages a method
does not look for are handled as the code does: acknowledged, signed or dropped (`Replies`,
`CommonReplies`). The server is modelled from `docs/Lab2.md` and marked external.

Timeouts have no clock. A timeout may come when nothing that the loop waits for is on its way; for
the loops in the setup's `early` also when it is, as often as it likes. The group is registered when
the model begins; that is the subject of `RaceSetup`.

`Relay` is what the race promises, without messages: rounds are recorded one after the other, each
with the signatures of all teammates of its leader; nobody signs a round before the one before it is
recorded; a leader claims a recorded round only. `RelayRace` implements it (`RaceIsRelay`) with
`completed <- server.completed`, `signers` read from the `signed` rounds of the members and
`claimed` from the ends of their result tasks.

### `RaceSetup`: the server and the group

`stage` is how far `run_relay_race` of a member is. `WalkToCachedHint`, `HearHint`, `Poll`,
`UseHint`, `FindServer` and `SearchTimesOut` are the search of `_wait_for_server_peer`, whose polls
of 0.1 s are counted, since its deadlines are about each other; `cache` is the file that outlives a
run, with the address at which the server is or once was. `BroadcastServerHint` is the task that tells the
teammates. `SendGroupRegister`, `TakeAnswer` and `SessionTimesOut` are `_register_group`. A program
that has failed may be run again (`MaxRuns`), and find the answer to a request of the run before.

### `SignedUdp` and `Mailbox`: the transport of the race

`SignedUdp` is one `SignedUdpNode` and the teammates that send to it with the same code. `wire` is
every datagram ever sent; any of them may arrive at any time, any number of times, or never, also
after its sender has started again with sequence number 0 (`PeerRestarts`), has moved to another
address (`Move`), or after the node itself was started again (`Restart`). `OnDatagram` is
`_on_datagram` with the replay check of the codec and `_learn_peer_endpoint`. `run_relay_race` starts
the node without teammates and calls `set_peers` (`SetPeers`, with any endpoint for each of them)
only after the discovery, while datagrams already arrive: they are queued and use up their numbers,
but teach no endpoint. Only then it reads messages and ignores ids (`PeersSet`). `wait_for` is
`WaitFor` up to its `await` of the queue, then `LookFurther` for each message that comes, and
`StopLooking` for its timeout. Datagrams that fail the codec's checks of form and signature change
nothing and are left out. `arrived`, `early` and `taken` are history variables.

`Mailbox` is what a session may rely on: one mailbox in the order of arrival, of which `receive`
takes the oldest message and `wait_for` the oldest of its kind. `SignedUdp` implements it with
`inbox <- backlog \o queue`.

### `EndpointDiscovery` and `PrepPhase`: endpoints and the UDP test

`EndpointDiscovery` is `Lab2Community` with `wait_for_endpoints` and the task `announce_to_team`, on
members that start at different times, end early and start again: `RequestEndpoints` and
`AnnounceToTeam` are turns of the two loops, `OnEndpointAnnouncement`, `OnEndpointRequest`,
`OnEndpointGossip` and `OnIntroductionResponse` the handlers. The overlay takes part from
`ipv8.start()` on, before its endpoint and its targets are set (phase "loaded"). An endpoint is the
identity of its member.

`PrepPhase` extends it by what `run_prep_phase` does next: hellos to all, pings, and the wait for an
event per peer that any hello or pong sets and nothing clears. In the setups of the race
`EndpointDiscovery` runs by itself. In those of the preparation a member that has found its
endpoints stops IPv8, as the program does, and `TimeOut` is the deadline that `asyncio.wait_for` sets
for the whole program (`prep_cli.py:407`, 300 s by default): it ends a member wherever it is, with
its IPv8 and its server. `sent` is a history variable.

### `PowClient`: Lab 1

`main` with its ways to a nonce (`UseNonce`, `StartMining`, `TryNonce`, `SearchExhausted`), then the
overlay: `SubmitWhenFound` is the task that submits once, `OnResponse` the handler that takes
responses of the server only, `WaitTimesOut` the timeout. SHA-256 is any function of the nonces to
digests of `ByteBits`-bit bytes. `LeadingZeroBits` counts as the code does, byte by byte, and `Meets`
is what the server asks of the digest (`docs/Lab1.md:44`: "the first 3 bytes are all zeros and the
next byte is < 16"); that the two agree is proved, and that both compare the digest as one number
with a power of two is checked by TLC on all digests of two bytes (`MCZeroBits`).

### Modules for TLC

`MCBlockchainState`, `MCBlockchainNetwork`, `MCRelayRace`, `MCSignedUdp`, `MCPrepPhase` and
`MCPrograms` define the values of the constants. `MCPrograms` holds three specifications that share
nothing, `NodeStartup`, `RaceSetup` and `PowClient`: a behaviour is one of one of them, while nobody
takes part in the two others, so that their states do not multiply. Operators with a comment
"Mistake: ..." stand next to the definition they get wrong; `PROJECT.json` names, for every property
of a passing run, one that makes it fail.

## Runs

| run | instance | what it shows |
|---|---|---|
| `state` | nine blocks: two branches that tie at height 2 and hold two transactions in different orders, one of them twice; one without proof of work, one with a wrong height, one whose parent never comes | the invariants of `BlockchainState` (`TreeIsClosed` by way of the refinement), the action property on the mempool, that `add_block` returns, and the refinement of `ForkChoice`, for every order of calls |
| `network_forks` | 2 nodes, height 2, any tie; two transactions with rounds "apart", and one with rounds "overlapping" | no transaction is lost when forks resolve; same blocks mean same tip; the parent of what is under way is somewhere; each node implements fork choice, however stale the answers it gets |
| `network_gossip` | 3 nodes, no catch-up, one loss | the second hop of gossip makes up for one lost datagram |
| `network_recovers` | 2 nodes, fairness; one loss and one restart with height 2, and one required confirmation with height 4 | the tips converge for ever; transactions get their confirmations on both nodes; mining ends of itself |
| `relay_race` | 3 members and a lost baton; 2 members, bundles, batons and the baton's fallback early, any one datagram lost, all deadlines and the budget may pass | turns in order while the fallback races with the old leader; no round recorded without all signatures; a success reported, or inferred from a rejected duplicate, is real; the last leader's failure too; the race is a `Relay` |
| `relay_finishes` | 2 members, early fallback and requests, one loss, fairness | the race finishes |
| `signed_udp` | one teammate with two lives of two datagrams each, two ids of which one may be ignored, two addresses, a node that is told either of them after some datagrams or before, and restarts of the node | backlog and queue are one mailbox, however datagrams are repeated and reordered; nothing is taken twice; what is lost is lost to an ignored id or a number that another process of the teammate used; answers go where the teammate sent from once it was heard after `set_peers` |
| `prep` | the race with a pair, two losses and a restart; the race with three members in a chain, already introduced; the preparation of a pair with one loss | in the race everyone learns every endpoint, for good; in the preparation somebody does, or has run into its deadline; who passes the UDP test has said hello |
| `programs` | the start of 2 nodes, one registering with a retry, with one loss and one lookup in which the server's name fails; the set-up of 2 members that run twice, 3 polls for the search, 2 for a hint, 2 requests; Lab 1 for every digest of 3 nonces | see below |
| `mempool_doc`, `pong_doc`, `registers_early` | `state` without fairness; the preparation of a pair, nothing lost; 3 nodes, nothing lost | see [disagreements](#disagreements-with-the-documents) |

`programs` shows: what `register_blockchain` reports is true, also for a late answer
(`ReportIsTrue`); all nodes meet in an overlay where the server that introduces them does not take
part, even if its address is missing at first or forgotten again (`NodesMeet`); the file has the address last used, no search fails with an address at hand, nobody races in a group the
server lacks, and search and registration end whatever addresses the teammates tell (`SetUpEnds`);
the nonce search is exact at both ends of its range and under the server's reading of difficulty
(`SearchIsExact`, `NeverRejected`); the verdict reported is the server's, and the client ends.

Where a theorem says that a module is type correct for every instance, its type invariant is not
checked again by a run, except in the module that came first, `BlockchainState`.

Why the bounds are enough. In `state` the universe has every kind of block the code tells apart and
a fork that changes the tip three times; orphans wait on orphans. For the network two nodes can
race, fork, and hold stale views of each other; a third matters for gossip alone, where the run has
three. Height 2 gives a fork that is resolved by length as well as one resolved by hash. In the
setup of `network_recovers` with confirmations the bound on heights, 4, does not bind: mining ends
for want of work below `MostBlocks`, which is 4 there (two nodes that may each be handed the
transaction, one submission, a block and its confirmation) and is proved of teams of any size. The hash of a block begins with the
outcome of its nonce search, so that each of two blocks at one height may have the smaller hash. The
symmetry of `network_forks` is sound: the nodes are interchangeable there, hashes do not depend on
them, and all its properties are invariants or about single steps, none about liveness. Two members
in the relay race have a first and a last leader, a baton and a fallback; the setup with three adds
the member that follows twice and the leader in between, and is therefore kept to lost batons. For
`SignedUdp` one teammate is enough, since the node keeps the numbers and endpoints of each apart, and
its two addresses are interchangeable in properties that are all about single states and steps. In
the discovery of endpoints a pair has all handlers but gossip, for which a third member is needed
whom one of the others does not look for; it begins after the introductions, since those are the
business of the pair. One loss and one failing lookup in `NodeStartup` hit each message once, and
with a re-resolution every second round a lookup goes wrong at the start or takes the address away
later, and is repaired by the next;
the polls of `RaceSetup` let a hint become due before the search ends, or not. Two bytes of two bits
have digests with the first bit set in either byte, or none. Beyond these bounds the theorems below
carry the safety properties.

`CHECK_DEADLOCK FALSE` is said where the system may stop: the race ends, the network without
catch-up has nothing to do once all is delivered, the preparation and the programs end, and a member
of the team may never be started.

## Fairness

`BlockchainState` assumes that the loop of `add_block` goes on: it never awaits. `BlockchainNetwork`
assumes weak fairness of delivery (a datagram is handled unless it is lost), of `add_block`, of the
mining loop (`while True` with a sleep) and of the end of a nonce search (each batch returns). The
catch-up loops wake every second for ever; in the setups with rounds "apart" a turn waits until
nothing is under way, a moment that comes again and again but not for good, hence strong fairness of
`CatchUp`. Losses and restarts have no fairness and are bounded, as the code only promises to
recover from finitely many.

`RelayRace` assumes that every loop goes round again, that the server answers, and that a session
takes each kind of message that waits for it. `relay_finishes` assumes that a signature reply is not
lost when its sender has already left for another `_follow_round` or is done (setup: `lost` is
"repeated"): such a reply is never repeated, and `_lead_round` has no deadline, so that the leader
would broadcast for ever. This is the weakest point of the race and listed as a hazard.

`DiscoveryFairness`, also that of the preparation, whose deadline need not come: every member starts its program, its two loops go round, IPv8's walker brings
any two overlays that stay up together, and what is not lost arrives. Gossip is not assumed to
arrive, and in the preparation no UDP datagram is: the test waits two seconds and goes on.
`StartupFairness`: the coroutine and the discovery task of a started node go on, and the server
introduces whom it knows; datagrams of the registration need not arrive. `RaceSetupFairness` and
`PowFairness`: the program's own steps go on, its timers included; nothing is assumed of IPv8, the
network or the server, which is what makes `SetUpEnds` and `PowClientEnds` say something.

## Proofs

All of these hold for every value of the constants (any number of nodes, members, blocks, losses,
restarts, retries) under the assumptions named.

**`ChainRulesProofs`**, from `BlocksAssumption` (blocks are records with hashes and heights in
`Nat`, and `Genesis` is one of height 0), has what is true of any tree of blocks: `IsBetterTip` is a
total order up to equal hashes (`BetterIsTransitive`, `BetterIsTotal`), the walk back from the tip
finds the path to genesis (`WalkFindsPath`), and `SameTreeSameTip`.

**`BlockchainStateProofs`**, from the same assumption: the invariants of the run `state` and `TreeIsClosed`, the action
property (`TipChangeAlwaysSettlesMempool`) and `StateImplementsForkChoice`. `TreeIsAlwaysComplete`
needs `OneHeightPerHash`: the height is not covered by the hash of a block (`block.py:80`), so a
block could come back with another height under the same hash. The inductive invariant is `IInv`
(in `BlockchainState`). The stated invariants are not inductive alone. `IndexIsPath`
speaks of the main chain only, but a reorganisation moves to a branch that was never indexed;
`PathsExist` says that each block of the tree is reached by a path from height 0. That hashes are
unique comes from the duplicate check and from `OrphansWait`, which ties `_orphan_hashes` to the
orphan lists. Completeness adds `NothingDropped`: what was received is stored, waiting, queued or
refused for its height.

Two results go beyond the runs. `AddBlockUsesUpItsQueue` is the safety half of `AddBlockReturns`: an
iteration of the loop leaves fewer blocks in queue and orphans together, or as many and fewer of
them in the queue (`LessToDo`), which cannot go on for ever; it needs `OrphansWait`, since a block
inserted while it also waits as an orphan would come back. `CatchingUpWorks`, under
`OneHeightPerHash`, is what catching up is for: a node that was sent the whole main chain of a peer, in
any order and with anything in between, stands on its tip or on a better one (`KeepsUp`). The lowest block of
that chain that was missing would have its parent in the tree, against `TreeIsComplete`.

**`BlockchainNetworkProofs`**, from `NetworkAssumption` (setups are well formed), `MiningAssumption`
and the above: `NetworkTypeCorrect`, `AgreementTheorem` (same blocks, same tip), `KeptTheorem` (no
transaction is lost), `ImprovesTheorem` (only a restart worsens a tip: `TipOnlyImproves`, which no
run checks since `NodesChoose` implies it); and, where no setup has restarts, `ParentTheorem`,
`NodesChooseTheorem` and `GossipTheorem`. `TipsExchanged` needs less than `AgreementTheorem`: two
nodes that have each other's tip in their trees have the same tip, whatever else only one of them
knows. `NetworkInv` gives each node `StateInv`: a tree in which every
block ends a path (`TreeInv`), its best block as the tip (`BestOf`), and the transactions in the
mempool or on the chain (`TransactionsKept`); with that, the blocks the miners work on and the
datagrams carry stay below the bound. `TransactionsKept` needs the tree to be right before and after
an insertion, and that the walk from a new tip sees the same blocks in the grown tree
(`MainChainSurvivesGrowth`). `ParentTheorem` adds `ParentInv`: what a miner works on is in its own
tree, and orphans and queued blocks are rooted somewhere as the datagrams are; it is stable because,
without restarts, trees only grow (`ChainMoves`).

`NodesChooseTheorem` rests on `NetworkInv` at both ends of a step: when a node stores a block
(`NodeLearns`), its new tip is the best of the grown tree by `BestOf`, which is what `ForkChoice`
lets it choose. `NodeImplementsForkChoice` says the same of one node. A restart is not a step of
fork choice, as the node forgets what it knew; hence the hypothesis.

`GossipTheorem` is about teams of three or more and one lost datagram. What is to be shown, that
nothing is missing anywhere once nothing is under way, says nothing of the states before, so
`GossipInv` keeps the account of what gossip owes: whatever one node knows and another lacks is
under way *from the one to the other*, or was the datagram that got lost (`OnItsWay`). This holds
for every pair because each node passes on what is new to it (`TransactionPassedOn`,
`BlockPassedOn`), and needs that a sender knows what it sends (`SenderKnows`) and that no block on
genesis is ever an orphan (`Grounded`). If a node lacked something at the end, the one
that knows it would owe it to that node, and a third would owe it too or be owed it; one loss is
too few for both (`OneLossIsMadeGood`). In a team of two there is no third, which is why the
hypothesis `ThreeNodes` is there.

**`MiningProofs`**, from `IsFiniteSet(Node)` and the assumptions of `BlockchainNetworkProofs`:
`MiningTheorem`, the safety half of "mining ends". A chain on which `_has_pending_work` still says
yes has fewer than `MostBlocks` blocks, whatever the bound on heights and however many nodes mine
the same transaction, lose datagrams or reorganise; a transaction that comes again after it was
mined (`chain.py:117`) is what makes more than one block and its confirmations possible. Only
`MaxRestarts = 0` is assumed of the setup, inside the property. The argument:

- a *handover* is one way in which a node may be handed a submitted transaction: by the submission
  itself, or by a teammate that passes it on (`Handovers`). As a node passes on only what is new to
  it, no handover happens twice (`AccountsOfSubmission`, `AccountsOfDelivery`);
- every block with transactions is *charged* to a handover of one of them, no two blocks of one
  branch to the same (`Charged`). When fork choice moves to a branch, what stays in the mempool is
  not on that branch, so that any of its handovers is still `Unspent` there; when it does not,
  only a new handover puts something into the mempool (`SpendableStays`);
- no more than `RequiredConfirmations` blocks without transactions follow one with (`Dense`), since
  a miner starts only on pending work and keeps the tip it started on (`Worthwhile`,
  `PendingWorkIsNear`);
- so each level of a branch has a handover and a distance of its own, and there are `MostBlocks` of
  these pairs (`LineIsShort`, a pigeonhole).

Which handover a block is charged to cannot be read off a state, and the model keeps no history for
it: the invariant `History` says that there are such accounts (`what`, `used`, `due`, `by`), and each
step shows how to extend them. `Placed` gives the union of all trees as one good tree (`Tree`), in
which a branch is the same for every node (`LineStays`); it needs that a block mined twice is the
same block (`NoTwin`) and that nothing is forgotten, hence no restarts.

`WorkEndsConfirmed` is the other side, with or without restarts: `_has_pending_work` says no only
when every transaction the node accepted is on its main chain with the required blocks on top. The
code looks at the transactions of the chain alone, so this rests on `TransactionsKept`.

**`RelayRaceProofs`**, from `RaceAssumption`: `RaceTypeCorrect`, `TurnsTheorem`, `SignedTheorem`,
`SuccessTheorem`, `FailureTheorem`, `RaceImplementsRelay`. None is inductive, as what a leader may conclude depends on
messages sent long before. `RaceInv` says what each part can be trusted with: a challenge under way
or in use has been `Issued` and stays so, whoever has what looks like it (`LeadersOK`, `NetOK`); a
signature under way, or one not missing any more, is of a member that signed; a bundle has
`AllSigned`; a result names only recorded rounds as recorded, and one by which the last leader would
lose comes only after the budget is over (`TasksOK`, `ServerOK`). `LooksLikeDuplicateSuccess`, the
inference from a rejection, is sound because a result of the server carries at most the number of
rounds it had recorded.

`RaceImplementsRelay` takes each step of the code to one of `Sign`, `Record` and `Claim` or a
stutter (`RaceStepsAreRelaySteps`, `RelayIsRefined`). A member signs only rounds whose challenge is
out, because a nonce under way has been `Issued`. A claim is never taken back, because a leader
leads once: when its result task exists it has left `lead_round` for good (`LeadsOnce`).

**`SignedUdpProofs`**, from `UdpAssumption` (bounds and ids) and `NoneAssumption` (`None` is neither
an id nor an endpoint): the invariants of the run and `MailboxImplemented`, every step a step of `Mailbox` or a
stutter. `NothingTwice` is not inductive: that a new message has a new number follows from the
numbers seen, not from the messages held. `UdpInv` therefore says that the numbers seen are exactly
those of the datagrams that arrived (`Recorded`), that no two of `taken`, `backlog` and `queue`
share a number (`Parted`), and that nothing in the backlog is of the kind a `wait_for` awaits from
the queue (`LooksInVain`), without which the message it takes would not be the oldest of its kind.
`AnswersGoToPeer` needs that what was seen before `set_peers` stays seen (`EarlySeen`): a datagram
with another number is then either new, and teaches its endpoint, or was heard after `set_peers`
before. That only another process can have used the number of a lost message follows from
`NumbersAreUnique`: a process uses each number once.

**`ProgramsProofs`** on the start of the nodes, from `StartupAssumption` (finitely many nodes, so that losses can be
counted): `StartupTypeCorrect`, `GateTheorem` (the loops of a node run only with its team),
`ReportTheorem`. The report is true because an answer
under way or queued follows a registration that the server has treated (`AnswersFollow`) and because
the server does not change its mind about a group (`RulingStands`), an assumption of the model.

**`ProgramsProofs`** on the set-up of the race, from `RaceSetupAssumption`: `RaceSetupTypeCorrect`, `CacheTheorem`,
`UnhintedTheorem`, `RegisteredTheorem`. `HintIsCached` ties the hint of a search to the file,
`SessionHasServer` gives a session an address, `AnswerIsTrue` says what an answer means even when it
comes in a later run.

**`PrepPhaseProofs`**, from `DiscoveryAssumption` (teammates look for each other): `PrepTypeCorrect`
(with it, that nobody learns an endpoint of anyone but a target) and `GreetedTheorem`. `HelloInv`
has the reason: a pong only ever goes to the socket of a ping, so the events are set by hellos.

**`ProgramsProofs`** on Lab 1, from `PowAssumption` (bytes of any width, digests of any length, any function
from nonces to digests, difficulties in `Nat`): `ZeroBitsAreCounted`, `PowTypeCorrect`,
`SearchTheorem`, `NeverRejectedTheorem`, `VerdictTheorem`. `TwoTo` is a recursive function over the
bits of a byte, and what is needed of it (that it doubles, `PowersUnfold`, and grows, `PowersGrow`)
is derived from a least counterexample (`LeastElement`), not by an induction theorem. `BitLength` is the least number of bits that hold a byte
(`BitLengthIsLeast`); with the quotient and remainder of the difficulty (`Quotients`, `WholeBytes`)
the byte with the first set bit decides both the count and the server's test. `PowInv` says that all
nonces from the start up to the one that is tried next fail, that what is to be submitted meets the
difficulty, and that a response of the server under way, or taken, is its one verdict. Who meets a
difficulty meets every smaller one (`MeetsLess`), which follows from the count and hardly from the
server's own wording; so nothing is rejected by a server that asks for less.

Only model-checked: liveness (`AddBlockReturns`, `TipsConverge`, `TransactionsGetConfirmed`,
`RaceFinishes`, `EveryoneLearnsEveryone`, `SomeoneFinds`, `NodesMeet`, `SetUpEnds`,
`PowClientEnds`), since fairness and `ENABLED` are beyond the prover. Every invariant and every
action property that a passing run checks is also proved.

## Disagreements with the documents

- `chain.py:101` calls the mempool the "known pending transaction not yet on the chain";
  `add_transaction` does not look at the chain, so a transaction that comes again goes back into the
  mempool and is mined twice (`mempool_doc`). It follows that the chain need not be the minimal one,
  a transaction block and its confirmations, that `service.py:155-158` and
  `docs/Lab3-Implementation.md:327` describe. No agreement is broken and no transaction lost.
- `wait_for_pong` says "Wait for a pong from a specific peer." (`udp_prep.py:149`), and `README.md:109`
  that `lab2-prep` "tests UDP ping/pong reachability". A pong goes to the socket that was opened for
  the ping, which nobody reads (the comment at `udp_prep.py:183` is wrong about it), and what sets the
  event is the hello of the peer, which may be older than the ping: a peer counts as reachable that
  has answered nothing (`pong_doc`).
- `cli.py:65` registers whatever became of the gate of `build_node`, while
  `docs/Lab3-Implementation.md:297` explains that registering before all three are up wastes an
  attempt (`registers_early`).

Smaller ones, met while modelling and visible in the models, without a run of their own:

- `prep_cli.py:235` stops IPv8 as soon as a member has the endpoints of its teammates, whether or not
  they have its own. A teammate that has not asked it by then asks in vain until the deadline of its
  program ends it with exit code 1, and is to be run again together with the others. No document
  denies it; `SomeoneFinds` says what remains true.
- `community.py:547` (Lab 2) walks to a gossiped endpoint, which is that of the UDP socket, where
  IPv8 does not listen; `OnEndpointGossip` therefore changes nothing.
- `main.py:38-40` (Lab 1) says that `--nonce` skips mining; without `--submit-only` it is where
  mining begins. The timeout of the client counts from the start of the overlay and not from the
  submission.

## Not modelled

- Cryptography: a signature or hash is valid or not, and handlers drop what is not valid before they
  touch the state. For Lab 3 the count of zero bits is a Boolean of the block; `block.py:98` repeats
  `pow.py:41`, which `PowClient` models.
- Formats: packing a header, splitting and joining a body (`codec.py`), payload classes.
- IPv8 itself: overlays introduce, verify and deliver; peers are never forgotten by the Lab 3
  overlays, which have no strategy that removes them.
- Reading keys, team files and arguments; fetching libsodium; logging; starting processes
  (`run_lab3_nodes.py`) and the one-off tools; the order of a shutdown.
- The UDP preparation with peers from the command line, which skips the discovery, and
  `ensure_udp_connectivity` (`udp_prep.py:192-240`), which nothing in the repository calls.
- The lengths of timeouts against each other, except in the search of `RaceSetup`: any timeout may
  come at any time, or, in `RelayRace`, when the model's setup allows it.

`PROJECT.json` has the reason for each component, and under `hazards` a note for each hazard that no
property covers.

## Plan

The plan began with the module everything in Lab 3 rests on, went from there to the protocols and
then to the programs around them:

1. `ChainRules`, `BlockchainState`, `ForkChoice` with proofs - done;
2. `BlockchainNetwork` on top of the rules of 1 - done, with proofs of its safety, of gossip and of
   fork choice on every node, and that mining ends;
3. `RelayRace`, `Relay`, `SignedUdp`, `Mailbox` - done, with proofs;
4. `EndpointDiscovery` and `PrepPhase` - done, with proofs;
5. `NodeStartup`, `RaceSetup`, `PowClient` - done, with proofs.

What could follow: the relative lengths of the timeouts in `RelayRace`, which would settle whether a
follower can give up (`race.py:536`) while the first leader still waits for another member; the
body codec against a reference definition; and the server's walk over a chain that reorganises while
it asks for it block by block.
