---------------------------- MODULE BlockchainNetwork ----------------------------
(***************************************************************************)
(* The nodes of one team: the handlers of src/lab3_blockchain/community.py *)
(* and the mining and catch-up loops of src/lab3_blockchain/service.py,    *)
(* over the consensus state of chain.py and UDP.                           *)
(*                                                                         *)
(* The consensus state of a node is a record.  Two of its parts are left   *)
(* out because BlockchainStateProofs shows what they hold: hash_by_height  *)
(* is MainChain(blocks, tip) and _orphan_hashes the hashes of the orphans. *)
(* A handler runs to its end on the event loop of its node.  The one part  *)
(* that takes several steps here is add_block, when it attaches orphans:   *)
(* pending holds what is left of its work queue, and every other action    *)
(* waits until the queues are empty, which loses no behaviour because the  *)
(* loop touches nothing but its own node.                                  *)
(***************************************************************************)
EXTENDS ChainRules, FiniteSets

CONSTANTS
    Node,                   \* the members of the team
    BlockHash(_, _, _),     \* the hash of a block with this parent, body and nonce
    Setups                  \* what the nodes are set up with, and what happens to them

(***************************************************************************)
(* A setup has                                                             *)
(*   confirmations  REQUIRED_CONFIRMATIONS                                 *)
(*   nonces         for each node, the outcomes its nonce search can have  *)
(*   catch_up       how the catch-up rounds go: see CatchUp                *)
(* and the bounds of the model:                                            *)
(*   height         no block is mined above this height                    *)
(*   submits        how often the server submits a transaction             *)
(*   losses         how many datagrams get lost                            *)
(*   restarts       how many times a process is restarted                  *)
(***************************************************************************)
ASSUME NetworkAssumption == \A s \in Setups :
    /\ {s.confirmations, s.height, s.submits, s.losses, s.restarts} \subseteq Nat
    /\ s.catch_up \in {"off", "apart", "overlapping"}
    /\ DOMAIN s.nonces = Node

VARIABLES
    chain,      \* the BlockchainState of each node
    miner,      \* what _mine_one_block of each node works on, or Idle
    msgs,       \* the datagrams under way
    submits,    \* how often the server has submitted a transaction
    losses,     \* how many datagrams have been lost
    restarts,   \* how often a node has been restarted
    setup       \* the setup of this behaviour; does not change

RequiredConfirmations == setup.confirmations
MaxHeight == setup.height
Nonces == setup.nonces
MaxLosses == setup.losses
MaxRestarts == setup.restarts

vars == <<chain, miner, msgs, submits, losses, restarts>>

Idle == [mining |-> FALSE]
Working(tip, txs) == [mining |-> TRUE, on |-> tip, txs |-> txs]

EmptyState ==
    [blocks |-> {Genesis}, tip |-> Genesis, orphans |-> {}, transactions |-> {},
     mempool |-> {}, pending |-> {}]

Init ==
    /\ setup \in Setups
    /\ chain = [n \in Node |-> EmptyState]
    /\ miner = [n \in Node |-> Idle]
    /\ msgs = {}
    /\ submits = 0 /\ losses = 0 /\ restarts = 0

--------------------------------------------------------------------------------
(* Datagrams.  PeerBlockPayload and PeerBlockResponsePayload have the same *)
(* handler, and are one kind here.                                         *)

Kinds == {"Transaction", "Block", "StatusRequest", "StatusResponse", "BlockRequest"}

TransactionMsg(from, to, tx) == [kind |-> "Transaction", from |-> from, to |-> to, tx |-> tx]
BlockMsg(from, to, b) == [kind |-> "Block", from |-> from, to |-> to, block |-> b]
StatusRequestMsg(from, to) == [kind |-> "StatusRequest", from |-> from, to |-> to]
StatusResponseMsg(from, to, tip) ==
    [kind |-> "StatusResponse", from |-> from, to |-> to, tip |-> tip]
BlockRequestMsg(from, to, height) ==
    [kind |-> "BlockRequest", from |-> from, to |-> to, height |-> height]

(* gossip_transaction and gossip_block: one datagram to every teammate but *)
(* the excluded ones.                                                      *)
GossipTransaction(n, tx, exclude) ==
    {TransactionMsg(n, p, tx) : p \in Node \ ({n} \cup exclude)}
GossipBlock(n, b, exclude) ==
    {BlockMsg(n, p, b) : p \in Node \ ({n} \cup exclude)}

--------------------------------------------------------------------------------
(* The consensus state s of a node after a call of chain.py. *)

HashByHeight(s) == MainChain(s.blocks, s.tip)

Verdict(s, b) == ValidateBlock(s.blocks, HashesOf(s.orphans), b)

WithTransaction(s, tx) ==
    [s EXCEPT !.transactions = @ \cup {tx}, !.mempool = @ \cup {tx}]

(* Mistake: at equal heights the last block to arrive wins. *)
WithLastTip(s, b) ==
    IF b.height >= s.tip.height
    THEN [s EXCEPT !.tip = b,
                   !.mempool = ReconcileMempool(@, s.transactions, HashByHeight(s),
                                                MainChain(s.blocks, b))]
    ELSE s

(* Mistake: the blocks of the branch that lost are thrown away. *)
WithTipAlone(s, b) ==
    LET new_chain == MainChain(s.blocks, b) IN
    IF IsBetterTip(b, s.tip)
    THEN [s EXCEPT !.tip = b,
                   !.blocks = {new_chain[h] : h \in DOMAIN new_chain},
                   !.mempool = ReconcileMempool(@, s.transactions, HashByHeight(s),
                                                new_chain)]
    ELSE s

(* The tip, and with it the mempool, once b is in the tree. *)
WithTip(s, b) ==
    IF IsBetterTip(b, s.tip)
    THEN [s EXCEPT !.tip = b,
                   !.mempool = ReconcileMempool(@, s.transactions, HashByHeight(s),
                                                MainChain(s.blocks, b))]
    ELSE s

(* One iteration of the loop of add_block on b, by its verdict. *)
WithBlock(s, b) ==
    LET waiting == {o \in s.orphans : o.prev = b.hash}
        queue == s.pending \ {b}
    IN  CASE Verdict(s, b) = "valid" ->
               WithTip([s EXCEPT !.blocks = @ \cup {b},
                                 !.orphans = @ \ waiting,
                                 !.pending = queue \cup waiting], b)
          [] Verdict(s, b) = "unknown_parent" ->
               [s EXCEPT !.orphans = @ \cup {b}, !.pending = queue]
          [] OTHER -> [s EXCEPT !.pending = queue]

(* No add_block is under way. *)
Quiet == \A n \in Node : chain[n].pending = {}

(* The loop of add_block goes on with an orphan whose parent came. *)
AttachOrphan(n) ==
    /\ \E o \in chain[n].pending : chain' = [chain EXCEPT ![n] = WithBlock(@, o)]
    /\ UNCHANGED <<miner, msgs, submits, losses, restarts>>

--------------------------------------------------------------------------------
(* The handlers of community.py. *)

(* on_submit_transaction: the server hands tx to node n. *)
SubmitTransaction(n, tx) ==
    /\ Quiet
    /\ submits < setup.submits
    /\ submits' = submits + 1
    /\ chain' = [chain EXCEPT ![n] = WithTransaction(@, tx)]
    /\ msgs' = msgs \cup GossipTransaction(n, tx, {})
    /\ UNCHANGED <<miner, losses, restarts>>

(* on_peer_transaction: only a transaction that is new is gossiped on. *)
OnPeerTransaction(m) ==
    LET n == m.to IN
    /\ chain' = [chain EXCEPT ![n] = WithTransaction(@, m.tx)]
    /\ msgs' = (msgs \ {m}) \cup
               IF m.tx \in chain[n].transactions THEN {}
               ELSE GossipTransaction(n, m.tx, {m.from})
    /\ UNCHANGED miner

(* Mistake: blocks are not gossiped on. *)
IngestBlockSilently(m) ==
    LET n == m.to IN
    /\ chain' = [chain EXCEPT ![n] = WithBlock(@, m.block)]
    /\ msgs' = (msgs \ {m}) \cup
               IF Verdict(chain[n], m.block) = "unknown_parent" /\ m.block.height > 0
               THEN {BlockRequestMsg(n, m.from, m.block.height - 1)} ELSE {}
    /\ UNCHANGED miner

(* _ingest_block: a stored block is gossiped on; for an orphan the sender  *)
(* is asked for the block one level below.                                 *)
IngestBlock(m) ==
    LET n == m.to
        verdict == Verdict(chain[n], m.block)
    IN
    /\ chain' = [chain EXCEPT ![n] = WithBlock(@, m.block)]
    /\ msgs' = (msgs \ {m}) \cup
               CASE verdict = "valid" -> GossipBlock(n, m.block, {m.from})
                 [] verdict = "unknown_parent" /\ m.block.height > 0 ->
                      {BlockRequestMsg(n, m.from, m.block.height - 1)}
                 [] OTHER -> {}
    /\ UNCHANGED miner

(* on_peer_status_request *)
OnPeerStatusRequest(m) ==
    /\ msgs' = (msgs \ {m}) \cup {StatusResponseMsg(m.to, m.from, chain[m.to].tip)}
    /\ UNCHANGED <<chain, miner>>

(* Mistake: only what is above our own tip is requested. *)
OnPeerStatusResponseAbove(m) ==
    /\ msgs' = (msgs \ {m}) \cup
               {BlockRequestMsg(m.to, m.from, h) :
                   h \in (chain[m.to].tip.height + 1)..m.tip.height}
    /\ UNCHANGED <<chain, miner>>

(* on_peer_status_response: the peer's whole chain is requested when its   *)
(* tip was another one than ours is now.                                   *)
OnPeerStatusResponse(m) ==
    /\ msgs' = (msgs \ {m}) \cup
               IF m.tip.hash = chain[m.to].tip.hash THEN {}
               ELSE {BlockRequestMsg(m.to, m.from, h) : h \in 1..m.tip.height}
    /\ UNCHANGED <<chain, miner>>

(* on_peer_block_request: the block of that height on the main chain of    *)
(* this moment, whichever branch the peer had in mind.                     *)
OnPeerBlockRequest(m) ==
    LET s == chain[m.to] IN
    /\ msgs' = (msgs \ {m}) \cup
               IF m.height \in 0..s.tip.height
               THEN {BlockMsg(m.to, m.from, HashByHeight(s)[m.height])} ELSE {}
    /\ UNCHANGED <<chain, miner>>

Deliver(m) ==
    /\ Quiet
    /\ \/ m.kind = "Transaction" /\ OnPeerTransaction(m)
       \/ m.kind = "Block" /\ IngestBlock(m)
       \/ m.kind = "StatusRequest" /\ OnPeerStatusRequest(m)
       \/ m.kind = "StatusResponse" /\ OnPeerStatusResponse(m)
       \/ m.kind = "BlockRequest" /\ OnPeerBlockRequest(m)
    /\ UNCHANGED <<submits, losses, restarts>>

(* UDP may drop any datagram. *)
Lose(m) ==
    /\ Quiet
    /\ losses < MaxLosses
    /\ losses' = losses + 1
    /\ msgs' = msgs \ {m}
    /\ UNCHANGED <<chain, miner, submits, restarts>>

--------------------------------------------------------------------------------
(* The loops of service.py. *)

(* Mistake: no blocks are mined on top of a mined transaction. *)
HasPendingTransactions(s) == s.mempool # {}

(* Mistake: one confirmation too many. *)
HasPendingWorkTooLong(s) ==
    \/ s.mempool # {}
    \/ \E tx \in s.transactions \cap ChainTxs(HashByHeight(s)) :
          Confirmations(HashByHeight(s), s.tip, tx) <= RequiredConfirmations

(* _has_pending_work *)
HasPendingWork(s) ==
    \/ s.mempool # {}
    \/ \E tx \in s.transactions \cap ChainTxs(HashByHeight(s)) :
          Confirmations(HashByHeight(s), s.tip, tx) < RequiredConfirmations

(* _mining_loop finds work; _mine_one_block takes its candidate from the   *)
(* tip and the mempool of this moment.                                     *)
StartMining(n) ==
    /\ Quiet
    /\ ~miner[n].mining
    /\ HasPendingWork(chain[n])
    /\ chain[n].tip.height < MaxHeight
    /\ miner' = [miner EXCEPT ![n] = Working(chain[n].tip, chain[n].mempool)]
    /\ UNCHANGED <<chain, msgs, submits, losses, restarts>>

(* A batch of nonces ran out and the tip has moved meanwhile. *)
AbandonMining(n) ==
    /\ Quiet
    /\ miner[n].mining
    /\ miner[n].on.hash # chain[n].tip.hash
    /\ miner' = [miner EXCEPT ![n] = Idle]
    /\ UNCHANGED <<chain, msgs, submits, losses, restarts>>

MinedBlock(w, nonce) ==
    [hash |-> BlockHash(w.on.hash, w.txs, nonce), prev |-> w.on.hash,
     height |-> w.on.height + 1, txs |-> w.txs, pow |-> TRUE]

(* What the miners can find is in the universe of blocks. *)
ASSUME MiningAssumption == \A s \in Setups, n \in Node :
    \A on \in Blocks, txs \in SUBSET Txs, nonce \in s.nonces[n] :
        on.height < s.height => MinedBlock(Working(on, txs), nonce) \in Blocks

(* The executor comes back with a block, which is added without another    *)
(* look at the tip.                                                        *)
FindBlock(n) ==
    /\ Quiet
    /\ miner[n].mining
    /\ \E nonce \in Nonces[n] :
          LET b == MinedBlock(miner[n], nonce) IN
          /\ chain' = [chain EXCEPT ![n] = WithBlock(@, b)]
          /\ msgs' = msgs \cup
                     IF Verdict(chain[n], b) = "valid" THEN GossipBlock(n, b, {}) ELSE {}
    /\ miner' = [miner EXCEPT ![n] = Idle]
    /\ UNCHANGED <<submits, losses, restarts>>

(* _catchup_loop: every second a status request to every teammate.  With   *)
(* rounds "apart" a second is long enough for everything under way to      *)
(* arrive or get lost; "off" looks at what gossip does before the first.   *)
CatchUp(n) ==
    /\ Quiet
    /\ \/ setup.catch_up = "apart" /\ msgs = {}
       \/ setup.catch_up = "overlapping"
    /\ msgs' = msgs \cup {StatusRequestMsg(n, p) : p \in Node \ {n}}
    /\ UNCHANGED <<chain, miner, submits, losses, restarts>>

(* A process is started again.  Its state is in memory only. *)
Restart(n) ==
    /\ Quiet
    /\ restarts < MaxRestarts
    /\ restarts' = restarts + 1
    /\ chain' = [chain EXCEPT ![n] = EmptyState]
    /\ miner' = [miner EXCEPT ![n] = Idle]
    /\ UNCHANGED <<msgs, submits, losses>>

--------------------------------------------------------------------------------

Step ==
    \/ \E n \in Node, tx \in Txs : SubmitTransaction(n, tx)
    \/ \E m \in msgs : Deliver(m) \/ Lose(m)
    \/ \E n \in Node : \/ AttachOrphan(n)
                       \/ StartMining(n)
                       \/ AbandonMining(n)
                       \/ FindBlock(n)
                       \/ CatchUp(n)
                       \/ Restart(n)

Next == Step /\ UNCHANGED setup

Spec == Init /\ [][Next]_<<vars, setup>>

(* The event loop of a node never blocks: add_block returns, a datagram    *)
(* that is not lost is handled, the mining loop starts on what work there  *)
(* is and its nonce search ends.  Each catch-up loop wakes up every second *)
(* for ever; the moments when nothing is under way come and go, hence      *)
(* strong fairness.                                                        *)
Fairness ==
    /\ WF_vars(\E n \in Node : AttachOrphan(n))
    /\ WF_vars(\E m \in msgs : Deliver(m))
    /\ \A n \in Node :
          /\ WF_vars(StartMining(n))
          /\ WF_vars(AbandonMining(n) \/ FindBlock(n))
          /\ SF_vars(CatchUp(n))

FairSpec == Spec /\ Fairness

--------------------------------------------------------------------------------

TypeOK ==
    /\ \A n \in Node :
          LET s == chain[n] IN
          /\ s.blocks \cup s.orphans \cup s.pending \subseteq Blocks
          /\ s.tip \in s.blocks
          /\ s.mempool \subseteq s.transactions
          /\ s.transactions \subseteq Txs
          /\ miner[n].mining => miner[n].on \in Blocks /\ miner[n].txs \subseteq Txs
    /\ \A m \in msgs :
          /\ m.kind \in Kinds /\ m.from \in Node /\ m.to \in Node \ {m.from}
          /\ m.kind = "BlockRequest" => m.height \in 0..MaxHeight
    /\ submits \in 0..setup.submits /\ losses \in 0..MaxLosses /\ restarts \in 0..MaxRestarts

(* Nodes that know the same blocks agree on the tip, whatever the order in *)
(* which each of them mined or received them: fork choice needs no votes.  *)
SameBlocksSameTip ==
    \A n, p \in Node : chain[n].blocks = chain[p].blocks => chain[n].tip = chain[p].tip

(* A transaction a node said yes to stays in its mempool or on its main    *)
(* chain through every reorganisation the network can cause.               *)
NoTransactionLost ==
    \A n \in Node :
        chain[n].transactions \subseteq chain[n].mempool \cup ChainTxs(HashByHeight(chain[n]))

(* Every block under way or waiting as an orphan builds on a block that    *)
(* some node has in its tree, so that catching up can find it.  Holds as   *)
(* long as no process is restarted.                                        *)
ParentIsSomewhere ==
    \A b \in {m.block : m \in {k \in msgs : k.kind = "Block"}}
             \cup UNION {chain[n].orphans : n \in Node} :
        b = Genesis \/ \E n \in Node : ParentKnown(chain[n].blocks, b)

(* Gossip passes every transaction, and every block that finds its parent, *)
(* on one hop further than its sender, so that in a team of three one lost *)
(* datagram does not keep from a node, before any catching up, what the    *)
(* others know: all transactions and all blocks on genesis.  A higher      *)
(* block may arrive as an orphan, which is not passed on when it attaches. *)
GossipSurvivesALoss ==
    msgs = {} /\ Quiet /\ losses <= 1 =>
        \A n, p \in Node :
            /\ chain[n].transactions = chain[p].transactions
            /\ \A b \in chain[n].blocks : b.prev = Genesis.hash => b \in chain[p].blocks

(* Under losses, reordering and forks a node never gives up its tip for a  *)
(* worse one; only a restart does.                                         *)
TipOnlyImproves ==
    [][\A n \in Node :
          \/ chain'[n].tip = chain[n].tip
          \/ IsBetterTip(chain'[n].tip, chain[n].tip)
          \/ restarts' # restarts]_vars

(* The fork choice that node n is seen to make. *)
NodeChoice(n) == INSTANCE ForkChoice WITH known <- chain[n].blocks, best <- chain[n].tip

(* What chain.py promises of one node holds of each member of the team:    *)
(* its tree grows by one good block at a time and its tip is the best      *)
(* block it knows, whatever the network and its own miner hand it at the   *)
(* same time (chain.py:232).  Holds as long as no process is restarted.    *)
NodesChoose ==
    /\ \A n \in Node : NodeChoice(n)!Init
    /\ [][\A n \in Node : UNCHANGED <<chain[n].blocks, chain[n].tip>> \/ NodeChoice(n)!Next]_vars

(* The nodes end up with one tip, whatever was lost. *)
TipsConverge == <>[](\A n, p \in Node : chain[n].tip = chain[p].tip)

(* A submitted transaction ends up on every main chain with the required   *)
(* number of blocks on top, unless its node may forget it in a restart.    *)
IsConfirmed(s, tx) ==
    /\ tx \in ChainTxs(HashByHeight(s))
    /\ Confirmations(HashByHeight(s), s.tip, tx) >= RequiredConfirmations
TransactionsGetConfirmed ==
    \A tx \in Txs :
        (MaxRestarts = 0 /\ \E n \in Node : tx \in chain[n].transactions)
            ~> (\A n \in Node : IsConfirmed(chain[n], tx))

(* A node is handed a transaction by the server, or by the node it was      *)
(* submitted to; or by a teammate that passes on what a third one sent it. *)
Hops == {h \in Node \X Node : h[1] = h[2] \/ \E q \in Node : q # h[1] /\ q # h[2]}

(* Mining ends by itself: however the races between the miners go, a chain *)
(* holds at most one block, and its confirmations, for each time that a    *)
(* node can be handed a submitted transaction, which puts it back into the *)
(* mempool (chain.py:117).  Only a restarted process may mine for longer.  *)
MostBlocks == Cardinality(Hops) * setup.submits * (RequiredConfirmations + 1)
MiningEndsByItself ==
    MaxRestarts = 0 =>
        \A n \in Node : HasPendingWork(chain[n]) => chain[n].tip.height < MostBlocks
================================================================================
