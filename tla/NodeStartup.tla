------------------------------ MODULE NodeStartup ------------------------------
(***************************************************************************)
(* How the nodes of Lab 3 start (src/lab3_blockchain): build_node of       *)
(* service.py with the discovery task seed_walk_loop of discovery.py, the  *)
(* gate wait_for_teammate_peers, and the registration that cli.py runs     *)
(* after it, register_blockchain of registration.py.                       *)
(*                                                                         *)
(* The address of a process is the process itself: both overlays of a node *)
(* share one port.  Time-outs have no clock and may come at any time.  Of  *)
(* the seeds the server matters, the others being dead.  IPv8 and the      *)
(* server are external.  IPv8 forgets no peer here: no overlay is given a  *)
(* strategy that removes peers.                                            *)
(*                                                                         *)
(* A walk is an introduction request and its response.  The walks of one   *)
(* round arrive with it or are lost: every later round repeats them, so    *)
(* one that is late is one that was lost.                                  *)
(***************************************************************************)
EXTENDS Naturals, FiniteSets

CONSTANTS
    Nodes,            \* the members of the team
    CourseServer,     \* the Lab 3 server
    Registrants,      \* the nodes that are run with --register
    Retries,          \* retries of register_blockchain
    ReresolveEvery,   \* reresolve_every of seed_walk_loop
    \* bounds of the model
    MaxDatagramsLost, \* how many datagrams get lost
    MaxDnsFaults      \* how often the name of the server cannot be resolved

ASSUME StartupAssumption ==
    /\ IsFiniteSet(Nodes) /\ CourseServer \notin Nodes
    /\ Registrants \subseteq Nodes
    /\ Retries \in Nat /\ ReresolveEvery \in Nat \ {0}
    /\ MaxDatagramsLost \in Nat /\ MaxDnsFaults \in Nat

VARIABLES
    progress,   \* how far the main coroutine of each node is
    loops,      \* the nodes whose mining and catch-up loops run
    peers,      \* get_peers of each process in each of its overlays
    resolved,   \* the nodes whose list of resolved seeds has the server
    round_no,   \* round_no of the discovery task, counted modulo reresolve_every
    attempts,   \* how many registrations each node has sent
    answered,   \* the nodes with an answer in the queue _results
    result,     \* what register_blockchain returned
    registry,   \* the nodes whose registration the server has recorded
    ruling,    \* what the server answers to the group; does not change
    datagrams,  \* registrations and their answers under way
    lost,       \* how many datagrams have been lost
    dns_faults  \* how often the name of the server could not be resolved

discoveryVars == <<peers, resolved, round_no, dns_faults>>
registrationVars == <<attempts, answered, result, registry>>
startupVars == <<progress, loops, discoveryVars, registrationVars, ruling,
                 datagrams, lost>>

Overlay == {"registration", "blockchain"}
Process == Nodes \cup {CourseServer}

(* "absent": its member never starts the node.  "down": not started yet.   *)
(* "gate": in wait_for_teammate_peers.  "server": register_blockchain      *)
(* waits for the server.  "asking": it waits for an answer.                *)
Progress == {"absent", "down", "gate", "server", "asking", "running"}

Walk(n, p, overlay) == [from |-> n, to |-> p, overlay |-> overlay]
RegisterBlockchain(n) == [kind |-> "Register", from |-> n]
RegisterResponse(n) == [kind |-> "Response", to |-> n]

Datagrams ==
    {RegisterBlockchain(n) : n \in Nodes} \cup {RegisterResponse(n) : n \in Nodes}

Started(n) == progress[n] \notin {"absent", "down"}

(* Only Lab 3 nodes take part in the blockchain overlay. *)
Runs(p, overlay) ==
    IF p = CourseServer THEN overlay = "registration" ELSE Started(p)

StartupTypeOK ==
    /\ progress \in [Nodes -> Progress]
    /\ loops \subseteq Nodes
    /\ peers \in [Process -> [Overlay -> SUBSET Process]]
    /\ resolved \subseteq Nodes
    /\ round_no \in [Nodes -> 0..ReresolveEvery]
    /\ attempts \in [Nodes -> 0..Retries + 1]
    /\ answered \subseteq Nodes
    /\ result \in [Nodes -> {"none", "success", "failure", "unheard"}]
    /\ registry \subseteq Registrants
    /\ ruling \in {"success", "failure"}
    /\ datagrams \subseteq Datagrams
    /\ lost \in 0..MaxDatagramsLost
    /\ dns_faults \in 0..MaxDnsFaults

(* Before any node is started; only the members ever start theirs.         *)
StartupInitOf(members) ==
    /\ progress = [n \in Nodes |-> IF n \in members THEN "down" ELSE "absent"]
    /\ loops = {}
    /\ peers = [p \in Process |-> [o \in Overlay |-> {}]]
    /\ resolved = {}
    /\ round_no = [n \in Nodes |-> 0]
    /\ attempts = [n \in Nodes |-> 0]
    /\ answered = {}
    /\ result = [n \in Nodes |-> "none"]
    /\ registry = {}
    /\ ruling \in {"success", "failure"}
    /\ datagrams = {}
    /\ lost = 0
    /\ dns_faults = 0

StartupInit == \E members \in SUBSET Nodes : StartupInitOf(members)

--------------------------------------------------------------------------------
(* Discovery                                                               *)

DnsFault == dns_faults < MaxDnsFaults /\ dns_faults' = dns_faults + 1

(* resolve_seeds(seeds), when the task begins: n gets the address of the   *)
(* server, or does not.                                                    *)
ResolveSeeds(n) ==
    \/ resolved' = resolved \cup {n} /\ UNCHANGED dns_faults
    \/ DnsFault /\ UNCHANGED resolved

(* resolve_seeds(seeds) or resolved: what resolves now replaces the list,  *)
(* so that the address of the server is forgotten when its name alone      *)
(* fails; the list is kept only if no seed resolves at all.                *)
ReresolveSeeds(n) ==
    \/ resolved' = resolved \cup {n} /\ UNCHANGED dns_faults
    \/ DnsFault /\ resolved' \in {resolved \ {n}, resolved}

(* Mistake: what is discovered in an overlay is walked to in it alone.     *)
SeedWalksWithin(n) ==
    {Walk(n, CourseServer, o) : o \in IF n \in resolved' THEN Overlay ELSE {}}
      \cup UNION {{Walk(n, p, o) : p \in peers[n][o]} : o \in Overlay}

(* One round walks, in every overlay, to the seeds and to every peer known *)
(* in any overlay.                                                         *)
SeedWalks(n) ==
    LET seeds == IF n \in resolved' THEN {CourseServer} ELSE {}
        discovered == UNION {peers[n][o] : o \in Overlay}
    IN {Walk(n, p, o) : p \in seeds \cup discovered, o \in Overlay}

(* The walks of which something can come: of one that is answered the two  *)
(* become peers, of one whose response is lost only the receiver knows.    *)
Useful(walks) ==
    {w \in walks : /\ Runs(w.to, w.overlay)
                   /\ \/ w.to \notin peers[w.from][w.overlay]
                      \/ w.from \notin peers[w.to][w.overlay]}

Met(returned, unanswered) ==
    [p \in Process |-> [o \in Overlay |->
        peers[p][o] \cup {w.to : w \in {v \in returned : v.from = p /\ v.overlay = o}}
          \cup {w.from : w \in {v \in returned \cup unanswered : v.to = p /\ v.overlay = o}}]]

MakeWalks(walks) ==
    \E unheard \in SUBSET Useful(walks) : \E unanswered \in SUBSET (Useful(walks) \ unheard) :
        /\ lost' = lost + Cardinality(unheard \cup unanswered)
        /\ lost' <= MaxDatagramsLost
        /\ peers' = Met(Useful(walks) \ (unheard \cup unanswered), unanswered)

(* A turn of seed_walk_loop, every five seconds for as long as the node    *)
(* runs.  In round 0 the seeds have just been resolved.                    *)
SeedWalkRound(n) ==
    /\ Started(n)
    /\ IF round_no[n] = ReresolveEvery
       THEN ReresolveSeeds(n) ELSE UNCHANGED <<resolved, dns_faults>>
    /\ round_no' = [round_no EXCEPT ![n] = (@ % ReresolveEvery) + 1]
    /\ MakeWalks(SeedWalks(n))
    /\ UNCHANGED <<progress, loops, registrationVars, ruling, datagrams>>

(* A response of the server names another of its peers, and the walker of  *)
(* IPv8 follows.                                                           *)
Introduce(n, m) ==
    /\ n # m
    /\ {n, m} \subseteq peers[CourseServer]["registration"]
    /\ CourseServer \in peers[n]["registration"]
    /\ MakeWalks({Walk(n, m, "registration")})
    /\ UNCHANGED <<progress, loops, resolved, round_no, dns_faults, registrationVars,
                   ruling, datagrams>>

--------------------------------------------------------------------------------
(* build_node and cli.run                                                  *)

(* Up to the gate.  The discovery task resolves the seeds at once. *)
BuildNode(n) ==
    /\ progress[n] = "down"
    /\ progress' = [progress EXCEPT ![n] = "gate"]
    /\ ResolveSeeds(n)
    /\ UNCHANGED <<loops, peers, round_no, registrationVars, ruling, datagrams, lost>>

(* cli.run goes on once build_node returns, whatever it returns. *)
AfterGate(n) == [progress EXCEPT ![n] = IF n \in Registrants THEN "server" ELSE "running"]

(* found_count >= expected_count: _peers_for_targets of the blockchain     *)
(* overlay has every teammate.                                             *)
TeammatesFound(n) == Nodes \ {n} \subseteq peers[n]["blockchain"]

GateOpens(n) ==
    /\ progress[n] = "gate"
    /\ TeammatesFound(n)
    /\ loops' = loops \cup {n}
    /\ progress' = AfterGate(n)
    /\ UNCHANGED <<discoveryVars, registrationVars, ruling, datagrams, lost>>

(* discovery_timeout passes.  The loops never start, even when the last    *)
(* teammate comes in the second that wait_for_teammate_peers sleeps.       *)
GateTimesOut(n) ==
    /\ progress[n] = "gate"
    /\ progress' = AfterGate(n)
    /\ UNCHANGED <<loops, discoveryVars, registrationVars, ruling, datagrams, lost>>

(* register_blockchain: an attempt of n. *)
SendRegister(n) ==
    /\ attempts' = [attempts EXCEPT ![n] = @ + 1]
    /\ datagrams' = datagrams \cup {RegisterBlockchain(n)}

ServerFound(n) ==
    /\ progress[n] = "server"
    /\ CourseServer \in peers[n]["registration"]
    /\ progress' = [progress EXCEPT ![n] = "asking"]
    /\ SendRegister(n)
    /\ UNCHANGED <<loops, discoveryVars, answered, result, registry, ruling, lost>>

(* register_blockchain returns r, and the node runs on. *)
Registered(n, r) ==
    /\ result' = [result EXCEPT ![n] = r]
    /\ progress' = [progress EXCEPT ![n] = "running"]
    /\ UNCHANGED <<loops, discoveryVars, registry, ruling, lost>>

(* server_timeout passes. *)
ServerNotFound(n) ==
    /\ progress[n] = "server"
    /\ Registered(n, "unheard")
    /\ UNCHANGED <<attempts, answered, datagrams>>

(* Mistake: no answer is taken for no objection.                           *)
RegistrationResultAssumed(n) ==
    /\ progress[n] = "asking"
    /\ Registered(n, IF n \in answered THEN ruling ELSE "success")
    /\ answered' = answered \ {n}
    /\ UNCHANGED <<attempts, datagrams>>

(* wait_for_result finds an answer, to whichever attempt. *)
RegistrationResult(n) ==
    /\ progress[n] = "asking"
    /\ n \in answered
    /\ Registered(n, ruling)
    /\ answered' = answered \ {n}
    /\ UNCHANGED <<attempts, datagrams>>

(* response_timeout passes: the next attempt, or none is left. *)
RegistrationUnanswered(n) ==
    /\ progress[n] = "asking"
    /\ n \notin answered
    /\ IF attempts[n] <= Retries
       THEN /\ SendRegister(n)
            /\ UNCHANGED <<progress, loops, discoveryVars, result, registry, ruling, lost>>
       ELSE Registered(n, "unheard") /\ UNCHANGED <<attempts, datagrams>>
    /\ UNCHANGED answered

--------------------------------------------------------------------------------
(* The server, and the network                                             *)

(* Registering again is allowed at any time (docs/Lab3.md:54). *)
OnRegisterBlockchain(d) ==
    /\ d.kind = "Register"
    /\ registry' = IF ruling = "success" THEN registry \cup {d.from} ELSE registry
    /\ datagrams' = (datagrams \ {d}) \cup {RegisterResponse(d.from)}
    /\ UNCHANGED answered

OnRegisterResponse(d) ==
    /\ d.kind = "Response"
    /\ answered' = answered \cup {d.to}
    /\ datagrams' = datagrams \ {d}
    /\ UNCHANGED registry

Receive(d) ==
    /\ d \in datagrams
    /\ OnRegisterBlockchain(d) \/ OnRegisterResponse(d)
    /\ UNCHANGED <<progress, loops, discoveryVars, attempts, result, ruling, lost>>

LoseDatagram(d) ==
    /\ d \in datagrams
    /\ lost < MaxDatagramsLost
    /\ lost' = lost + 1
    /\ datagrams' = datagrams \ {d}
    /\ UNCHANGED <<progress, loops, discoveryVars, registrationVars, ruling>>

StartupStep(n) ==
    \/ BuildNode(n)
    \/ GateOpens(n)
    \/ GateTimesOut(n)
    \/ ServerFound(n)
    \/ ServerNotFound(n)
    \/ RegistrationResult(n)
    \/ RegistrationUnanswered(n)

StartupNext ==
    \/ \E n \in Nodes : StartupStep(n) \/ SeedWalkRound(n)
    \/ \E n, m \in Nodes : Introduce(n, m)
    \/ \E d \in datagrams : Receive(d) \/ LoseDatagram(d)

StartupSpec == StartupInit /\ [][StartupNext]_startupVars

(* The members start their nodes, the coroutine and the discovery task of  *)
(* each go on, and the server introduces whom it knows.                    *)
StartupFairness ==
    \A n \in Nodes : /\ WF_startupVars(StartupStep(n))
                     /\ WF_startupVars(SeedWalkRound(n))
                     /\ WF_startupVars(\E m \in Nodes : Introduce(n, m))

FairStartupSpec == StartupSpec /\ StartupFairness

--------------------------------------------------------------------------------
(* Consensus is begun by a node only when it can reach all teammates where *)
(* blocks are gossiped (service.py:319).                                   *)
LoopsHaveTeam == \A n \in loops : Nodes \ {n} \subseteq peers[n]["blockchain"]

(* What register_blockchain reports is what the server did, also when the  *)
(* answer is late and is taken for that of a retry (registration.py:100).  *)
ReportIsTrue == \A n \in Nodes :
    /\ result[n] = "success" => n \in registry
    /\ result[n] = "failure" => registry = {}

(* All nodes meet in the blockchain overlay, although the server that      *)
(* introduces them does not take part in it, its name may not resolve at   *)
(* first or lose its address again (discovery.py:135), and whatever became *)
(* of the gate (discovery.py:145).                                         *)
NodesMeet ==
    (\A n \in Nodes : progress[n] # "absent") => <>[](\A n \in Nodes : TeammatesFound(n))

(* docs/Lab3-Implementation.md:297: "Block until all teammates are         *)
(* discovered in the blockchain community. [...] registering before all    *)
(* three are up is a known way to waste an attempt."                       *)
RegistersWithTeam == \A n \in Nodes : attempts[n] > 0 => TeammatesFound(n)
================================================================================
