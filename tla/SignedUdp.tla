------------------------------- MODULE SignedUdp -------------------------------
(***************************************************************************)
(* The signed UDP of Lab 2: one SignedUdpNode of udp_runtime.py with its   *)
(* SignedUdpCodec of udp_protocol.py, and the teammates that send to it    *)
(* by the same code.                                                       *)
(*                                                                         *)
(* A datagram is what its signature covers (sender, sequence, kind), the   *)
(* address it came from, and, for the properties, the life of the sender's *)
(* process it belongs to.  What was once sent may arrive any number of     *)
(* times, at any time, or never; datagrams that the codec turns away for   *)
(* their form or signature change nothing and are left out.                *)
(*                                                                         *)
(* The node is started before it knows its teammates: their datagrams      *)
(* already arrive while their endpoints are discovered.                    *)
(***************************************************************************)
EXTENDS Naturals, SequencesExt

CONSTANTS
    Peer,         \* the teammates
    Address,      \* UDP endpoints
    Kind,         \* message ids
    Ignorable,    \* those that ignore_message_id is called with
    \* bounds of the model
    MaxSequence,  \* datagrams a process sends
    MaxLives      \* processes of one teammate

ASSUME UdpAssumption ==
    /\ Ignorable \subseteq Kind
    /\ MaxSequence \in Nat /\ MaxLives \in Nat \ {0}

None == "none"
ASSUME NoneAssumption == None \notin Kind \cup Address

VARIABLES
    sequence,  \* _sequence of each teammate
    life,      \* history: which process of the teammate that is
    address,   \* the endpoint a teammate's datagrams come from
    wire,      \* every datagram sent so far
    seen,      \* _seen_sequences, for each teammate
    peers,     \* the endpoint the node sends to, for each teammate, or None
    ignored,   \* _ignored_message_ids
    queue,     \* _queue
    backlog,   \* _backlog
    looking,   \* what a wait_for that awaits the queue looks for, or None
    arrived,   \* history: the datagrams that arrived in the life of this process
    early,     \* history: the numbers seen before the endpoints were set
    taken      \* history: the messages it took, in order

local == <<seen, peers, ignored, queue, backlog, looking, arrived, early, taken>>
remote == <<sequence, life, address, wire>>
vars == <<remote, local>>

Datagram ==
    [from : Peer, seq : 1..MaxSequence, kind : Kind, src : Address, life : 1..MaxLives]

LocalInit ==
    /\ seen = [p \in Peer |-> {}]
    /\ peers = [p \in Peer |-> None]
    /\ ignored = {}
    /\ queue = <<>>
    /\ backlog = <<>>
    /\ looking = None
    /\ arrived = {}
    /\ early = [p \in Peer |-> {}]
    /\ taken = <<>>

Init ==
    /\ LocalInit
    /\ sequence = [p \in Peer |-> 0]
    /\ life = [p \in Peer |-> 1]
    /\ address \in [Peer -> Address]
    /\ wire = {}

--------------------------------------------------------------------------------
(* The teammates. *)

(* send: each datagram has the next sequence number. *)
Send(p, kind) ==
    /\ sequence[p] < MaxSequence
    /\ sequence' = [sequence EXCEPT ![p] = @ + 1]
    /\ wire' = wire \cup
               {[from |-> p, seq |-> sequence[p] + 1, kind |-> kind,
                 src |-> address[p], life |-> life[p]]}
    /\ UNCHANGED <<life, address, local>>

(* A teammate starts again: its sequence begins at 0. *)
PeerRestarts(p) ==
    /\ life[p] < MaxLives
    /\ life' = [life EXCEPT ![p] = @ + 1]
    /\ sequence' = [sequence EXCEPT ![p] = 0]
    /\ UNCHANGED <<address, wire, local>>

(* A teammate, or its NAT, gets another endpoint. *)
Move(p, a) ==
    /\ a # address[p]
    /\ address' = [address EXCEPT ![p] = a]
    /\ UNCHANGED <<sequence, life, wire, local>>

--------------------------------------------------------------------------------
(* The node. *)

PeersSet == \A p \in Peer : peers[p] # None

(* set_peers, once the endpoint of every teammate is known from discovery  *)
(* or from the configuration: any endpoint, whatever was heard so far.     *)
SetPeers(m) ==
    /\ ~PeersSet
    /\ peers' = m
    /\ early' = seen
    /\ UNCHANGED <<remote, seen, ignored, queue, backlog, looking, arrived, taken>>

(* decode: a sequence number seen before is a duplicate. *)
Fresh(d) == d.seq \notin seen[d.from]

(* _learn_peer_endpoint: nothing is learned of a teammate without endpoint. *)
Learned(d) == IF peers[d.from] # None THEN [peers EXCEPT ![d.from] = d.src] ELSE peers

(* Mistake: only the last sequence number is remembered. *)
OnDatagramAfterLast(d) ==
    /\ seen' = [seen EXCEPT ![d.from] = {d.seq}]
    /\ arrived' = arrived \cup {d}
    /\ peers' = IF Fresh(d) THEN Learned(d) ELSE peers
    /\ queue' = IF Fresh(d) /\ d.kind \notin ignored THEN Append(queue, d) ELSE queue
    /\ UNCHANGED <<remote, ignored, backlog, looking, early, taken>>

(* Mistake: ignored messages are dropped before anything is learned. *)
OnDatagramIgnoringFirst(d) ==
    LET heard == Fresh(d) /\ d.kind \notin ignored IN
    /\ seen' = [seen EXCEPT ![d.from] = @ \cup {d.seq}]
    /\ arrived' = arrived \cup {d}
    /\ peers' = IF heard THEN Learned(d) ELSE peers
    /\ queue' = IF heard THEN Append(queue, d) ELSE queue
    /\ UNCHANGED <<remote, ignored, backlog, looking, early, taken>>

(* _on_datagram: once the endpoints are set, any datagram but a duplicate  *)
(* tells the endpoint of its sender, also when its id is ignored.          *)
OnDatagram(d) ==
    /\ seen' = [seen EXCEPT ![d.from] = @ \cup {d.seq}]
    /\ arrived' = arrived \cup {d}
    /\ peers' = IF Fresh(d) THEN Learned(d) ELSE peers
    /\ queue' = IF Fresh(d) /\ d.kind \notin ignored THEN Append(queue, d) ELSE queue
    /\ UNCHANGED <<remote, ignored, backlog, looking, early, taken>>

IgnoreMessageId(kind) ==
    /\ PeersSet
    /\ ignored' = ignored \cup {kind}
    /\ UNCHANGED <<remote, seen, peers, queue, backlog, looking, arrived, early, taken>>

(* receive: the backlog first. *)
Receive ==
    /\ PeersSet
    /\ looking = None
    /\ \/ /\ backlog # <<>>
          /\ taken' = Append(taken, Head(backlog))
          /\ backlog' = Tail(backlog)
          /\ UNCHANGED queue
       \/ /\ backlog = <<>> /\ queue # <<>>
          /\ taken' = Append(taken, Head(queue))
          /\ queue' = Tail(queue)
          /\ UNCHANGED backlog
    /\ UNCHANGED <<remote, seen, peers, ignored, looking, arrived, early>>

(* Where kind is in the backlog. *)
Found(kind) == {i \in DOMAIN backlog : backlog[i].kind = kind}

(* Mistake: the backlog is not looked at. *)
WaitForNext(kind) ==
    /\ PeersSet
    /\ looking = None
    /\ looking' = kind
    /\ UNCHANGED <<remote, seen, peers, ignored, queue, backlog, arrived, early, taken>>

(* wait_for: the first match in the backlog, or else the queue is awaited. *)
WaitFor(kind) ==
    /\ PeersSet
    /\ looking = None
    /\ \/ /\ Found(kind) # {}
          /\ taken' = Append(taken, backlog[Min(Found(kind))])
          /\ backlog' = RemoveAt(backlog, Min(Found(kind)))
          /\ UNCHANGED looking
       \/ /\ Found(kind) = {}
          /\ looking' = kind
          /\ UNCHANGED <<backlog, taken>>
    /\ UNCHANGED <<remote, seen, peers, ignored, queue, arrived, early>>

(* Mistake: what is not looked for is dropped. *)
LookFurtherDropping ==
    /\ looking # None
    /\ queue # <<>>
    /\ queue' = Tail(queue)
    /\ IF Head(queue).kind = looking
       THEN taken' = Append(taken, Head(queue)) /\ looking' = None
       ELSE UNCHANGED <<taken, looking>>
    /\ UNCHANGED <<remote, seen, peers, ignored, backlog, arrived, early>>

(* The awaited queue gives wait_for a message. *)
LookFurther ==
    /\ looking # None
    /\ queue # <<>>
    /\ queue' = Tail(queue)
    /\ \/ /\ Head(queue).kind = looking
          /\ taken' = Append(taken, Head(queue))
          /\ looking' = None
          /\ UNCHANGED backlog
       \/ /\ Head(queue).kind # looking
          /\ backlog' = Append(backlog, Head(queue))
          /\ UNCHANGED <<taken, looking>>
    /\ UNCHANGED <<remote, seen, peers, ignored, arrived, early>>

(* The timeout of wait_for. *)
StopLooking ==
    /\ looking # None
    /\ looking' = None
    /\ UNCHANGED <<remote, seen, peers, ignored, queue, backlog, arrived, early, taken>>

(* The process of the node is started again. *)
Restart ==
    /\ seen' = [p \in Peer |-> {}]
    /\ peers' = [p \in Peer |-> None]
    /\ ignored' = {}
    /\ queue' = <<>>
    /\ backlog' = <<>>
    /\ looking' = None
    /\ arrived' = {}
    /\ early' = [p \in Peer |-> {}]
    /\ taken' = <<>>
    /\ UNCHANGED remote

--------------------------------------------------------------------------------

Next ==
    \/ \E p \in Peer :
          \/ \E kind \in Kind : Send(p, kind)
          \/ PeerRestarts(p)
          \/ \E a \in Address : Move(p, a)
    \/ \E d \in wire : OnDatagram(d)
    \/ \E m \in [Peer -> Address] : SetPeers(m)
    \/ \E kind \in Ignorable : IgnoreMessageId(kind)
    \/ Receive
    \/ \E kind \in Kind : WaitFor(kind)
    \/ LookFurther
    \/ StopLooking
    \/ Restart

Spec == Init /\ [][Next]_vars

--------------------------------------------------------------------------------

Inbox == backlog \o queue

TypeOK ==
    /\ wire \subseteq Datagram
    /\ sequence \in [Peer -> 0..MaxSequence] /\ life \in [Peer -> 1..MaxLives]
    /\ address \in [Peer -> Address] /\ peers \in [Peer -> Address \cup {None}]
    /\ seen \in [Peer -> SUBSET (1..MaxSequence)]
    /\ early \in [Peer -> SUBSET (1..MaxSequence)]
    /\ ignored \subseteq Ignorable
    /\ queue \in Seq(arrived) /\ backlog \in Seq(arrived) /\ taken \in Seq(arrived)
    /\ arrived \subseteq wire
    /\ looking \in Kind \cup {None}

(* However often a datagram is repeated on the way, and however a message  *)
(* wanders between queue and backlog, no session gets it twice.            *)
NothingTwice ==
    LET all == taken \o Inbox IN
    \A i, j \in DOMAIN all :
        all[i].from = all[j].from /\ all[i].seq = all[j].seq => i = j

(* What arrived waits or was taken, unless its id is ignored or another    *)
(* process of its sender used its number: that is the only way the         *)
(* messages of a teammate that started again are lost.                     *)
NothingLost ==
    \A d \in arrived :
        \/ d \in ToSet(taken \o Inbox)
        \/ d.kind \in ignored
        \/ \E e \in arrived : e.life # d.life /\ e.from = d.from /\ e.seq = d.seq

(* As soon as a teammate was heard after the endpoints were set, answers   *)
(* go to an endpoint it sent from since then, whatever endpoint was set    *)
(* and whichever ids are ignored.  What it sent before that teaches        *)
(* nothing, not even when it arrives again.                                *)
AnswersGoToPeer ==
    \A p \in Peer :
        LET heard == {d \in arrived : d.from = p /\ d.seq \notin early[p]} IN
        PeersSet /\ heard # {} => \E d \in heard : d.src = peers[p]

(* Backlog and queue are one mailbox. *)
Box == INSTANCE Mailbox WITH inbox <- Inbox

ImplementsMailbox == Box!Spec
================================================================================
