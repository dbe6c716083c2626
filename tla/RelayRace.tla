------------------------------- MODULE RelayRace -------------------------------
(***************************************************************************)
(* The relay race of Lab 2: class _RelayRaceSession of                     *)
(* src/lab2_relay_race/race.py on the three members of a team, over the    *)
(* signed UDP of udp_runtime.py and the server queues of community.py.     *)
(*                                                                         *)
(* Member i has the i-th role (A, B, C) and submits round i.  A session is *)
(* one coroutine; what it waits in is its pc, named after the method.      *)
(* Next to it runs the task that submits the bundle.  The group is         *)
(* registered when the model begins.  Every loop of the code has the same  *)
(* form: send, then wait for a message or a timeout, and again; Sends is   *)
(* what one iteration sends, Retry the iteration after a timeout, Expire   *)
(* the end of the loop at its deadline.                                    *)
(*                                                                         *)
(* net holds the datagrams under way and those that arrived and wait in    *)
(* the queue or the backlog of a node: a message may be overtaken by any   *)
(* other, so the three places are one.  It is a set: a second copy of a    *)
(* message comes under way once the first has been taken.                  *)
(***************************************************************************)
EXTENDS Integers, FiniteSets

(***************************************************************************)
(* A setup is a team and what happens to it:                               *)
(*   rounds     how many rounds, and members; 3 in the code                *)
(*   deadlines  whether the deadlines, and the budget of the team, can     *)
(*              pass                                                       *)
(* and the bounds of the model:                                            *)
(*   early      loops that may time out although the answer is on its way  *)
(*   lost       which datagrams can get lost, see CanBeLost                *)
(*   losses     how many of them do                                        *)
(***************************************************************************)
CONSTANT Setups

(* The loops, named after their methods. *)
Loops == {"send_group_ready", "request_challenge", "fallback", "lead_round",
          "wait_for_baton", "send_baton", "submit_bundle"}

ASSUME RaceAssumption ==
    /\ IsFiniteSet(Setups)
    /\ \A s \in Setups :
          /\ s.rounds \in Nat \ {0}
          /\ s.deadlines \in BOOLEAN
          /\ s.early \subseteq Loops
          /\ s.lost \in {"anything", "batons", "repeated"}
          /\ s.losses \in Nat

VARIABLES
    setup,    \* the team; does not change
    node,     \* the session of each member
    task,     \* the result task of each member
    server,   \* the rounds the server recorded, whether a challenge is live, and
              \* whether the budget is open
    net,      \* the messages under way
    losses    \* how many datagrams have been lost

vars == <<setup, node, task, server, net, losses>>

Rounds == setup.rounds
DeadlinesPass == setup.deadlines
EarlyLoops == setup.early
MaxLosses == setup.losses

Member == 1..Rounds
Server == 0

Message(kind, from, to, round) == [kind |-> kind, from |-> from, to |-> to, round |-> round]
GroupReady(to) == Message("GroupReady", 1, to, 0)
AckReady(from) == Message("AckReady", from, 1, 0)
Nonce(r, to) == Message("Nonce", r, to, r)
Signature(from, r) == Message("Signature", from, r, r)
Baton(r) == Message("Baton", r - 1, r, r)
AckBaton(r) == Message("AckBaton", r, r - 1, r)
Request(n) == Message("Request", n, Server, 0)
Challenge(to, r) == Message("Challenge", Server, to, r)
Bundle(r) == Message("Bundle", r, Server, r)
(* A RoundResult; completed is rounds_completed. *)
Result(to, r, verdict, completed) ==
    [kind |-> "Result", from |-> Server, to |-> to, round |-> r,
     verdict |-> verdict, completed |-> completed]

--------------------------------------------------------------------------------
(* A session s: where it waits, in which round, whose answer is missing,   *)
(* and for which rounds it signed (signed_rounds).                         *)

At(s, pc, round, missing) ==
    [s EXCEPT !.pc = pc, !.round = round, !.missing = missing]

(* What an iteration of the loop that s is in sends. *)
Sends(n, s) ==
    CASE s.pc = "send_group_ready" -> {GroupReady(p) : p \in s.missing}
      [] s.pc \in {"fallback", "request_challenge"} -> {Request(n)}
      [] s.pc = "lead_round" -> {Nonce(n, p) : p \in s.missing}
      [] s.pc = "send_baton" -> {Baton(n + 1)}
      [] OTHER -> {}

(* run: the session s of n begins round r, or awaits its result after the  *)
(* last one.                                                               *)
Enter(n, s, r) ==
    CASE r > Rounds -> At(s, "await_result", r, {})
      [] r = n /\ r > 1 -> At(s, "wait_for_baton", r, {})
      [] r = n /\ r = 1 -> At(s, "request_challenge", r, {})
      [] OTHER -> At(s, "follow_round", r, {})

Init ==
    /\ setup \in Setups
    /\ node = [n \in Member |->
                 [pc |-> IF n = 1 THEN "send_group_ready" ELSE "wait_for_group_ready",
                  round |-> 0, missing |-> IF n = 1 THEN Member \ {1} ELSE {},
                  signed |-> {}]]
    /\ task = [n \in Member |-> "none"]
    /\ server = [completed |-> 0, live |-> FALSE, open |-> TRUE]
    /\ net = {GroupReady(p) : p \in Member \ {1}}
    /\ losses = 0

(* n takes m from the net, goes on as s and sends S. *)
Handle(n, m, s, S) ==
    /\ node' = [node EXCEPT ![n] = s]
    /\ net' = (net \ {m}) \cup S
    /\ UNCHANGED <<server, losses>>

--------------------------------------------------------------------------------
(* The start: GroupReady. *)

SendGroupReady(n, m) ==
    LET missing == node[n].missing \ {m.from}
        s == IF missing = {} THEN Enter(n, node[n], 1)
             ELSE At(node[n], "send_group_ready", 0, missing)
    IN
    /\ node[n].pc = "send_group_ready"
    /\ m.kind = "AckReady"
    /\ m.from \in node[n].missing
    /\ Handle(n, m, s, Sends(n, s))
    /\ UNCHANGED task

WaitForGroupReady(n, m) ==
    /\ node[n].pc = "wait_for_group_ready"
    /\ m.kind = "GroupReady"
    /\ Handle(n, m, Enter(n, node[n], 1), {AckReady(n)})
    /\ UNCHANGED task

--------------------------------------------------------------------------------
(* The rounds. *)

ExpectedBaton(n, m) == m.kind = "Baton" /\ m.round = n

(* Mistake: a GroupReady that comes again is not acknowledged.             *)
CommonRepliesOnce(n, m) == IF ExpectedBaton(n, m) THEN {AckBaton(n)} ELSE {}

(* _handle_common_message *)
CommonReplies(n, m) ==
    IF m.kind = "GroupReady" THEN {AckReady(n)}
    ELSE IF ExpectedBaton(n, m) THEN {AckBaton(n)}
    ELSE {}

(* _reply_to_nonce_broadcast, and the common messages. *)
Replies(n, m) ==
    IF m.kind = "Nonce" THEN {Signature(n, m.round)} ELSE CommonReplies(n, m)
Signing(s, m) ==
    IF m.kind = "Nonce" THEN [s EXCEPT !.signed = @ \cup {m.round}] ELSE s

(* _follow_round: only the nonce of this very round is answered, and ends  *)
(* the round for n.                                                        *)
FollowRound(n, m) ==
    LET r == node[n].round
        s == Enter(n, Signing(node[n], m), r + 1)
    IN
    /\ node[n].pc = "follow_round"
    /\ m.from # Server
    /\ IF m = Nonce(r, n) THEN Handle(n, m, s, {Signature(n, r)} \cup Sends(n, s))
       ELSE Handle(n, m, node[n], CommonReplies(n, m))
    /\ UNCHANGED task

(* _wait_for_baton_or_fallback and the half of the fallback that listens   *)
(* to the team.                                                            *)
WaitForBaton(n, m) ==
    LET s == At(node[n], "request_challenge", n, {}) IN
    /\ node[n].pc \in {"wait_for_baton", "fallback"}
    /\ m.from # Server
    /\ IF ExpectedBaton(n, m) THEN Handle(n, m, s, {AckBaton(n)} \cup Sends(n, s))
       ELSE Handle(n, m, Signing(node[n], m), Replies(n, m))
    /\ UNCHANGED task

(* Mistake: whatever challenge comes is taken for that of the own round.   *)
GetChallengeOfAnyRound(n, m) ==
    LET s == At(node[n], "lead_round", n, Member \ {n}) IN
    /\ node[n].pc \in {"fallback", "request_challenge"}
    /\ m.kind = "Challenge"
    /\ Handle(n, m, s, Sends(n, s))
    /\ UNCHANGED task

(* _request_challenge_until and the half of the fallback that listens to   *)
(* the server.  The challenge the fallback finds is kept in                *)
(* prefetched_challenges until _lead_round takes it, at once.              *)
GetChallenge(n, m) ==
    LET s == At(node[n], "lead_round", n, Member \ {n}) IN
    /\ node[n].pc \in {"fallback", "request_challenge"}
    /\ m.kind = "Challenge"
    /\ IF m.round = n THEN Handle(n, m, s, Sends(n, s))
       ELSE Handle(n, m, node[n],
                   IF node[n].pc = "fallback" THEN {} ELSE Sends(n, node[n]))
    /\ UNCHANGED task

(* Mistake: one signature ends the loop.                                   *)
LeadRoundWithOneSignature(n, m) ==
    LET s == At(node[n], IF n < Rounds THEN "send_baton" ELSE "await_result",
                IF n < Rounds THEN n ELSE n + 1, {})
    IN
    /\ node[n].pc = "lead_round"
    /\ m.kind = "Signature"
    /\ Handle(n, m, s, Sends(n, s) \cup {Bundle(n)})
    /\ task' = [task EXCEPT ![n] = "running"]

(* _lead_round: each message, whatever it is, begins another iteration,    *)
(* until no signature is missing.  Then the result task starts, and all    *)
(* but the last leader pass the baton.                                     *)
LeadRound(n, m) ==
    LET missing == node[n].missing \
                     (IF m.kind = "Signature" /\ m.round = n THEN {m.from} ELSE {})
        s == IF missing # {} THEN At(Signing(node[n], m), "lead_round", n, missing)
             ELSE IF n < Rounds THEN At(node[n], "send_baton", n, {})
             ELSE At(node[n], "await_result", n + 1, {})
    IN
    /\ node[n].pc = "lead_round"
    /\ m.from # Server
    /\ Handle(n, m, s, Sends(n, s) \cup
              IF missing # {} THEN Replies(n, m) ELSE {Bundle(n)})
    /\ task' = IF missing # {} THEN task ELSE [task EXCEPT ![n] = "running"]

SendBaton(n, m) ==
    LET s == Enter(n, node[n], n + 1) IN
    /\ node[n].pc = "send_baton"
    /\ m = AckBaton(n + 1)
    /\ Handle(n, m, s, Sends(n, s))
    /\ UNCHANGED task

(* run returns once the result task has ended. *)
AwaitResult(n) ==
    /\ node[n].pc = "await_result"
    /\ task[n] # "running"
    /\ node' = [node EXCEPT ![n] = At(@, "done", Rounds + 1, {})]
    /\ UNCHANGED <<task, server, net, losses>>

--------------------------------------------------------------------------------
(* A timeout in a loop, whether or not what it waits for may still come. *)
Timeout(loop, mayCome) == mayCome => loop \in EarlyLoops

(* _submit_bundle_until_result.  It runs as long as its process does. *)

TaskRuns(n) == task[n] = "running" /\ node[n].pc \notin {"done", "failed"}

(* Mistake: any bundle without a live challenge is a duplicate.            *)
LooksLikeAnyDuplicate(m, r) == m.verdict = "no_active_challenge"

(* Mistake: a round counts once the next one is recorded.                  *)
LooksLikeOldDuplicate(m, r) == m.verdict = "no_active_challenge" /\ m.completed > r

(* _looks_like_duplicate_success *)
LooksLikeDuplicateSuccess(m, r) ==
    m.verdict = "no_active_challenge" /\ m.completed >= r

TakeResult(n, m) ==
    /\ TaskRuns(n)
    /\ m.kind = "Result"
    /\ task' = IF m.round # n THEN task
               ELSE [task EXCEPT ![n] =
                       IF m.verdict = "recorded" \/ LooksLikeDuplicateSuccess(m, n)
                       THEN "success" ELSE "failure"]
    /\ net' = (net \ {m}) \cup (IF m.round # n THEN {Bundle(n)} ELSE {})
    /\ UNCHANGED <<node, server, losses>>

SubmitAgain(n) ==
    /\ TaskRuns(n)
    /\ Timeout("submit_bundle", \E m \in net : m.kind = "Result" /\ m.to = n)
    /\ net' = net \cup {Bundle(n)}
    /\ UNCHANGED <<node, task, server, losses>>

GiveUpResult(n) ==
    /\ DeadlinesPass
    /\ TaskRuns(n)
    /\ task' = [task EXCEPT ![n] = "no_result"]
    /\ UNCHANGED <<node, server, net, losses>>

--------------------------------------------------------------------------------
(* Time. *)

(* What the session of n, at s, takes from the net. *)
Awaits(n, s) ==
    {m \in net :
        /\ m.to = n
        /\ CASE s.pc = "send_group_ready" -> m.kind = "AckReady" /\ m.from \in s.missing
             [] s.pc = "send_baton" -> m = AckBaton(n + 1)
             [] s.pc = "request_challenge" -> m.kind = "Challenge"
             [] s.pc = "fallback" -> m.from # Server \/ m.kind = "Challenge"
             [] OTHER -> m.from # Server}

Retry(n) ==
    /\ Sends(n, node[n]) # {}
    /\ Timeout(node[n].pc, Awaits(n, node[n]) # {})
    /\ net' = net \cup Sends(n, node[n])
    /\ UNCHANGED <<node, task, server, losses>>

(* baton_timeout passes: the fallback begins, or the baton is given up. *)
BatonMayCome(n) ==
    \/ Baton(n) \in net
    \/ node[n - 1].pc # "failed" /\ node[n - 1].round < n

BatonTimeout(n) ==
    LET s == At(node[n], "fallback", n, {}) IN
    /\ node[n].pc = "wait_for_baton"
    /\ Timeout("wait_for_baton", BatonMayCome(n))
    /\ node' = [node EXCEPT ![n] = s]
    /\ net' = net \cup Sends(n, s)
    /\ UNCHANGED <<task, server, losses>>

GiveUpBaton(n) ==
    LET s == Enter(n, node[n], n + 1) IN
    /\ node[n].pc = "send_baton"
    /\ Timeout("send_baton", AckBaton(n + 1) \in net)
    /\ node' = [node EXCEPT ![n] = s]
    /\ net' = net \cup Sends(n, s)
    /\ UNCHANGED <<task, server, losses>>

(* A deadline that ends the session with a TimeoutError.  _lead_round has  *)
(* none.                                                                   *)
Expire(n) ==
    /\ DeadlinesPass
    /\ node[n].pc \in {"send_group_ready", "wait_for_group_ready",
                       "follow_round", "fallback", "request_challenge"}
    /\ node' = [node EXCEPT ![n].pc = "failed", ![n].missing = {}]
    /\ UNCHANGED <<task, server, net, losses>>

--------------------------------------------------------------------------------
(* The server, as docs/Lab2.md has it, and UDP. *)

(* Re-requesting in a live round returns the same challenge.  A result     *)
(* that answers a request names no round.                                  *)
OnRequest(m) ==
    IF server.open /\ server.completed < Rounds
    THEN /\ server' = [server EXCEPT !.live = TRUE]
         /\ net' = (net \ {m}) \cup {Challenge(m.from, server.completed + 1)}
    ELSE /\ net' = (net \ {m}) \cup {Result(m.from, 0, "rejected", server.completed)}
         /\ UNCHANGED server

(* "Rejected" stands for a wrong round number and an exceeded budget.      *)
OnBundle(m) ==
    LET accepted == server.live /\ m.round = server.completed + 1
        verdicts == IF accepted THEN {"recorded"}
                    ELSE IF server.live THEN {"rejected"}
                    ELSE IF server.open THEN {"no_active_challenge"}
                    ELSE {"no_active_challenge", "rejected"}
        s == IF accepted THEN [server EXCEPT !.completed = m.round, !.live = FALSE]
             ELSE server
    IN
    /\ server' = s
    /\ \E v \in verdicts :
          net' = (net \ {m}) \cup {Result(m.from, m.round, v, s.completed)}

(* The 10 seconds since the first challenge are over.  They are counted    *)
(* until the last bundle is accepted.                                      *)
BudgetCloses ==
    /\ DeadlinesPass
    /\ server.open
    /\ server.live \/ server.completed > 0
    /\ server.completed < Rounds
    /\ server' = [server EXCEPT !.live = FALSE, !.open = FALSE]
    /\ UNCHANGED <<node, task, net, losses>>

ServerHandles(m) ==
    /\ m.to = Server
    /\ \/ m.kind = "Request" /\ OnRequest(m)
       \/ m.kind = "Bundle" /\ OnBundle(m)
    /\ UNCHANGED <<node, task, losses>>

(* "repeated": all but the signature replies of members that have left for *)
(* the next _follow_round and do not look back: only the next leader, who  *)
(* waits for the baton, answers a nonce a second time.                     *)
CanBeLost(m) ==
    \/ setup.lost = "anything"
    \/ setup.lost = "batons" /\ m.kind = "Baton"
    \/ setup.lost = "repeated" /\ (m.kind = "Signature" => m.from = m.round + 1)

Lose(m) ==
    /\ losses < MaxLosses
    /\ CanBeLost(m)
    /\ losses' = losses + 1
    /\ net' = net \ {m}
    /\ UNCHANGED <<node, task, server>>

--------------------------------------------------------------------------------

(* A member takes a message: session or result task. *)
Receive(n, m) ==
    /\ m.to = n
    /\ \/ SendGroupReady(n, m)
       \/ WaitForGroupReady(n, m)
       \/ FollowRound(n, m)
       \/ WaitForBaton(n, m)
       \/ GetChallenge(n, m)
       \/ LeadRound(n, m)
       \/ SendBaton(n, m)
       \/ TakeResult(n, m)

Step ==
    \/ \E m \in net : ServerHandles(m) \/ Lose(m)
    \/ BudgetCloses
    \/ \E n \in Member :
          \/ \E m \in net : Receive(n, m)
          \/ AwaitResult(n)
          \/ SubmitAgain(n)
          \/ GiveUpResult(n)
          \/ Retry(n)
          \/ BatonTimeout(n)
          \/ GiveUpBaton(n)
          \/ Expire(n)

Next == Step /\ UNCHANGED setup

Spec == Init /\ [][Next]_vars

(* Every loop goes round again, the server answers, and no message that is *)
(* not lost stays unread for ever by a session that reads.                 *)
Kinds == {"GroupReady", "AckReady", "Nonce", "Signature", "Baton", "AckBaton",
          "Request", "Challenge", "Bundle", "Result"}

(* The step A of member n, where the team has one. *)
Of(n, A) == n \in Member /\ A /\ UNCHANGED setup

Fairness ==
    /\ \A k \in Kinds :
          WF_vars((\E m \in net : m.kind = k /\ ServerHandles(m)) /\ UNCHANGED setup)
    /\ \A n \in UNION {1..s.rounds : s \in Setups} :
          /\ WF_vars(Of(n, AwaitResult(n)))
          /\ WF_vars(Of(n, SubmitAgain(n)))
          /\ WF_vars(Of(n, Retry(n)))
          /\ WF_vars(Of(n, BatonTimeout(n)))
          /\ WF_vars(Of(n, GiveUpBaton(n)))
          /\ \A k \in Kinds : WF_vars(Of(n, \E m \in net : m.kind = k /\ Receive(n, m)))

FairSpec == Spec /\ Fairness

--------------------------------------------------------------------------------

TypeOK ==
    /\ \A n \in Member :
          /\ node[n].round \in 0..Rounds + 1
          /\ node[n].missing \subseteq Member \ {n}
          /\ node[n].signed \subseteq Member \ {n}
          /\ task[n] \in {"none", "running", "success", "failure", "no_result"}
    /\ server \in [completed : 0..Rounds, live : BOOLEAN, open : BOOLEAN]
    /\ losses \in 0..MaxLosses

(* Turns are taken in order: however late the batons and however often the *)
(* fallback polls, nobody collects signatures for a round before the       *)
(* server has recorded the round before it.                                *)
TurnsInOrder ==
    \A n \in Member : node[n].pc = "lead_round" => server.completed >= n - 1

(* A round is only recorded with the signatures of all: each teammate has  *)
(* seen its nonce and signed it.                                           *)
RecordedMeansSigned ==
    \A r \in 1..server.completed : \A n \in Member \ {r} : r \in node[n].signed

(* Who reports a success is right, also where the success is inferred from *)
(* the rejection of a duplicate.                                           *)
SuccessIsRecorded ==
    \A n \in Member : task[n] = "success" => server.completed >= n

(* The last leader never reports a failure of the race the team won: the   *)
(* rejection of its duplicate bundle is recognised.  (The leader of an     *)
(* earlier round may, when the next challenge is live by then.)            *)
LastFailureIsReal == task[Rounds] = "failure" => server.completed < Rounds

(* The race seen from the records of the server, the signatures of the     *)
(* members and the ends of the result tasks.                               *)
Race == INSTANCE Relay WITH
    rounds <- Rounds,
    completed <- server.completed,
    signers <- [r \in Member |-> {p \in Member : r \in node[p].signed}],
    claimed <- {r \in Member : task[r] = "success"}

(* The race is a relay, however messages are lost, repeated or late: no    *)
(* round is recorded before its turn or without a signature, no teammate   *)
(* signs ahead, and no leader claims what is not recorded (race.py:432).   *)
RaceIsRelay == Race!Spec

(* With every message that may get lost sent again, the team finishes the  *)
(* race.                                                                   *)
RaceFinishes ==
    <>(server.completed = Rounds /\ \A n \in Member : node[n].pc = "done")
================================================================================
