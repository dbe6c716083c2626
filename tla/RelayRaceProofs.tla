---------------------------- MODULE RelayRaceProofs ----------------------------
(***************************************************************************)
(* The safety of the relay race, for a team of any size, any losses, and   *)
(* any timeouts and deadlines: turns in order, no round recorded without   *)
(* all signatures, no wrong report; and that the race implements the       *)
(* relay.                                                                  *)
(***************************************************************************)
EXTENDS RelayRace, TLAPS

Pc == {"send_group_ready", "wait_for_group_ready", "follow_round", "wait_for_baton",
       "fallback", "request_challenge", "lead_round", "send_baton", "await_result",
       "done", "failed"}

Session == [pc : Pc, round : 0..Rounds + 1, missing : SUBSET Member, signed : SUBSET Member]

(* A session s of member n. *)
SessionOK(n, s) ==
    /\ s \in Session
    /\ n \notin s.missing /\ n \notin s.signed
    /\ s.pc = "follow_round" => s.round \in 1..Rounds

(* The challenge of round r has been given out: the round is recorded, or  *)
(* its challenge is live unless the budget is over.                        *)
Issued(r) ==
    \/ server.completed >= r
    \/ server.completed = r - 1 /\ (server.live \/ ~server.open)

AllSigned(r) == \A p \in Member \ {r} : r \in node[p].signed

RaceTypes ==
    /\ node \in [Member -> Session]
    /\ \A n \in Member : SessionOK(n, node[n])
    /\ task \in [Member -> {"none", "running", "success", "failure", "no_result"}]
    /\ server \in [completed : 0..Rounds, live : BOOLEAN, open : BOOLEAN]
    /\ losses \in 0..MaxLosses

(* The budget is counted until the last round is recorded.                 *)
ServerOK ==
    /\ ~server.open => ~server.live /\ server.completed < Rounds
    /\ server.completed = Rounds => ~server.live

(* A leader has a challenge, and signatures of all that are not missing.   *)
LeadersOK == \A n \in Member : node[n].pc = "lead_round" =>
    /\ Issued(n)
    /\ \A p \in Member \ {n} : p \in node[n].missing \/ n \in node[p].signed

(* A bundle is complete; its result is what the server made of it.         *)
TasksOK == \A n \in Member :
    /\ task[n] # "none" => AllSigned(n) /\ Issued(n)
    /\ task[n] = "success" => server.completed >= n
    /\ task[n] = "failure" /\ n = Rounds => ~server.open

(* A result that the last leader would report as a failure. *)
LooksLost(m) == m.verdict # "recorded" /\ ~LooksLikeDuplicateSuccess(m, Rounds)

NetOK == \A m \in net :
    /\ m.kind = "Nonce" =>
          m.round \in Member /\ m.from = m.round /\ m.to # m.round /\ Issued(m.round)
    /\ m.kind = "Signature" =>
          /\ m.round \in Member /\ m.from \in Member /\ m.from # m.round
          /\ m.round \in node[m.from].signed
    /\ m.kind = "Challenge" => m.round \in Member /\ Issued(m.round)
    /\ m.kind = "Bundle" =>
          /\ m.round \in Member /\ m.from = m.round
          /\ AllSigned(m.round) /\ Issued(m.round)
    /\ m.kind = "Result" =>
          /\ m.completed \in 0..server.completed
          /\ m.verdict = "recorded" => m.round \in 1..server.completed
          /\ m.round = Rounds /\ LooksLost(m) => ~server.open

RaceInv ==
    /\ setup \in Setups
    /\ RaceTypes /\ ServerOK /\ LeadersOK /\ TasksOK /\ NetOK
    /\ RecordedMeansSigned

LEMMA RoundsType == setup \in Setups =>
    Rounds \in Nat \ {0} /\ Member = 1..Rounds /\ MaxLosses \in Nat
  BY RaceAssumption DEF Rounds, Member, MaxLosses

LEMMA TeamStays == setup' = setup =>
    Rounds' = Rounds /\ Member' = Member /\ MaxLosses' = MaxLosses
  BY DEF Rounds, Member, MaxLosses

--------------------------------------------------------------------------------
(* What an iteration of a loop sends says nothing about signatures.        *)
Plain(m) == m.kind \in {"GroupReady", "AckReady", "Baton", "AckBaton", "Request"}

(* What n may send as the session s. *)
Sendable(n, s, m) ==
    \/ Plain(m)
    \/ m.kind = "Nonce" /\ m.round = n /\ m.from = n /\ m.to # n /\ Issued(n)
    \/ m.kind = "Signature" /\ m.from = n /\ m.round \in s.signed
    \/ m = Bundle(n) /\ AllSigned(n) /\ Issued(n)

LEMMA SendsAreSendable ==
    ASSUME NEW n \in Member, NEW s, SessionOK(n, s), s.pc = "lead_round" => Issued(n)
    PROVE  \A m \in Sends(n, s) : Sendable(n, s, m)
  <1>1. CASE s.pc = "send_group_ready"
    BY <1>1 DEF Sends, Sendable, Plain, GroupReady, Message
  <1>2. CASE s.pc \in {"fallback", "request_challenge"}
    BY <1>2 DEF Sends, Sendable, Plain, Request, Message
  <1>3. CASE s.pc = "lead_round"
    BY <1>3 DEF Sends, Sendable, Plain, Nonce, Message, SessionOK
  <1>4. CASE s.pc = "send_baton"
    BY <1>4 DEF Sends, Sendable, Plain, Baton, Message
  <1>5. CASE s.pc \notin {"send_group_ready", "fallback", "request_challenge", "lead_round",
                          "send_baton"}
    BY <1>5 DEF Sends
  <1> QED BY <1>1, <1>2, <1>3, <1>4, <1>5

(* A session that moves on forgets no signature and sends what it may.     *)
LEMMA SessionMoves ==
    ASSUME RaceInv, NEW n \in Member, NEW s, NEW S,
           UNCHANGED <<setup, server>>, losses' \in 0..MaxLosses,
           node' = [node EXCEPT ![n] = s],
           SessionOK(n, s), node[n].signed \subseteq s.signed,
           s.pc = "lead_round" =>
              Issued(n) /\ \A p \in Member \ {n} : p \in s.missing \/ n \in node[p].signed,
           \A m \in S : Sendable(n, s, m),
           net' \subseteq net \cup S,
           \/ task' = task
           \/ task' = [task EXCEPT ![n] = "running"] /\ AllSigned(n) /\ Issued(n)
    PROVE  RaceInv'
  <1>1. /\ Rounds \in Nat \ {0} /\ Member = 1..Rounds /\ Rounds' = Rounds /\ Member' = Member
        /\ MaxLosses' = MaxLosses
    BY RoundsType, TeamStays DEF RaceInv
  <1>2. /\ node \in [Member -> Session] /\ \A p \in Member : SessionOK(p, node[p])
        /\ task \in [Member -> {"none", "running", "success", "failure", "no_result"}]
        /\ server \in [completed : 0..Rounds, live : BOOLEAN, open : BOOLEAN]
    BY DEF RaceInv, RaceTypes
  <1>3. node'[n] = s /\ \A p \in Member : p # n => node'[p] = node[p]
    BY <1>2
  <1>4. \A p \in Member : node[p].signed \subseteq node'[p].signed
    BY <1>3
  <1>5. \A r : AllSigned(r) => AllSigned(r)'
    BY <1>1, <1>4 DEF AllSigned
  <1>6. \A r : Issued(r)' <=> Issued(r)
    BY DEF Issued
  <1>7. Session' = Session
    BY <1>1 DEF Session
  <1>8. RaceTypes'
    <2>1. s \in Session
      BY DEF SessionOK
    <2>2. node' \in [Member -> Session]
      BY <1>2, <2>1
    <2>3. \A p \in Member : SessionOK(p, node'[p])
      BY <1>2, <1>3
    <2>4. \A p \in Member : SessionOK(p, node[p])'
      BY <1>1, <1>7, <2>3 DEF SessionOK
    <2>5. task' \in [Member -> {"none", "running", "success", "failure", "no_result"}]
      BY <1>2
    <2> QED BY <1>1, <1>2, <1>7, <2>2, <2>4, <2>5 DEF RaceTypes
  <1>9. ServerOK'
    BY <1>1 DEF RaceInv, ServerOK
  <1>10. LeadersOK'
    <2> SUFFICES ASSUME NEW q \in Member, node'[q].pc = "lead_round"
                 PROVE  /\ Issued(q)
                        /\ \A p \in Member \ {q} : p \in node'[q].missing \/ q \in node'[p].signed
      BY <1>1, <1>6 DEF LeadersOK
    <2>1. CASE q = n
      BY <1>3, <1>4, <2>1
    <2>2. CASE q # n
      BY <1>3, <1>4, <2>2 DEF RaceInv, LeadersOK
    <2> QED BY <2>1, <2>2
  <1>11. TasksOK'
    <2> SUFFICES ASSUME NEW q \in Member
                 PROVE  /\ task'[q] # "none" => AllSigned(q)' /\ Issued(q)
                        /\ task'[q] = "success" => server.completed >= q
                        /\ task'[q] = "failure" /\ q = Rounds => ~server.open
      BY <1>1, <1>6 DEF TasksOK
    <2>1. task'[q] = task[q] \/ (q = n /\ task'[q] = "running" /\ AllSigned(q) /\ Issued(q))
      BY <1>2
    <2> QED BY <1>5, <2>1 DEF RaceInv, TasksOK
  <1>12. NetOK'
    <2> SUFFICES ASSUME NEW m \in net'
                 PROVE
                   /\ m.kind = "Nonce" =>
                         m.round \in Member /\ m.from = m.round /\ m.to # m.round /\ Issued(m.round)
                   /\ m.kind = "Signature" =>
                         /\ m.round \in Member /\ m.from \in Member /\ m.from # m.round
                         /\ m.round \in node'[m.from].signed
                   /\ m.kind = "Challenge" => m.round \in Member /\ Issued(m.round)
                   /\ m.kind = "Bundle" =>
                         /\ m.round \in Member /\ m.from = m.round
                         /\ AllSigned(m.round)' /\ Issued(m.round)
                   /\ m.kind = "Result" =>
                         /\ m.completed \in 0..server.completed
                         /\ m.verdict = "recorded" => m.round \in 1..server.completed
                         /\ m.round = Rounds /\ LooksLost(m) => ~server.open
      BY <1>1, <1>6 DEF NetOK, LooksLost, LooksLikeDuplicateSuccess
    <2>1. CASE m \in net
      BY <1>4, <1>5, <2>1 DEF RaceInv, NetOK
    <2>2. CASE m \in S
      <3>1. CASE Plain(m)
        BY <3>1 DEF Plain
      <3>2. CASE m.kind = "Nonce" /\ m.round = n /\ m.from = n /\ m.to # n /\ Issued(n)
        BY <3>2
      <3>3. CASE m.kind = "Signature" /\ m.from = n /\ m.round \in s.signed
        BY <1>3, <3>3 DEF SessionOK, Session
      <3>4. CASE m = Bundle(n) /\ AllSigned(n) /\ Issued(n)
        BY <1>5, <3>4 DEF Bundle, Message
      <3> QED BY <2>2, <3>1, <3>2, <3>3, <3>4 DEF Sendable
    <2> QED BY <2>1, <2>2
  <1>13. RecordedMeansSigned'
    BY <1>1, <1>4 DEF RaceInv, RecordedMeansSigned
  <1> QED BY <1>8, <1>9, <1>10, <1>11, <1>12, <1>13 DEF RaceInv

--------------------------------------------------------------------------------
LEMMA RaceStarts == Init => RaceInv
  <1> SUFFICES ASSUME Init PROVE RaceInv
    OBVIOUS
  <1>1. setup \in Setups /\ Rounds \in Nat \ {0} /\ Member = 1..Rounds /\ MaxLosses \in Nat
    BY RoundsType DEF Init
  <1>2. ASSUME NEW n \in Member
        PROVE  /\ SessionOK(n, node[n]) /\ node[n].pc # "lead_round"
    BY <1>1 DEF Init, SessionOK, Session, Pc
  <1>3. node \in [Member -> Session]
    BY <1>1 DEF Init, Session, Pc
  <1>4. server \in [completed : 0..Rounds, live : BOOLEAN, open : BOOLEAN] /\ losses \in 0..MaxLosses
    BY <1>1 DEF Init
  <1>5. task = [n \in Member |-> "none"]
    BY DEF Init
  <1>6. RaceTypes
    BY <1>2, <1>3, <1>4, <1>5 DEF RaceTypes
  <1>7. ServerOK /\ LeadersOK /\ TasksOK
    BY <1>1, <1>2, <1>5 DEF Init, ServerOK, LeadersOK, TasksOK
  <1>8. NetOK
    BY DEF Init, NetOK, GroupReady, Message
  <1>9. RecordedMeansSigned
    BY <1>1 DEF Init, RecordedMeansSigned
  <1> QED BY <1>1, <1>6, <1>7, <1>8, <1>9 DEF RaceInv

(* What signs, signs with a round of a teammate. *)
LEMMA SigningIsOK ==
    ASSUME RaceInv, NEW n \in Member, NEW m \in net, m.to = n
    PROVE  /\ SessionOK(n, Signing(node[n], m))
           /\ node[n].signed \subseteq Signing(node[n], m).signed
           /\ Signing(node[n], m).pc = node[n].pc
           /\ Signing(node[n], m).missing = node[n].missing
           /\ m.kind = "Nonce" => m.round \in Signing(node[n], m).signed
  <1>1. SessionOK(n, node[n])
    BY DEF RaceInv, RaceTypes
  <1>2. CASE m.kind = "Nonce"
    <2>1. m.round \in Member /\ m.round # n
      BY <1>2 DEF RaceInv, NetOK
    <2> QED BY <1>1, <1>2, <2>1 DEF Signing, SessionOK, Session
  <1>3. CASE m.kind # "Nonce"
    BY <1>1, <1>3 DEF Signing
  <1> QED BY <1>2, <1>3

LEMMA AtIsOK ==
    ASSUME NEW n, NEW s, SessionOK(n, s), NEW pc \in Pc, NEW round \in 0..Rounds + 1,
           NEW missing \in SUBSET Member, n \notin missing,
           pc = "follow_round" => round \in 1..Rounds
    PROVE  /\ SessionOK(n, At(s, pc, round, missing))
           /\ At(s, pc, round, missing).pc = pc
           /\ At(s, pc, round, missing).missing = missing
           /\ At(s, pc, round, missing).signed = s.signed
  BY DEF At, SessionOK, Session

LEMMA EnterIsOK ==
    ASSUME setup \in Setups, NEW n \in Member, NEW s, SessionOK(n, s), NEW r \in 1..Rounds + 1
    PROVE  /\ SessionOK(n, Enter(n, s, r))
           /\ Enter(n, s, r).pc # "lead_round"
           /\ Enter(n, s, r).signed = s.signed
  <1>1. Rounds \in Nat \ {0} /\ Member = 1..Rounds
    BY RoundsType
  <1>2. CASE r > Rounds
    BY <1>1, <1>2, AtIsOK DEF Enter, Pc
  <1>3. CASE r <= Rounds /\ r = n
    BY <1>1, <1>3, AtIsOK DEF Enter, Pc
  <1>4. CASE r <= Rounds /\ r # n
    BY <1>1, <1>4, AtIsOK DEF Enter, Pc
  <1> QED BY <1>1, <1>2, <1>3, <1>4

--------------------------------------------------------------------------------
(* Each step of a session is a move as above.                              *)
LEMMA CommonRepliesAreSendable ==
    ASSUME NEW n, NEW s, NEW m
    PROVE  \A reply \in CommonReplies(n, m) : Sendable(n, s, reply)
  BY DEF CommonReplies, Sendable, Plain, AckReady, AckBaton, Message

LEMMA RepliesAreSendable ==
    ASSUME NEW n, NEW s, NEW m, m.kind = "Nonce" => m.round \in s.signed
    PROVE  \A reply \in Replies(n, m) : Sendable(n, s, reply)
  <1>1. CASE m.kind = "Nonce"
    BY <1>1 DEF Replies, Sendable, Signature, Message
  <1>2. CASE m.kind # "Nonce"
    BY <1>2, CommonRepliesAreSendable DEF Replies
  <1> QED BY <1>1, <1>2

LEMMA ReceiveKeeps ==
    ASSUME RaceInv, UNCHANGED setup, NEW n \in Member, NEW m \in net, m.to = n,
           \/ SendGroupReady(n, m) \/ WaitForGroupReady(n, m) \/ FollowRound(n, m)
           \/ WaitForBaton(n, m) \/ GetChallenge(n, m) \/ LeadRound(n, m) \/ SendBaton(n, m)
    PROVE  RaceInv'
  <1>0. /\ setup \in Setups /\ Rounds \in Nat \ {0} /\ Member = 1..Rounds
        /\ SessionOK(n, node[n]) /\ losses \in 0..MaxLosses
    BY RoundsType DEF RaceInv, RaceTypes
  <1>1. CASE SendGroupReady(n, m)
    <2> DEFINE missing == node[n].missing \ {m.from}
               s == IF missing = {} THEN Enter(n, node[n], 1)
                    ELSE At(node[n], "send_group_ready", 0, missing)
    <2>1. /\ node' = [node EXCEPT ![n] = s] /\ net' = (net \ {m}) \cup Sends(n, s)
          /\ UNCHANGED <<server, losses, task>>
      BY <1>1 DEF SendGroupReady, Handle
    <2>2. missing \in SUBSET Member /\ n \notin missing
      BY <1>0 DEF SessionOK, Session
    <2> HIDE DEF missing
    <2>3. SessionOK(n, s) /\ s.pc # "lead_round" /\ s.signed = node[n].signed
      <3>1. CASE missing = {}
        BY <1>0, <3>1, EnterIsOK
      <3>2. CASE missing # {}
        <4>1. "send_group_ready" \in Pc /\ 0 \in 0..Rounds + 1
          BY <1>0 DEF Pc
        <4>2. s = At(node[n], "send_group_ready", 0, missing)
          BY <3>2
        <4> HIDE DEF s
        <4>3. "send_group_ready" # "follow_round" /\ "send_group_ready" # "lead_round"
          OBVIOUS
        <4> DEFINE pc == "send_group_ready"
        <4> HIDE DEF pc
        <4>4. SessionOK(n, At(node[n], pc, 0, missing))
              /\ At(node[n], pc, 0, missing).pc = pc
              /\ At(node[n], pc, 0, missing).signed = node[n].signed
          BY <1>0, <2>2, <4>1, <4>3, AtIsOK DEF pc
        <4> QED BY <4>2, <4>3, <4>4 DEF pc
      <3> QED BY <3>1, <3>2
    <2> HIDE DEF s
    <2> QED BY <1>0, <2>1, <2>3, SendsAreSendable, SessionMoves
  <1>2. CASE WaitForGroupReady(n, m)
    <2> DEFINE s == Enter(n, node[n], 1)
               S == {AckReady(n)}
    <2>1. /\ node' = [node EXCEPT ![n] = s] /\ net' = (net \ {m}) \cup S
          /\ UNCHANGED <<server, losses, task>>
      BY <1>2 DEF WaitForGroupReady, Handle
    <2>2. SessionOK(n, s) /\ s.pc # "lead_round" /\ s.signed = node[n].signed
      BY <1>0, EnterIsOK
    <2>3. \A reply \in S : Sendable(n, s, reply)
      BY DEF Sendable, Plain, AckReady, Message
    <2> HIDE DEF s, S
    <2> QED BY <1>0, <2>1, <2>2, <2>3, SessionMoves
  <1>3. CASE FollowRound(n, m)
    <2>1. CASE m = Nonce(node[n].round, n)
      <3> DEFINE r == node[n].round
                 s == Enter(n, Signing(node[n], m), r + 1)
                 S == {Signature(n, r)} \cup Sends(n, s)
      <3>1. /\ node' = [node EXCEPT ![n] = s] /\ net' = (net \ {m}) \cup S
            /\ UNCHANGED <<server, losses, task>> /\ node[n].pc = "follow_round"
        BY <1>3, <2>1 DEF FollowRound, Handle
      <3>2. r \in 1..Rounds
        BY <1>0, <3>1 DEF SessionOK
      <3>3. /\ SessionOK(n, Signing(node[n], m))
            /\ node[n].signed \subseteq Signing(node[n], m).signed
            /\ r \in Signing(node[n], m).signed
        BY <2>1, SigningIsOK DEF Nonce, Message
      <3>4. SessionOK(n, s) /\ s.pc # "lead_round" /\ node[n].signed \subseteq s.signed /\ r \in s.signed
        <4>1. r + 1 \in 1..Rounds + 1
          BY <1>0, <3>2
        <4> DEFINE t == Signing(node[n], m)
                   k == r + 1
        <4>2. s = Enter(n, t, k)
          OBVIOUS
        <4> HIDE DEF r, s, t, k
        <4>3. SessionOK(n, t) /\ node[n].signed \subseteq t.signed /\ r \in t.signed
          BY <3>3 DEF t
        <4>4. k \in 1..Rounds + 1
          BY <4>1 DEF k
        <4>5. /\ SessionOK(n, Enter(n, t, k)) /\ Enter(n, t, k).pc # "lead_round"
              /\ Enter(n, t, k).signed = t.signed
          <5>1. setup \in Setups
            BY <1>0
          <5> QED BY <5>1, <4>3, <4>4, EnterIsOK
        <4> QED BY <4>2, <4>3, <4>5
      <3>5. \A reply \in S : Sendable(n, s, reply)
        <4> HIDE DEF s
        <4>1. Sendable(n, s, Signature(n, r))
          BY <3>4 DEF Sendable, Signature, Message
        <4> QED BY <3>4, <4>1, SendsAreSendable
      <3> HIDE DEF s, S, r
      <3> QED BY <1>0, <3>1, <3>4, <3>5, SessionMoves
    <2>2. CASE m # Nonce(node[n].round, n)
      <3>1. /\ node' = [node EXCEPT ![n] = node[n]] /\ net' = (net \ {m}) \cup CommonReplies(n, m)
            /\ UNCHANGED <<server, losses, task>> /\ node[n].pc = "follow_round"
        BY <1>3, <2>2 DEF FollowRound, Handle
      <3> QED BY <1>0, <3>1, CommonRepliesAreSendable, SessionMoves
    <2> QED BY <2>1, <2>2
  <1>4. CASE WaitForBaton(n, m)
    <2>1. CASE ExpectedBaton(n, m)
      <3> DEFINE s == At(node[n], "request_challenge", n, {})
                 S == {AckBaton(n)} \cup Sends(n, s)
      <3>1. /\ node' = [node EXCEPT ![n] = s] /\ net' = (net \ {m}) \cup S
            /\ UNCHANGED <<server, losses, task>>
        BY <1>4, <2>1 DEF WaitForBaton, Handle
      <3>2. SessionOK(n, s) /\ s.pc # "lead_round" /\ s.signed = node[n].signed
        BY <1>0, AtIsOK DEF Pc
      <3>3. \A reply \in S : Sendable(n, s, reply)
        <4> HIDE DEF s
        <4>1. Sendable(n, s, AckBaton(n))
          BY DEF Sendable, Plain, AckBaton, Message
        <4> QED BY <3>2, <4>1, SendsAreSendable
      <3> HIDE DEF s, S
      <3> QED BY <1>0, <3>1, <3>2, <3>3, SessionMoves
    <2>2. CASE ~ExpectedBaton(n, m)
      <3> DEFINE s == Signing(node[n], m)
      <3>1. /\ node' = [node EXCEPT ![n] = s] /\ net' = (net \ {m}) \cup Replies(n, m)
            /\ UNCHANGED <<server, losses, task>> /\ node[n].pc \in {"wait_for_baton", "fallback"}
        BY <1>4, <2>2 DEF WaitForBaton, Handle
      <3>2. /\ SessionOK(n, s) /\ node[n].signed \subseteq s.signed /\ s.pc = node[n].pc
            /\ m.kind = "Nonce" => m.round \in s.signed
        BY SigningIsOK
      <3> HIDE DEF s
      <3>3. \A reply \in Replies(n, m) : Sendable(n, s, reply)
        BY <3>2, RepliesAreSendable
      <3> QED BY <1>0, <3>1, <3>2, <3>3, SessionMoves
    <2> QED BY <2>1, <2>2
  <1>5. CASE GetChallenge(n, m)
    <2>1. CASE m.round = n
      <3> DEFINE s == At(node[n], "lead_round", n, Member \ {n})
      <3>1. /\ node' = [node EXCEPT ![n] = s] /\ net' = (net \ {m}) \cup Sends(n, s)
            /\ UNCHANGED <<server, losses, task>> /\ m.kind = "Challenge"
        BY <1>5, <2>1 DEF GetChallenge, Handle
      <3>2. SessionOK(n, s) /\ s.missing = Member \ {n} /\ s.signed = node[n].signed
        <4>1. /\ "lead_round" \in Pc /\ n \in 0..Rounds + 1
              /\ Member \ {n} \in SUBSET Member /\ n \notin Member \ {n}
          BY <1>0 DEF Pc
        <4> QED BY <1>0, <4>1, AtIsOK
      <3>3. Issued(n)
        BY <2>1, <3>1 DEF RaceInv, NetOK
      <3> HIDE DEF s
      <3> QED BY <1>0, <3>1, <3>2, <3>3, SendsAreSendable, SessionMoves
    <2>2. CASE m.round # n
      <3> DEFINE S == IF node[n].pc = "fallback" THEN {} ELSE Sends(n, node[n])
      <3>1. /\ node' = [node EXCEPT ![n] = node[n]] /\ net' = (net \ {m}) \cup S
            /\ UNCHANGED <<server, losses, task>> /\ node[n].pc # "lead_round"
        BY <1>5, <2>2 DEF GetChallenge, Handle
      <3>2. \A reply \in S : Sendable(n, node[n], reply)
        BY <1>0, <3>1, SendsAreSendable
      <3> HIDE DEF S
      <3> QED BY <1>0, <3>1, <3>2, SessionMoves
    <2> QED BY <2>1, <2>2
  <1>6. CASE LeadRound(n, m)
    <2> DEFINE missing == node[n].missing \
                            (IF m.kind = "Signature" /\ m.round = n THEN {m.from} ELSE {})
    <2>1. /\ missing \in SUBSET Member /\ n \notin missing
          /\ Issued(n) /\ \A p \in Member \ {n} : p \in missing \/ n \in node[p].signed
      <3>1. node[n].pc = "lead_round"
        BY <1>6 DEF LeadRound
      <3>2. Issued(n) /\ \A p \in Member \ {n} : p \in node[n].missing \/ n \in node[p].signed
        BY <3>1 DEF RaceInv, LeadersOK
      <3>3. m.kind = "Signature" /\ m.round = n => n \in node[m.from].signed
        BY DEF RaceInv, NetOK
      <3>4. node[n].missing \in SUBSET Member /\ n \notin node[n].missing
        BY <1>0 DEF SessionOK, Session
      <3> QED BY <3>2, <3>3, <3>4
    <2>2. CASE missing # {}
      <3> DEFINE s == At(Signing(node[n], m), "lead_round", n, missing)
                 S == Sends(n, s) \cup Replies(n, m)
      <3>1. /\ node' = [node EXCEPT ![n] = s] /\ net' = (net \ {m}) \cup S
            /\ UNCHANGED <<server, losses, task>>
        BY <1>6, <2>2 DEF LeadRound, Handle
      <3>2. /\ SessionOK(n, Signing(node[n], m))
            /\ node[n].signed \subseteq Signing(node[n], m).signed
            /\ m.kind = "Nonce" => m.round \in Signing(node[n], m).signed
        BY SigningIsOK
      <3> HIDE DEF missing
      <3>3. /\ SessionOK(n, s) /\ s.missing = missing /\ node[n].signed \subseteq s.signed
            /\ m.kind = "Nonce" => m.round \in s.signed
        <4>1. "lead_round" \in Pc /\ n \in 0..Rounds + 1
          BY <1>0 DEF Pc
        <4> DEFINE t == Signing(node[n], m)
        <4> HIDE DEF t
        <4>2. SessionOK(n, t) /\ node[n].signed \subseteq t.signed
              /\ (m.kind = "Nonce" => m.round \in t.signed)
          BY <3>2 DEF t
        <4>3. s = At(t, "lead_round", n, missing)
          BY DEF t
        <4> HIDE DEF s
        <4> QED BY <2>1, <4>1, <4>2, <4>3, AtIsOK
      <3>4. \A reply \in S : Sendable(n, s, reply)
        <4> HIDE DEF s
        <4> QED BY <2>1, <3>3, RepliesAreSendable, SendsAreSendable
      <3> HIDE DEF s, S
      <3> QED BY <1>0, <2>1, <3>1, <3>3, <3>4, SessionMoves
    <2>3. CASE missing = {}
      <3> DEFINE s == IF n < Rounds THEN At(node[n], "send_baton", n, {})
                      ELSE At(node[n], "await_result", n + 1, {})
                 S == Sends(n, s) \cup {Bundle(n)}
      <3>1. /\ node' = [node EXCEPT ![n] = s] /\ net' = (net \ {m}) \cup S
            /\ UNCHANGED <<server, losses>> /\ task' = [task EXCEPT ![n] = "running"]
        BY <1>6, <2>3 DEF LeadRound, Handle
      <3>2. AllSigned(n) /\ Issued(n)
        BY <2>1, <2>3 DEF AllSigned
      <3>3. SessionOK(n, s) /\ s.pc # "lead_round" /\ s.signed = node[n].signed
        BY <1>0, AtIsOK DEF Pc
      <3>4. \A reply \in S : Sendable(n, s, reply)
        <4> HIDE DEF s
        <4>1. Sendable(n, s, Bundle(n))
          BY <3>2 DEF Sendable
        <4> QED BY <3>3, <4>1, SendsAreSendable
      <3> HIDE DEF s, S
      <3> QED BY <1>0, <3>1, <3>2, <3>3, <3>4, SessionMoves
    <2> QED BY <2>2, <2>3
  <1>7. CASE SendBaton(n, m)
    <2> DEFINE s == Enter(n, node[n], n + 1)
    <2>1. /\ node' = [node EXCEPT ![n] = s] /\ net' = (net \ {m}) \cup Sends(n, s)
          /\ UNCHANGED <<server, losses, task>>
      BY <1>7 DEF SendBaton, Handle
    <2>2. SessionOK(n, s) /\ s.pc # "lead_round" /\ s.signed = node[n].signed
      <3>1. n + 1 \in 1..Rounds + 1
        BY <1>0
      <3> QED BY <1>0, <3>1, EnterIsOK
    <2> HIDE DEF s
    <2> QED BY <1>0, <2>1, <2>2, SendsAreSendable, SessionMoves
  <1> QED BY <1>1, <1>2, <1>3, <1>4, <1>5, <1>6, <1>7

LEMMA LoopsKeep ==
    ASSUME RaceInv, UNCHANGED setup, NEW n \in Member,
           \/ AwaitResult(n) \/ SubmitAgain(n) \/ Retry(n)
           \/ BatonTimeout(n) \/ GiveUpBaton(n) \/ Expire(n)
    PROVE  RaceInv'
  <1>0. /\ setup \in Setups /\ Rounds \in Nat \ {0} /\ Member = 1..Rounds
        /\ SessionOK(n, node[n]) /\ losses \in 0..MaxLosses
        /\ node = [node EXCEPT ![n] = node[n]]
    BY RoundsType DEF RaceInv, RaceTypes
  <1>1. CASE AwaitResult(n)
    <2> DEFINE s == At(node[n], "done", Rounds + 1, {})
               S == {}
    <2>1. /\ node' = [node EXCEPT ![n] = s] /\ net' \subseteq net \cup S
          /\ UNCHANGED <<server, losses, task>>
      BY <1>1 DEF AwaitResult
    <2>2. SessionOK(n, s) /\ s.pc # "lead_round" /\ s.signed = node[n].signed
      BY <1>0, AtIsOK DEF Pc
    <2>3. \A m \in S : Sendable(n, s, m)
      OBVIOUS
    <2> HIDE DEF s, S
    <2> QED BY <1>0, <2>1, <2>2, <2>3, SessionMoves
  <1>2. CASE SubmitAgain(n)
    <2> DEFINE S == {Bundle(n)}
    <2>1. /\ node' = [node EXCEPT ![n] = node[n]] /\ net' = net \cup S
          /\ UNCHANGED <<server, losses, task>> /\ task[n] # "none"
      BY <1>0, <1>2 DEF SubmitAgain, TaskRuns
    <2>2. AllSigned(n) /\ Issued(n)
      BY <2>1 DEF RaceInv, TasksOK
    <2>3. \A m \in S : Sendable(n, node[n], m)
      BY <2>2 DEF Sendable
    <2>4. node[n].pc = "lead_round" =>
            Issued(n) /\ \A p \in Member \ {n} : p \in node[n].missing \/ n \in node[p].signed
      BY DEF RaceInv, LeadersOK
    <2> HIDE DEF S
    <2> QED BY <1>0, <2>1, <2>3, <2>4, SessionMoves
  <1>3. CASE Retry(n)
    <2> DEFINE S == Sends(n, node[n])
    <2>1. /\ node' = [node EXCEPT ![n] = node[n]] /\ net' = net \cup S
          /\ UNCHANGED <<server, losses, task>>
      BY <1>0, <1>3 DEF Retry
    <2>3. node[n].pc = "lead_round" =>
            Issued(n) /\ \A p \in Member \ {n} : p \in node[n].missing \/ n \in node[p].signed
      BY DEF RaceInv, LeadersOK
    <2>4. \A m \in S : Sendable(n, node[n], m)
      BY <1>0, <2>3, SendsAreSendable
    <2> HIDE DEF S
    <2> QED BY <1>0, <2>1, <2>3, <2>4, SessionMoves
  <1>4. CASE BatonTimeout(n)
    <2> DEFINE s == At(node[n], "fallback", n, {})
    <2>1. /\ node' = [node EXCEPT ![n] = s] /\ net' = net \cup Sends(n, s)
          /\ UNCHANGED <<server, losses, task>>
      BY <1>4 DEF BatonTimeout
    <2>2. SessionOK(n, s) /\ s.pc # "lead_round" /\ s.signed = node[n].signed
      BY <1>0, AtIsOK DEF Pc
    <2> HIDE DEF s
    <2> QED BY <1>0, <2>1, <2>2, SendsAreSendable, SessionMoves
  <1>5. CASE GiveUpBaton(n)
    <2> DEFINE s == Enter(n, node[n], n + 1)
    <2>1. /\ node' = [node EXCEPT ![n] = s] /\ net' = net \cup Sends(n, s)
          /\ UNCHANGED <<server, losses, task>>
      BY <1>5 DEF GiveUpBaton
    <2>2. SessionOK(n, s) /\ s.pc # "lead_round" /\ s.signed = node[n].signed
      <3>1. n + 1 \in 1..Rounds + 1
        BY <1>0
      <3> QED BY <1>0, <3>1, EnterIsOK
    <2> HIDE DEF s
    <2> QED BY <1>0, <2>1, <2>2, SendsAreSendable, SessionMoves
  <1>6. CASE Expire(n)
    <2> DEFINE s == [node[n] EXCEPT !.pc = "failed", !.missing = {}]
               S == {}
    <2>1. /\ node' = [node EXCEPT ![n] = s] /\ net' \subseteq net \cup S
          /\ UNCHANGED <<server, losses, task>>
      BY <1>0, <1>6 DEF Expire, RaceInv, RaceTypes
    <2>2. SessionOK(n, s) /\ s.pc # "lead_round" /\ s.signed = node[n].signed
      BY <1>0 DEF SessionOK, Session, Pc
    <2>3. \A m \in S : Sendable(n, s, m)
      OBVIOUS
    <2> HIDE DEF s, S
    <2> QED BY <1>0, <2>1, <2>2, <2>3, SessionMoves
  <1> QED BY <1>1, <1>2, <1>3, <1>4, <1>5, <1>6

LEMMA LossKeeps ==
    ASSUME RaceInv, UNCHANGED setup, NEW m \in net, Lose(m)
    PROVE  RaceInv'
  <1>0. /\ setup \in Setups /\ Rounds \in Nat \ {0} /\ Member = 1..Rounds /\ MaxLosses \in Nat
        /\ SessionOK(1, node[1]) /\ losses \in 0..MaxLosses /\ 1 \in Member
        /\ node = [node EXCEPT ![1] = node[1]]
    BY RoundsType DEF RaceInv, RaceTypes
  <1> DEFINE S == {}
  <1>1. losses' \in 0..MaxLosses /\ net' \subseteq net \cup S /\ UNCHANGED <<node, task, server>>
    BY <1>0 DEF Lose
  <1>2. node[1].pc = "lead_round" =>
          Issued(1) /\ \A p \in Member \ {1} : p \in node[1].missing \/ 1 \in node[p].signed
    BY <1>0 DEF RaceInv, LeadersOK
  <1>3. \A k \in S : Sendable(1, node[1], k)
    OBVIOUS
  <1> HIDE DEF S
  <1> QED BY <1>0, <1>1, <1>2, <1>3, SessionMoves

--------------------------------------------------------------------------------
(* The result task, and the server.                                        *)
LEMMA TaskKeeps ==
    ASSUME RaceInv, UNCHANGED setup, NEW n \in Member, GiveUpResult(n)
    PROVE  RaceInv'
  <1>1. /\ setup \in Setups /\ Rounds \in Nat \ {0} /\ Member = 1..Rounds
        /\ Rounds' = Rounds /\ Member' = Member /\ MaxLosses' = MaxLosses /\ Session' = Session
    BY RoundsType, TeamStays DEF RaceInv, Session
  <1>2. /\ task[n] # "none" /\ task' = [task EXCEPT ![n] = "no_result"]
        /\ UNCHANGED <<node, server, net, losses>>
    BY DEF GiveUpResult, TaskRuns
  <1>3. RaceTypes' /\ ServerOK' /\ LeadersOK' /\ RecordedMeansSigned'
    BY <1>1, <1>2 DEF RaceInv, RaceTypes, SessionOK, ServerOK, LeadersOK, RecordedMeansSigned, Issued
  <1>4. TasksOK'
    BY <1>1, <1>2 DEF RaceInv, RaceTypes, TasksOK, AllSigned, Issued
  <1>5. NetOK'
    BY <1>1, <1>2 DEF RaceInv, NetOK, AllSigned, Issued, LooksLost, LooksLikeDuplicateSuccess
  <1> QED BY <1>1, <1>3, <1>4, <1>5 DEF RaceInv

LEMMA ResultKeeps ==
    ASSUME RaceInv, UNCHANGED setup, NEW n \in Member, NEW m \in net, TakeResult(n, m)
    PROVE  RaceInv'
  <1>1. /\ setup \in Setups /\ Rounds \in Nat \ {0} /\ Member = 1..Rounds
        /\ Rounds' = Rounds /\ Member' = Member /\ MaxLosses' = MaxLosses /\ Session' = Session
    BY RoundsType, TeamStays DEF RaceInv, Session
  <1>2. /\ task[n] # "none" /\ m.kind = "Result" /\ UNCHANGED <<node, server, losses>>
    BY DEF TakeResult, TaskRuns
  <1>3. AllSigned(n) /\ Issued(n)
    BY <1>2 DEF RaceInv, TasksOK
  <1>4. server.completed \in 0..Rounds /\ task \in [Member -> {"none", "running", "success", "failure", "no_result"}]
    BY DEF RaceInv, RaceTypes
  <1>5. \/ task' = task
        \/ task' = [task EXCEPT ![n] = "success"] /\ server.completed >= n
        \/ task' = [task EXCEPT ![n] = "failure"] /\ (n = Rounds => ~server.open)
    <2>1. CASE m.round # n
      BY <2>1 DEF TakeResult
    <2>2. CASE m.round = n /\ (m.verdict = "recorded" \/ LooksLikeDuplicateSuccess(m, n))
      <3>1. m.completed \in 0..server.completed /\ (m.verdict = "recorded" => n \in 1..server.completed)
        BY <1>2, <2>2 DEF RaceInv, NetOK
      <3>2. server.completed >= n
        BY <1>1, <1>4, <2>2, <3>1 DEF LooksLikeDuplicateSuccess
      <3> QED BY <2>2, <3>2 DEF TakeResult
    <2>3. CASE m.round = n /\ ~(m.verdict = "recorded" \/ LooksLikeDuplicateSuccess(m, n))
      <3>1. n = Rounds => ~server.open
        BY <1>2, <2>3 DEF RaceInv, NetOK, LooksLost
      <3> QED BY <2>3, <3>1 DEF TakeResult
    <2> QED BY <2>1, <2>2, <2>3
  <1>6. net' \subseteq net \cup {Bundle(n)}
    BY DEF TakeResult
  <1>7. RaceTypes' /\ ServerOK' /\ LeadersOK' /\ RecordedMeansSigned'
    <2>1. task' \in [Member -> {"none", "running", "success", "failure", "no_result"}]
      BY <1>4, <1>5
    <2> QED BY <1>1, <1>2, <2>1 DEF RaceInv, RaceTypes, SessionOK, ServerOK, LeadersOK,
            RecordedMeansSigned, Issued
  <1>8. TasksOK'
    <2> SUFFICES ASSUME NEW q \in Member
                 PROVE  /\ task'[q] # "none" => AllSigned(q) /\ Issued(q)
                        /\ task'[q] = "success" => server.completed >= q
                        /\ task'[q] = "failure" /\ q = Rounds => ~server.open
      BY <1>1, <1>2 DEF TasksOK, AllSigned, Issued
    <2>1. CASE q = n
      BY <1>2, <1>3, <1>4, <1>5, <2>1 DEF RaceInv, TasksOK
    <2>2. CASE q # n
      BY <1>4, <1>5, <2>2 DEF RaceInv, TasksOK
    <2> QED BY <2>1, <2>2
  <1>9. NetOK'
    <2> SUFFICES ASSUME NEW k \in net' PROVE
           /\ k.kind = "Nonce" =>
                 k.round \in Member /\ k.from = k.round /\ k.to # k.round /\ Issued(k.round)
           /\ k.kind = "Signature" =>
                 /\ k.round \in Member /\ k.from \in Member /\ k.from # k.round
                 /\ k.round \in node[k.from].signed
           /\ k.kind = "Challenge" => k.round \in Member /\ Issued(k.round)
           /\ k.kind = "Bundle" =>
                 /\ k.round \in Member /\ k.from = k.round
                 /\ AllSigned(k.round) /\ Issued(k.round)
           /\ k.kind = "Result" =>
                 /\ k.completed \in 0..server.completed
                 /\ k.verdict = "recorded" => k.round \in 1..server.completed
                 /\ k.round = Rounds /\ LooksLost(k) => ~server.open
      BY <1>1, <1>2 DEF NetOK, AllSigned, Issued, LooksLost, LooksLikeDuplicateSuccess
    <2>1. CASE k \in net
      BY <2>1 DEF RaceInv, NetOK
    <2>2. CASE k = Bundle(n)
      BY <1>3, <2>2 DEF Bundle, Message
    <2> QED BY <1>6, <2>1, <2>2
  <1> QED BY <1>1, <1>7, <1>8, <1>9 DEF RaceInv

(* The server goes on; it takes no challenge back unless the budget is     *)
(* over, and never records less.                                           *)
LEMMA ServerMoves ==
    ASSUME RaceInv, NEW S, UNCHANGED <<setup, node, task, losses>>,
           server' \in [completed : 0..Rounds, live : BOOLEAN, open : BOOLEAN],
           server'.completed >= server.completed,
           ~server.open => ~server'.open,
           ~server'.open => ~server'.live /\ server'.completed < Rounds,
           server'.completed = Rounds => ~server'.live,
           \A r \in Member : Issued(r) => Issued(r)',
           \A r \in Member : r <= server'.completed => AllSigned(r),
           net' \subseteq net \cup S,
           \A m \in S :
              \/ m.kind = "Challenge" /\ m.round \in Member /\ Issued(m.round)'
              \/ /\ m.kind = "Result"
                 /\ m.completed \in 0..server'.completed
                 /\ m.verdict = "recorded" => m.round \in 1..server'.completed
                 /\ m.round = Rounds /\ LooksLost(m) => ~server'.open
    PROVE  RaceInv'
  <1>1. /\ setup \in Setups /\ Rounds \in Nat \ {0} /\ Member = 1..Rounds
        /\ Rounds' = Rounds /\ Member' = Member /\ MaxLosses' = MaxLosses /\ Session' = Session
    BY RoundsType, TeamStays DEF RaceInv, Session
  <1>2. server.completed \in 0..Rounds
    BY DEF RaceInv, RaceTypes
  <1>3. server'.completed \in 0..Rounds
    OBVIOUS
  <1>4. RaceTypes'
    BY <1>1 DEF RaceInv, RaceTypes, SessionOK
  <1>5. ServerOK'
    BY <1>1 DEF ServerOK
  <1>6. LeadersOK'
    BY <1>1 DEF RaceInv, LeadersOK
  <1>7. TasksOK'
    <2> SUFFICES ASSUME NEW q \in Member
                 PROVE  /\ task[q] # "none" => AllSigned(q) /\ Issued(q)'
                        /\ task[q] = "success" => server'.completed >= q
                        /\ task[q] = "failure" /\ q = Rounds => ~server'.open
      BY <1>1 DEF TasksOK, AllSigned
    <2>1. /\ task[q] # "none" => AllSigned(q) /\ Issued(q)
          /\ task[q] = "success" => server.completed >= q
          /\ task[q] = "failure" /\ q = Rounds => ~server.open
      BY DEF RaceInv, TasksOK
    <2> QED BY <1>1, <1>2, <1>3, <2>1
  <1>8. NetOK'
    <2> SUFFICES ASSUME NEW m \in net' PROVE
           /\ m.kind = "Nonce" =>
                 m.round \in Member /\ m.from = m.round /\ m.to # m.round /\ Issued(m.round)'
           /\ m.kind = "Signature" =>
                 /\ m.round \in Member /\ m.from \in Member /\ m.from # m.round
                 /\ m.round \in node[m.from].signed
           /\ m.kind = "Challenge" => m.round \in Member /\ Issued(m.round)'
           /\ m.kind = "Bundle" =>
                 /\ m.round \in Member /\ m.from = m.round
                 /\ AllSigned(m.round) /\ Issued(m.round)'
           /\ m.kind = "Result" =>
                 /\ m.completed \in 0..server'.completed
                 /\ m.verdict = "recorded" => m.round \in 1..server'.completed
                 /\ m.round = Rounds /\ LooksLost(m) => ~server'.open
      BY <1>1 DEF NetOK, AllSigned, LooksLost, LooksLikeDuplicateSuccess
    <2>1. CASE m \in net
      BY <1>2, <1>3, <2>1 DEF RaceInv, NetOK
    <2>2. CASE m \in S
      BY <2>2
    <2> QED BY <2>1, <2>2
  <1>9. RecordedMeansSigned'
    BY <1>1, <1>3 DEF RecordedMeansSigned, AllSigned
  <1> QED BY <1>1, <1>4, <1>5, <1>6, <1>7, <1>8, <1>9 DEF RaceInv

LEMMA ServerKeeps ==
    ASSUME RaceInv, UNCHANGED setup,
           BudgetCloses \/ \E m \in net : ServerHandles(m)
    PROVE  RaceInv'
  <1>1. /\ setup \in Setups /\ Rounds \in Nat \ {0} /\ Member = 1..Rounds
    BY RoundsType DEF RaceInv
  <1>2. /\ server \in [completed : 0..Rounds, live : BOOLEAN, open : BOOLEAN]
        /\ server.completed \in 0..Rounds /\ server.live \in BOOLEAN /\ server.open \in BOOLEAN
    BY DEF RaceInv, RaceTypes
  <1>3. \A r \in Member : r <= server.completed => AllSigned(r)
    BY <1>1, <1>2 DEF RaceInv, RecordedMeansSigned, AllSigned
  <1>4. /\ ~server.open => ~server.live /\ server.completed < Rounds
        /\ server.completed = Rounds => ~server.live
    BY DEF RaceInv, ServerOK
  <1>5. CASE BudgetCloses
    <2> DEFINE S == {}
    <2>1. /\ UNCHANGED <<node, task, net, losses>> /\ server.completed < Rounds
          /\ server' = [server EXCEPT !.live = FALSE, !.open = FALSE]
      BY <1>5 DEF BudgetCloses
    <2>2. /\ server' \in [completed : 0..Rounds, live : BOOLEAN, open : BOOLEAN]
          /\ server'.completed = server.completed /\ ~server'.live /\ ~server'.open
      BY <1>2, <2>1
    <2>3. \A r \in Member : Issued(r) => Issued(r)'
      BY <2>2 DEF Issued
    <2>4. \A m \in S : FALSE
      OBVIOUS
    <2>5. net' \subseteq net \cup S
      BY <2>1
    <2> HIDE DEF S
    <2> QED BY <1>1, <1>2, <1>3, <2>1, <2>2, <2>3, <2>4, <2>5, ServerMoves
  <1>6. ASSUME NEW m \in net, ServerHandles(m), m.kind = "Request"
        PROVE  RaceInv'
    <2>0. OnRequest(m) /\ UNCHANGED <<node, task, losses>>
      BY <1>6 DEF ServerHandles
    <2>1. CASE server.open /\ server.completed < Rounds
      <3> DEFINE S == {Challenge(m.from, server.completed + 1)}
      <3>1. /\ server' = [server EXCEPT !.live = TRUE] /\ net' = (net \ {m}) \cup S
        BY <2>0, <2>1 DEF OnRequest
      <3>2. /\ server' \in [completed : 0..Rounds, live : BOOLEAN, open : BOOLEAN]
            /\ server'.completed = server.completed /\ server'.live /\ server'.open
        BY <1>2, <2>1, <3>1
      <3>3. \A r \in Member : Issued(r) => Issued(r)'
        BY <3>2 DEF Issued
      <3>4. \A k \in S : k.kind = "Challenge" /\ k.round \in Member /\ Issued(k.round)'
        BY <1>1, <1>2, <2>1, <3>2 DEF Challenge, Message, Issued
      <3> HIDE DEF S
      <3>5. /\ server'.completed >= server.completed /\ (~server.open => ~server'.open)
            /\ (~server'.open => ~server'.live /\ server'.completed < Rounds)
            /\ (server'.completed = Rounds => ~server'.live)
        BY <1>1, <1>2, <2>1, <3>2
      <3>6. (\A r \in Member : r <= server'.completed => AllSigned(r)) /\ net' \subseteq net \cup S
        BY <1>3, <3>1, <3>2
      <3> QED BY <2>0, <3>2, <3>3, <3>4, <3>5, <3>6, ServerMoves
    <2>2. CASE ~(server.open /\ server.completed < Rounds)
      <3> DEFINE S == {Result(m.from, 0, "rejected", server.completed)}
      <3>1. /\ UNCHANGED server /\ net' = (net \ {m}) \cup S
        BY <2>0, <2>2 DEF OnRequest
      <3>3. \A r \in Member : Issued(r) => Issued(r)'
        BY <3>1 DEF Issued
      <3>4. \A k \in S : /\ k.kind = "Result" /\ k.completed \in 0..server'.completed
                         /\ k.verdict # "recorded" /\ k.round # Rounds
        BY <1>1, <1>2, <3>1 DEF Result
      <3> HIDE DEF S
      <3>5. /\ server'.completed >= server.completed /\ (~server.open => ~server'.open)
            /\ (~server'.open => ~server'.live /\ server'.completed < Rounds)
            /\ (server'.completed = Rounds => ~server'.live)
        BY <1>1, <1>2, <1>4, <3>1
      <3>6. (\A r \in Member : r <= server'.completed => AllSigned(r)) /\ net' \subseteq net \cup S
        BY <1>3, <3>1
      <3> QED BY <1>2, <2>0, <3>1, <3>3, <3>4, <3>5, <3>6, ServerMoves
    <2> QED BY <2>1, <2>2
  <1>7. ASSUME NEW m \in net, ServerHandles(m), m.kind = "Bundle"
        PROVE  RaceInv'
    <2>0. OnBundle(m) /\ UNCHANGED <<node, task, losses>>
      BY <1>7 DEF ServerHandles
    <2>1. m.round \in Member /\ AllSigned(m.round) /\ Issued(m.round)
      BY <1>7 DEF RaceInv, NetOK
    <2>2. CASE server.live /\ m.round = server.completed + 1
      <3> DEFINE S == {Result(m.from, m.round, "recorded", m.round)}
      <3>1. server' = [server EXCEPT !.completed = m.round, !.live = FALSE]
        BY <2>0, <2>2 DEF OnBundle
      <3>2. /\ server' \in [completed : 0..Rounds, live : BOOLEAN, open : BOOLEAN]
            /\ server'.completed = m.round /\ ~server'.live /\ server'.open = server.open
        <4>1. m.round \in 0..Rounds
          BY <1>1, <2>1
        <4> DEFINE r == m.round
        <4> HIDE DEF r
        <4>2. r \in 0..Rounds /\ server' = [server EXCEPT !.completed = r, !.live = FALSE]
          BY <3>1, <4>1 DEF r
        <4>3. server' \in [completed : 0..Rounds, live : BOOLEAN, open : BOOLEAN]
          BY <1>2, <4>2
        <4>4. server'.completed = r /\ server'.live = FALSE /\ server'.open = server.open
          BY <1>2, <4>2
        <4> QED BY <4>3, <4>4 DEF r
      <3>3. net' = (net \ {m}) \cup S
        BY <2>0, <2>2, <1>2, <3>2 DEF OnBundle
      <3>4. \A r \in Member : Issued(r) => Issued(r)'
        BY <1>1, <1>2, <1>4, <2>2, <3>2 DEF Issued
      <3>5. \A r \in Member : r <= server'.completed => AllSigned(r)
        BY <1>1, <1>2, <1>3, <2>1, <2>2, <3>2
      <3>6. \A k \in S : /\ k.kind = "Result" /\ k.completed \in 0..server'.completed
                         /\ k.verdict = "recorded" /\ k.round \in 1..server'.completed
                         /\ ~LooksLost(k)
        BY <1>1, <2>1, <3>2 DEF Result, LooksLost
      <3>7. server.open
        BY <1>4, <2>2
      <3>8. server'.completed >= server.completed
        BY <1>2, <2>2, <3>2
      <3> HIDE DEF S
      <3> QED BY <1>1, <1>2, <2>0, <3>2, <3>3, <3>4, <3>5, <3>6, <3>7, <3>8, ServerMoves
    <2>3. CASE ~(server.live /\ m.round = server.completed + 1)
      <3> DEFINE verdicts == IF server.live THEN {"rejected"}
                             ELSE IF server.open THEN {"no_active_challenge"}
                             ELSE {"no_active_challenge", "rejected"}
      <3>1. UNCHANGED server
        BY <2>0, <2>3 DEF OnBundle
      <3>2. PICK v \in verdicts : net' = (net \ {m}) \cup {Result(m.from, m.round, v, server.completed)}
        BY <2>0, <2>3 DEF OnBundle
      <3> DEFINE S == {Result(m.from, m.round, v, server.completed)}
      <3>3. \A r \in Member : Issued(r) => Issued(r)'
        BY <3>1 DEF Issued
      <3>4. v # "recorded"
        OBVIOUS
      <3>5. m.round = Rounds /\ server.open => v = "no_active_challenge" /\ server.completed >= Rounds
        BY <1>1, <1>2, <1>4, <2>1, <2>3 DEF Issued
      <3>6. \A k \in S : /\ k.kind = "Result" /\ k.completed \in 0..server'.completed
                         /\ k.verdict # "recorded"
                         /\ k.round = Rounds /\ LooksLost(k) => ~server'.open
        BY <1>2, <3>1, <3>4, <3>5 DEF Result, LooksLost, LooksLikeDuplicateSuccess
      <3>7. net' = (net \ {m}) \cup S
        BY <3>2
      <3> HIDE DEF S
      <3> QED BY <1>1, <1>2, <1>3, <1>4, <2>0, <3>1, <3>3, <3>6, <3>7, ServerMoves
    <2> QED BY <2>2, <2>3
  <1> QED BY <1>5, <1>6, <1>7 DEF ServerHandles

--------------------------------------------------------------------------------
LEMMA RaceSteps == RaceInv /\ [Next]_vars => RaceInv'
  <1> SUFFICES ASSUME RaceInv, [Next]_vars PROVE RaceInv'
    OBVIOUS
  <1>1. CASE UNCHANGED vars
    BY <1>1 DEF vars, RaceInv, RaceTypes, SessionOK, Session, Issued, AllSigned, ServerOK, LeadersOK,
       TasksOK, LooksLost, LooksLikeDuplicateSuccess, NetOK, RecordedMeansSigned, Rounds, Member,
       MaxLosses
  <1>2. CASE Next
    <2>1. UNCHANGED setup /\ Step
      BY <1>2 DEF Next
    <2>2. ASSUME NEW n \in Member, NEW m \in net, Receive(n, m) PROVE RaceInv'
      BY <2>1, <2>2, ReceiveKeeps, ResultKeeps DEF Receive
    <2> QED BY <2>1, <2>2, ServerKeeps, LossKeeps, TaskKeeps, LoopsKeep DEF Step
  <1> QED BY <1>1, <1>2

LEMMA RaceInvariant == Spec => []RaceInv
  BY RaceStarts, RaceSteps, PTL DEF Spec

(* The types, for any number of members and rounds.                        *)
THEOREM RaceTypeCorrect == Spec => []TypeOK
  <1>1. RaceInv => TypeOK
    BY DEF RaceInv, RaceTypes, SessionOK, Session, TypeOK
  <1> QED BY <1>1, RaceInvariant, PTL

(* Turns are taken in order, however late the batons are and however often *)
(* the fallback polls (race.py:677).                                       *)
THEOREM TurnsTheorem == Spec => []TurnsInOrder
  <1>1. RaceInv => TurnsInOrder
    <2> SUFFICES ASSUME RaceInv, NEW n \in Member, node[n].pc = "lead_round"
                 PROVE  server.completed >= n - 1
      BY DEF TurnsInOrder
    <2>1. Issued(n)
      BY DEF RaceInv, LeadersOK
    <2>2. server.completed \in Nat /\ n \in Nat
      BY RoundsType DEF RaceInv, RaceTypes
    <2> QED BY <2>1, <2>2 DEF Issued
  <1> QED BY <1>1, RaceInvariant, PTL

(* A recorded round has the signatures of all the team.                    *)
THEOREM SignedTheorem == Spec => []RecordedMeansSigned
  <1>1. RaceInv => RecordedMeansSigned
    BY DEF RaceInv
  <1> QED BY <1>1, RaceInvariant, PTL

(* A success that is reported is one, also when it is inferred from a      *)
(* rejected duplicate (race.py:725).                                       *)
THEOREM SuccessTheorem == Spec => []SuccessIsRecorded
  <1>1. RaceInv => SuccessIsRecorded
    BY DEF RaceInv, TasksOK, SuccessIsRecorded
  <1> QED BY <1>1, RaceInvariant, PTL

(* The last leader reports no failure of a race that the team won.         *)
THEOREM FailureTheorem == Spec => []LastFailureIsReal
  <1>1. RaceInv => LastFailureIsReal
    <2> SUFFICES ASSUME RaceInv, task[Rounds] = "failure" PROVE server.completed < Rounds
      BY DEF LastFailureIsReal
    <2>1. Rounds \in Member
      BY RoundsType DEF RaceInv
    <2> QED BY <2>1 DEF RaceInv, TasksOK, ServerOK
  <1> QED BY <1>1, RaceInvariant, PTL

--------------------------------------------------------------------------------
(* The race implements the relay.                                          *)

(* Once its result task has started, a leader does not lead again. *)
Led(n, s) ==
    \/ s.pc \in {"send_baton", "await_result", "done", "failed"}
    \/ s.pc = "follow_round" /\ s.round > n

LeadsOnce == \A n \in Member : task[n] # "none" => Led(n, node[n])

(* Where a session goes, and that it keeps its signatures. *)
LEMMA AtGoesTo ==
    ASSUME NEW s \in Session, NEW pc, NEW round, NEW missing
    PROVE  /\ At(s, pc, round, missing).pc = pc /\ At(s, pc, round, missing).round = round
           /\ At(s, pc, round, missing).signed = s.signed
  BY DEF At, Session

LEMMA EnterGoesOn ==
    ASSUME setup \in Setups, NEW n \in Member, NEW s \in Session, NEW r \in 1..Rounds + 1
    PROVE  /\ Enter(n, s, r).signed = s.signed
           /\ r > n => Led(n, Enter(n, s, r))
  <1>1. Rounds \in Nat /\ n \in Nat /\ r \in Nat
    BY RoundsType DEF Member
  <1>2. CASE r > Rounds
    BY <1>1, <1>2, AtGoesTo DEF Enter, Led
  <1>3. CASE r <= Rounds /\ r = n
    BY <1>1, <1>3, AtGoesTo DEF Enter
  <1>4. CASE r <= Rounds /\ r # n
    BY <1>1, <1>4, AtGoesTo DEF Enter, Led
  <1> QED BY <1>1, <1>2, <1>3, <1>4

(* What a step of a session or a result task of n does to the relay: it    *)
(* signs a round whose challenge is out, or nothing.                       *)
Signs(n) ==
    /\ \A p \in Member \ {n} : node'[p] = node[p]
    /\ \/ node'[n].signed = node[n].signed
       \/ \E r \in Member \ {n} : Issued(r) /\ node'[n].signed = node[n].signed \cup {r}

LEMMA SigningSigns ==
    ASSUME RaceInv, NEW n \in Member, NEW m \in net, m.to = n, NEW s,
           node' = [node EXCEPT ![n] = s], s.signed = Signing(node[n], m).signed
    PROVE  Signs(n)
  <1>1. node'[n] = s /\ \A p \in Member \ {n} : node'[p] = node[p]
    BY DEF RaceInv, RaceTypes
  <1>2. CASE m.kind = "Nonce"
    <2>1. m.round \in Member \ {n} /\ Issued(m.round)
      BY <1>2 DEF RaceInv, NetOK
    <2>2. Signing(node[n], m).signed = node[n].signed \cup {m.round}
      BY <1>2 DEF Signing, RaceInv, RaceTypes, Session
    <2> QED BY <1>1, <2>1, <2>2 DEF Signs
  <1>3. CASE m.kind # "Nonce"
    BY <1>1, <1>3 DEF Signing, Signs
  <1> QED BY <1>2, <1>3

LEMMA MovingSigns ==
    ASSUME RaceInv, NEW n \in Member, NEW s, node' = [node EXCEPT ![n] = s],
           s.signed = node[n].signed
    PROVE  Signs(n)
  BY DEF Signs, RaceInv, RaceTypes

(* What a step of the session of n does: besides signing, it may start the *)
(* result task, once.                                                      *)
MovesOn(n) ==
    /\ Signs(n) /\ UNCHANGED server
    /\ \/ task' = task
       \/ task[n] = "none" /\ task' = [task EXCEPT ![n] = "running"]
    /\ task'[n] # "none" => Led(n, node'[n])

LEMMA ReceiveMovesOn ==
    ASSUME RaceInv, LeadsOnce, UNCHANGED setup, NEW n \in Member, NEW m \in net, m.to = n,
           \/ SendGroupReady(n, m) \/ WaitForGroupReady(n, m) \/ FollowRound(n, m)
           \/ WaitForBaton(n, m) \/ GetChallenge(n, m) \/ LeadRound(n, m) \/ SendBaton(n, m)
    PROVE  MovesOn(n)
  <1>0. /\ setup \in Setups /\ Rounds \in Nat \ {0} /\ Member = 1..Rounds
        /\ node \in [Member -> Session] /\ node[n] \in Session /\ SessionOK(n, node[n])
        /\ task \in [Member -> {"none", "running", "success", "failure", "no_result"}]
        /\ 1 \in 1..Rounds + 1 /\ n + 1 \in 1..Rounds + 1 /\ n + 1 > n
    BY RoundsType DEF RaceInv, RaceTypes
  <1>1. /\ ~Led(n, node[n]) => task[n] = "none"
        /\ task[n] # "none" => Led(n, node[n])
    BY DEF LeadsOnce
  <1>2. Signing(node[n], m) \in Session
    BY SigningIsOK DEF SessionOK
  <1>3. CASE SendGroupReady(n, m)
    <2> DEFINE missing == node[n].missing \ {m.from}
               s == IF missing = {} THEN Enter(n, node[n], 1)
                    ELSE At(node[n], "send_group_ready", 0, missing)
    <2>1. /\ node' = [node EXCEPT ![n] = s] /\ UNCHANGED <<server, task>>
          /\ node[n].pc = "send_group_ready"
      BY <1>3 DEF SendGroupReady, Handle
    <2>2. s.signed = node[n].signed
      BY <1>0, AtGoesTo, EnterGoesOn
    <2> HIDE DEF s
    <2>3. Signs(n)
      BY <2>1, <2>2, MovingSigns
    <2> QED BY <1>1, <2>1, <2>3 DEF MovesOn, Led
  <1>4. CASE WaitForGroupReady(n, m)
    <2> DEFINE s == Enter(n, node[n], 1)
    <2>1. /\ node' = [node EXCEPT ![n] = s] /\ UNCHANGED <<server, task>>
          /\ node[n].pc = "wait_for_group_ready"
      BY <1>4 DEF WaitForGroupReady, Handle
    <2>2. s.signed = node[n].signed
      BY <1>0, EnterGoesOn
    <2> HIDE DEF s
    <2>3. Signs(n)
      BY <2>1, <2>2, MovingSigns
    <2> QED BY <1>1, <2>1, <2>3 DEF MovesOn, Led
  <1>5. CASE FollowRound(n, m)
    <2> DEFINE r == node[n].round
               t == Signing(node[n], m)
               s == IF m = Nonce(r, n) THEN Enter(n, t, r + 1) ELSE node[n]
    <2>1. /\ node' = [node EXCEPT ![n] = s] /\ UNCHANGED <<server, task>>
          /\ node[n].pc = "follow_round"
      BY <1>5 DEF FollowRound, Handle
    <2>2. r \in 1..Rounds /\ r + 1 \in 1..Rounds + 1
      BY <1>0, <2>1 DEF SessionOK
    <2> HIDE DEF r
    <2>3. CASE m = Nonce(r, n)
      <3> DEFINE k == r + 1
      <3> HIDE DEF t, k
      <3>1. s = Enter(n, t, k)
        BY <2>3 DEF k
      <3>2. t \in Session /\ k \in 1..Rounds + 1
        BY <1>2, <2>2 DEF t, k
      <3>3. s.signed = t.signed /\ (k > n => Led(n, s))
        BY <1>0, <3>1, <3>2, EnterGoesOn
      <3> HIDE DEF s
      <3>4. Signs(n)
        BY <2>1, <3>3, SigningSigns DEF t
      <3>5. node'[n] = s
        BY <1>0, <2>1
      <3>6. task[n] # "none" => k > n
        BY <1>0, <1>1, <2>1, <2>2 DEF Led, k, r
      <3> QED BY <2>1, <3>3, <3>4, <3>5, <3>6 DEF MovesOn
    <2>4. CASE m # Nonce(r, n)
      <3>1. node' = [node EXCEPT ![n] = node[n]]
        BY <2>1, <2>4
      <3>2. Signs(n) /\ node'[n] = node[n]
        BY <1>0, <3>1, MovingSigns
      <3> QED BY <1>1, <2>1, <3>2 DEF MovesOn
    <2> QED BY <2>3, <2>4
  <1>6. CASE WaitForBaton(n, m)
    <2> DEFINE s == IF ExpectedBaton(n, m) THEN At(node[n], "request_challenge", n, {})
                    ELSE Signing(node[n], m)
    <2>1. /\ node' = [node EXCEPT ![n] = s] /\ UNCHANGED <<server, task>>
          /\ node[n].pc \in {"wait_for_baton", "fallback"}
      BY <1>6 DEF WaitForBaton, Handle
    <2>2. CASE ExpectedBaton(n, m)
      <3>1. s.signed = node[n].signed
        BY <1>0, <2>2, AtGoesTo
      <3> HIDE DEF s
      <3>2. Signs(n)
        BY <2>1, <3>1, MovingSigns
      <3> QED BY <1>1, <2>1, <3>2 DEF MovesOn, Led
    <2>3. CASE ~ExpectedBaton(n, m)
      <3>1. s.signed = Signing(node[n], m).signed
        BY <2>3
      <3> HIDE DEF s
      <3>2. Signs(n)
        BY <2>1, <3>1, SigningSigns
      <3> QED BY <1>1, <2>1, <3>2 DEF MovesOn, Led
    <2> QED BY <2>2, <2>3
  <1>7. CASE GetChallenge(n, m)
    <2> DEFINE s == IF m.round = n THEN At(node[n], "lead_round", n, Member \ {n}) ELSE node[n]
    <2>1. /\ node' = [node EXCEPT ![n] = s] /\ UNCHANGED <<server, task>>
          /\ node[n].pc \in {"fallback", "request_challenge"}
      BY <1>7 DEF GetChallenge, Handle
    <2>2. s.signed = node[n].signed
      BY <1>0, AtGoesTo
    <2> HIDE DEF s
    <2>3. Signs(n)
      BY <2>1, <2>2, MovingSigns
    <2> QED BY <1>1, <2>1, <2>3 DEF MovesOn, Led
  <1>8. CASE LeadRound(n, m)
    <2> DEFINE missing == node[n].missing \
                            (IF m.kind = "Signature" /\ m.round = n THEN {m.from} ELSE {})
               t == Signing(node[n], m)
               s == IF missing # {} THEN At(t, "lead_round", n, missing)
                    ELSE IF n < Rounds THEN At(node[n], "send_baton", n, {})
                    ELSE At(node[n], "await_result", n + 1, {})
    <2>1. /\ node' = [node EXCEPT ![n] = s] /\ UNCHANGED server
          /\ node[n].pc = "lead_round"
          /\ task' = IF missing # {} THEN task ELSE [task EXCEPT ![n] = "running"]
      BY <1>8 DEF LeadRound, Handle
    <2>2. task[n] = "none"
      BY <1>1, <2>1 DEF Led
    <2> HIDE DEF missing
    <2>3. CASE missing # {}
      <3>1. s = At(t, "lead_round", n, missing) /\ t \in Session
        BY <1>2, <2>3
      <3> HIDE DEF s, t
      <3>2. s.signed = t.signed
        BY <3>1, AtGoesTo
      <3>3. Signs(n)
        BY <2>1, <3>2, SigningSigns DEF t
      <3> QED BY <2>1, <2>2, <2>3, <3>3 DEF MovesOn
    <2>4. CASE missing = {}
      <3>1. s.signed = node[n].signed /\ Led(n, s)
        BY <1>0, <2>4, AtGoesTo DEF Led
      <3> HIDE DEF s
      <3>2. Signs(n) /\ node'[n] = s
        BY <1>0, <2>1, <3>1, MovingSigns
      <3> QED BY <2>1, <2>2, <2>4, <3>1, <3>2 DEF MovesOn
    <2> QED BY <2>3, <2>4
  <1>9. CASE SendBaton(n, m)
    <2> DEFINE s == Enter(n, node[n], n + 1)
    <2>1. node' = [node EXCEPT ![n] = s] /\ UNCHANGED <<server, task>>
      BY <1>9 DEF SendBaton, Handle
    <2>2. s.signed = node[n].signed /\ Led(n, s)
      BY <1>0, EnterGoesOn
    <2> HIDE DEF s
    <2>3. Signs(n) /\ node'[n] = s
      BY <1>0, <2>1, <2>2, MovingSigns
    <2> QED BY <2>1, <2>2, <2>3 DEF MovesOn
  <1> QED BY <1>3, <1>4, <1>5, <1>6, <1>7, <1>8, <1>9

LEMMA LoopsMoveOn ==
    ASSUME RaceInv, LeadsOnce, UNCHANGED setup, NEW n \in Member,
           \/ AwaitResult(n) \/ SubmitAgain(n) \/ Retry(n)
           \/ BatonTimeout(n) \/ GiveUpBaton(n) \/ Expire(n)
    PROVE  MovesOn(n)
  <1>0. /\ setup \in Setups /\ Rounds \in Nat \ {0} /\ Member = 1..Rounds
        /\ node \in [Member -> Session] /\ node[n] \in Session
        /\ n + 1 \in 1..Rounds + 1 /\ n + 1 > n
        /\ node = [node EXCEPT ![n] = node[n]]
    BY RoundsType DEF RaceInv, RaceTypes
  <1>1. /\ ~Led(n, node[n]) => task[n] = "none"
        /\ task[n] # "none" => Led(n, node[n])
    BY DEF LeadsOnce
  <1>2. CASE AwaitResult(n) \/ BatonTimeout(n)
    <2> DEFINE s == IF AwaitResult(n) THEN At(node[n], "done", Rounds + 1, {})
                    ELSE At(node[n], "fallback", n, {})
    <2>1. node' = [node EXCEPT ![n] = s] /\ UNCHANGED <<server, task>>
      BY <1>2 DEF AwaitResult, BatonTimeout
    <2>2. s.signed = node[n].signed
      BY <1>0, AtGoesTo
    <2>3. task[n] # "none" => Led(n, s)
      <3>1. CASE AwaitResult(n)
        BY <1>0, <3>1, AtGoesTo DEF Led
      <3>2. CASE ~AwaitResult(n)
        BY <1>1, <1>2, <3>2 DEF BatonTimeout, Led
      <3> QED BY <3>1, <3>2
    <2> HIDE DEF s
    <2>4. Signs(n) /\ node'[n] = s
      BY <1>0, <2>1, <2>2, MovingSigns
    <2> QED BY <2>1, <2>3, <2>4 DEF MovesOn
  <1>3. CASE SubmitAgain(n) \/ Retry(n)
    <2>1. node' = [node EXCEPT ![n] = node[n]] /\ UNCHANGED <<node, server, task>>
      BY <1>0, <1>3 DEF SubmitAgain, Retry
    <2>2. Signs(n)
      BY <2>1, MovingSigns
    <2> QED BY <1>1, <2>1, <2>2 DEF MovesOn
  <1>4. CASE GiveUpBaton(n)
    <2> DEFINE s == Enter(n, node[n], n + 1)
    <2>1. node' = [node EXCEPT ![n] = s] /\ UNCHANGED <<server, task>>
      BY <1>4 DEF GiveUpBaton
    <2>2. s.signed = node[n].signed /\ Led(n, s)
      BY <1>0, EnterGoesOn
    <2> HIDE DEF s
    <2>3. Signs(n) /\ node'[n] = s
      BY <1>0, <2>1, <2>2, MovingSigns
    <2> QED BY <2>1, <2>2, <2>3 DEF MovesOn
  <1>5. CASE Expire(n)
    <2> DEFINE s == [node[n] EXCEPT !.pc = "failed", !.missing = {}]
    <2>1. node' = [node EXCEPT ![n] = s] /\ UNCHANGED <<server, task>>
      BY <1>0, <1>5 DEF Expire
    <2>2. s.signed = node[n].signed /\ Led(n, s)
      BY <1>0 DEF Session, Led
    <2> HIDE DEF s
    <2>3. Signs(n) /\ node'[n] = s
      BY <1>0, <2>1, <2>2, MovingSigns
    <2> QED BY <2>1, <2>2, <2>3 DEF MovesOn
  <1> QED BY <1>2, <1>3, <1>4, <1>5

(* A result task ends with a success of a recorded round, or otherwise. *)
TaskEnds(n) ==
    /\ UNCHANGED <<node, server>>
    /\ task[n] = "running"
    /\ \E result \in {"success", "failure", "no_result"} : task' = [task EXCEPT ![n] = result]

(* The server records the next round, which all have signed, or none. *)
ServerRecords ==
    /\ UNCHANGED <<node, task>>
    /\ \/ server'.completed = server.completed
       \/ /\ server.completed + 1 \in Member /\ AllSigned(server.completed + 1)
          /\ server'.completed = server.completed + 1

RelayStep ==
    \/ \E n \in Member : MovesOn(n) \/ TaskEnds(n)
    \/ ServerRecords

LEMMA RaceStepsAreRelaySteps ==
    ASSUME RaceInv, LeadsOnce, Next
    PROVE  RelayStep
  <1>0. /\ UNCHANGED setup /\ Step
        /\ server \in [completed : 0..Rounds, live : BOOLEAN, open : BOOLEAN]
        /\ task \in [Member -> {"none", "running", "success", "failure", "no_result"}]
    BY DEF Next, RaceInv, RaceTypes
  <1>1. ASSUME NEW m \in net, ServerHandles(m) PROVE ServerRecords
    <2>1. UNCHANGED <<node, task>>
      BY <1>1 DEF ServerHandles
    <2>2. CASE m.kind = "Request" /\ OnRequest(m)
      <3>1. server'.completed = server.completed
        BY <1>0, <2>2 DEF OnRequest
      <3> QED BY <2>1, <3>1 DEF ServerRecords
    <2>3. CASE m.kind = "Bundle" /\ OnBundle(m)
      <3>1. m.round \in Member /\ AllSigned(m.round)
        BY <2>3 DEF RaceInv, NetOK
      <3>2. CASE server.live /\ m.round = server.completed + 1
        <4>1. server' = [server EXCEPT !.completed = m.round, !.live = FALSE]
          BY <2>3, <3>2 DEF OnBundle
        <4>2. server'.completed = m.round
          BY <1>0, <4>1
        <4> QED BY <2>1, <3>1, <3>2, <4>2 DEF ServerRecords
      <3>3. CASE ~(server.live /\ m.round = server.completed + 1)
        BY <2>1, <2>3, <3>3 DEF OnBundle, ServerRecords
      <3> QED BY <3>2, <3>3
    <2> QED BY <1>1, <2>2, <2>3 DEF ServerHandles
  <1>2. ASSUME NEW m \in net, Lose(m) PROVE ServerRecords
    BY <1>2 DEF Lose, ServerRecords
  <1>3. CASE BudgetCloses
    <2>1. UNCHANGED <<node, task>>
      BY <1>3 DEF BudgetCloses
    <2>2. server'.completed = server.completed
      BY <1>0, <1>3 DEF BudgetCloses
    <2> QED BY <2>1, <2>2 DEF ServerRecords, RelayStep
  <1>4. ASSUME NEW n \in Member, NEW m \in net, Receive(n, m) PROVE MovesOn(n) \/ TaskEnds(n)
    <2>1. CASE TakeResult(n, m)
      <3>1. /\ UNCHANGED <<node, server>> /\ task[n] = "running"
            /\ \/ task' = [task EXCEPT ![n] = "success"]
               \/ task' = [task EXCEPT ![n] = "failure"]
               \/ task' = task
        BY <2>1 DEF TakeResult, TaskRuns
      <3>2. CASE task' = task
        BY <3>1, <3>2 DEF MovesOn, Signs, LeadsOnce
      <3> QED BY <3>1, <3>2 DEF TaskEnds
    <2>2. CASE ~TakeResult(n, m)
      BY <1>0, <1>4, <2>2, ReceiveMovesOn DEF Receive
    <2> QED BY <2>1, <2>2
  <1>5. ASSUME NEW n \in Member, GiveUpResult(n) PROVE TaskEnds(n)
    BY <1>5 DEF GiveUpResult, TaskRuns, TaskEnds
  <1> QED BY <1>0, <1>1, <1>2, <1>3, <1>4, <1>5, LoopsMoveOn DEF Step, RelayStep

LEMMA RaceLeadsOnce == Spec => []LeadsOnce
  <1>1. Init => LeadsOnce
    BY DEF Init, LeadsOnce
  <1>2. ASSUME RaceInv, LeadsOnce, [Next]_vars PROVE LeadsOnce'
    <2>0. task \in [Member -> {"none", "running", "success", "failure", "no_result"}]
      BY <1>2 DEF RaceInv, RaceTypes
    <2>1. CASE UNCHANGED vars
      BY <1>2, <2>1 DEF vars, LeadsOnce, Member, Rounds, Led
    <2>2. CASE Next
      <3>1. Member' = Member
        BY <2>2, TeamStays DEF Next
      <3>2. ASSUME NEW n \in Member, MovesOn(n) PROVE LeadsOnce'
        <4> SUFFICES ASSUME NEW p \in Member, task'[p] # "none" PROVE Led(p, node'[p])
          BY <3>1 DEF LeadsOnce, Led
        <4>1. CASE p = n
          BY <3>2, <4>1 DEF MovesOn
        <4>2. CASE p # n
          <5>1. task'[p] = task[p] /\ node'[p] = node[p]
            BY <2>0, <3>2, <4>2 DEF MovesOn, Signs
          <5> QED BY <1>2, <5>1 DEF LeadsOnce
        <4> QED BY <4>1, <4>2
      <3>3. ASSUME NEW n \in Member, TaskEnds(n) PROVE LeadsOnce'
        <4> SUFFICES ASSUME NEW p \in Member, task'[p] # "none" PROVE Led(p, node'[p])
          BY <3>1 DEF LeadsOnce, Led
        <4>1. task[p] # "none" /\ node'[p] = node[p]
          BY <2>0, <3>3 DEF TaskEnds
        <4> QED BY <1>2, <4>1 DEF LeadsOnce
      <3>4. CASE ServerRecords
        BY <1>2, <3>1, <3>4 DEF ServerRecords, LeadsOnce, Led
      <3> QED BY <1>2, <2>2, <3>2, <3>3, <3>4, RaceStepsAreRelaySteps DEF RelayStep
    <2> QED BY <1>2, <2>1, <2>2
  <1> QED BY <1>1, <1>2, RaceInvariant, PTL DEF Spec

(* The race as the relay sees it. *)
Signers == [r \in Member |-> {p \in Member : r \in node[p].signed}]
Claimed == {r \in Member : task[r] = "success"}

LEMMA RelayIsRefined ==
    ASSUME RaceInv, LeadsOnce, RaceInv', Next
    PROVE  Race!Next \/ UNCHANGED Race!relayVars
  <1>0. /\ Rounds \in Nat \ {0} /\ Member = 1..Rounds /\ Rounds' = Rounds /\ Member' = Member
        /\ task \in [Member -> {"none", "running", "success", "failure", "no_result"}]
        /\ server.completed \in 0..Rounds
    BY RoundsType, TeamStays DEF Next, RaceInv, RaceTypes
  <1>1. UNCHANGED <<Signers, Claimed>> /\ server'.completed = server.completed =>
          UNCHANGED Race!relayVars
    BY <1>0 DEF Race!relayVars, Signers, Claimed
  <1>2. UNCHANGED node => Signers' = Signers
    BY <1>0 DEF Signers
  <1>3. UNCHANGED task => Claimed' = Claimed
    BY <1>0 DEF Claimed
  <1>4. ASSUME NEW n \in Member, MovesOn(n)
        PROVE  Race!Next \/ UNCHANGED Race!relayVars
    <2>1. Claimed' = Claimed /\ UNCHANGED server
      BY <1>0, <1>4 DEF MovesOn, Claimed
    <2>2. CASE node'[n].signed = node[n].signed
      <3>1. \A p \in Member : node'[p].signed = node[p].signed
        BY <1>4, <2>2 DEF MovesOn, Signs
      <3>2. Signers' = Signers
        BY <1>0, <3>1 DEF Signers
      <3> QED BY <1>0, <1>1, <2>1, <3>2
    <2>3. CASE \E r \in Member \ {n} :
                 Issued(r) /\ node'[n].signed = node[n].signed \cup {r}
      <3>1. PICK r \in Member \ {n} :
              Issued(r) /\ node'[n].signed = node[n].signed \cup {r}
        BY <2>3
      <3>2. \A p \in Member \ {n} : node'[p].signed = node[p].signed
        BY <1>4 DEF MovesOn, Signs
      <3>3. Signers' = [Signers EXCEPT ![r] = @ \cup {n}]
        <4>1. \A q \in Member : {p \in Member : q \in node'[p].signed}
                 = IF q = r THEN Signers[q] \cup {n} ELSE Signers[q]
          BY <3>1, <3>2 DEF Signers
        <4>2. Signers' = [q \in Member |-> {p \in Member : q \in node'[p].signed}]
          BY <1>0 DEF Signers
        <4>3. Signers = [q \in Member |-> Signers[q]]
          BY DEF Signers
        <4> QED BY <3>1, <4>1, <4>2, <4>3
      <3>4. r <= server.completed + 1 /\ n # r
        BY <1>0, <3>1 DEF Issued
      <3>5. Race!Sign(n, r)
        BY <1>0, <2>1, <3>3, <3>4 DEF Race!Sign, Signers, Claimed
      <3> QED BY <1>0, <3>1, <3>5 DEF Race!Next
    <2> QED BY <1>4, <2>2, <2>3 DEF MovesOn, Signs
  <1>5. ASSUME NEW n \in Member, TaskEnds(n)
        PROVE  Race!Next \/ UNCHANGED Race!relayVars
    <2>1. PICK result \in {"success", "failure", "no_result"} : task' = [task EXCEPT ![n] = result]
      BY <1>5 DEF TaskEnds
    <2>2. UNCHANGED <<node, server>> /\ Signers' = Signers /\ task[n] = "running"
      BY <1>2, <1>5 DEF TaskEnds
    <2>3. CASE result = "success"
      <3>1. Claimed' = Claimed \cup {n}
        BY <1>0, <2>1, <2>3 DEF Claimed
      <3>2. n <= server.completed
        <4>1. task'[n] = "success"
          BY <1>0, <2>1, <2>3
        <4>2. server'.completed >= n
          BY <1>0, <4>1 DEF RaceInv, TasksOK
        <4> QED BY <1>0, <2>2, <4>2
      <3>3. Race!Claim(n)
        BY <1>0, <2>2, <3>1, <3>2 DEF Race!Claim, Signers, Claimed
      <3> QED BY <1>0, <3>3 DEF Race!Next
    <2>4. CASE result # "success"
      <3>1. Claimed' = Claimed
        BY <1>0, <2>1, <2>2, <2>4 DEF Claimed
      <3> QED BY <1>0, <1>1, <2>2, <3>1
    <2> QED BY <2>3, <2>4
  <1>6. CASE ServerRecords
    <2>1. Signers' = Signers /\ Claimed' = Claimed
      BY <1>2, <1>3, <1>6 DEF ServerRecords
    <2>2. CASE server'.completed = server.completed
      BY <1>0, <1>1, <2>1, <2>2
    <2>3. CASE /\ server.completed + 1 \in Member /\ AllSigned(server.completed + 1)
               /\ server'.completed = server.completed + 1
      <3> DEFINE r == server.completed + 1
      <3>1. r \notin node[r].signed
        BY <2>3 DEF RaceInv, RaceTypes, SessionOK
      <3>2. Signers[r] = 1..Rounds \ {r}
        BY <1>0, <2>3, <3>1 DEF Signers, AllSigned
      <3>3. server.completed < Rounds
        BY <1>0, <2>3
      <3>4. Race!Record
        BY <1>0, <2>1, <2>3, <3>2, <3>3 DEF Race!Record, Signers, Claimed
      <3> QED BY <3>4 DEF Race!Next
    <2> QED BY <1>6, <2>2, <2>3 DEF ServerRecords
  <1> QED BY <1>4, <1>5, <1>6, RaceStepsAreRelaySteps DEF RelayStep

(* The race implements the relay: it is one, for a team of any size,       *)
(* whatever is lost, repeated or late (race.py:432-754).                   *)
THEOREM RaceImplementsRelay == Spec => RaceIsRelay
  <1>1. Init => Race!Init
    <2> SUFFICES ASSUME Init PROVE Race!Init
      OBVIOUS
    <2>1. Rounds \in Nat \ {0} /\ Member = 1..Rounds
      BY RoundsType DEF Init
    <2>2. \A n \in Member : node[n].signed = {} /\ task[n] = "none"
      BY DEF Init
    <2>3. server.completed = 0
      BY DEF Init
    <2> QED BY <2>1, <2>2, <2>3 DEF Race!Init
  <1>2. ASSUME RaceInv, LeadsOnce, RaceInv', [Next]_vars
        PROVE  [Race!Next]_(Race!relayVars)
    <2>1. CASE Next
      BY <1>2, <2>1, RelayIsRefined
    <2>2. CASE UNCHANGED vars
      BY <2>2 DEF vars, Race!relayVars, Rounds, Member
    <2> QED BY <1>2, <2>1, <2>2
  <1> QED BY <1>1, <1>2, RaceInvariant, RaceLeadsOnce, PTL DEF Spec, RaceIsRelay, Race!Spec
================================================================================
