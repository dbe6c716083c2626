--------------------------------- MODULE Relay ---------------------------------
(***************************************************************************)
(* What the relay race of Lab 2 promises, whatever the messages do: the    *)
(* rounds are recorded one after the other, each with the signatures of    *)
(* all teammates of its leader; nobody signs a round before its turn; and  *)
(* a leader claims only a round that is recorded.                          *)
(***************************************************************************)
EXTENDS Naturals

VARIABLES
    rounds,     \* the rounds, and members; does not change
    completed,  \* how many rounds are recorded
    signers,    \* who signed each round
    claimed     \* the rounds whose leaders report a success

relayVars == <<rounds, completed, signers, claimed>>

Init ==
    /\ rounds \in Nat \ {0}
    /\ completed = 0
    /\ signers = [r \in 1..rounds |-> {}]
    /\ claimed = {}

Sign(p, r) ==
    /\ p # r /\ r <= completed + 1
    /\ signers' = [signers EXCEPT ![r] = @ \cup {p}]
    /\ UNCHANGED <<rounds, completed, claimed>>

Record ==
    /\ completed < rounds
    /\ signers[completed + 1] = 1..rounds \ {completed + 1}
    /\ completed' = completed + 1
    /\ UNCHANGED <<rounds, signers, claimed>>

Claim(r) ==
    /\ r <= completed
    /\ claimed' = claimed \cup {r}
    /\ UNCHANGED <<rounds, completed, signers>>

Next ==
    \/ \E p, r \in 1..rounds : Sign(p, r)
    \/ Record
    \/ \E r \in 1..rounds : Claim(r)

Spec == Init /\ [][Next]_relayVars
================================================================================
