-------------------------------- MODULE Mailbox --------------------------------
(***************************************************************************)
(* What the signed UDP node of a member promises to its session: one       *)
(* mailbox, in the order of arrival.  receive takes the oldest message,    *)
(* wait_for the oldest of the kind it looks for; the others stay where     *)
(* they are.                                                               *)
(***************************************************************************)
EXTENDS SequencesExt

CONSTANT Kind

VARIABLES
    inbox,   \* the messages that wait, oldest first
    taken    \* the messages taken so far

Init == inbox = <<>> /\ taken = <<>>

Arrive ==
    /\ inbox' # <<>>
    /\ inbox' = Append(inbox, Last(inbox'))
    /\ UNCHANGED taken

TakeAt(i) ==
    /\ taken' = Append(taken, inbox[i])
    /\ inbox' = RemoveAt(inbox, i)

Receive == inbox # <<>> /\ TakeAt(1)

WaitFor(kind) ==
    \E i \in DOMAIN inbox :
        /\ inbox[i].kind = kind
        /\ \A j \in 1..(i - 1) : inbox[j].kind # kind
        /\ TakeAt(i)

(* The process of the node is started again. *)
Clear == inbox' = <<>> /\ taken' = <<>>

Next == Arrive \/ Receive \/ (\E kind \in Kind : WaitFor(kind)) \/ Clear

Spec == Init /\ [][Next]_<<inbox, taken>>
================================================================================
