------------------------------- MODULE ForkChoice -------------------------------
(***************************************************************************)
(* What the consensus state of a node promises, without the way blocks     *)
(* arrive: the node knows a growing tree of blocks, learns one block at a  *)
(* time, and its tip is the best block it knows by the rule of the docs    *)
(* (longest chain, smaller hash between equals).                           *)
(***************************************************************************)
EXTENDS ChainRules

VARIABLES
    known,   \* the blocks of the tree
    best     \* the tip

Init == known = {Genesis} /\ best = Genesis

Learn(b) ==
    /\ b.hash \notin HashesOf(known)
    /\ b.pow
    /\ HeightFits(known, b)
    /\ known' = known \cup {b}
    /\ best' \in known'
    /\ \A c \in known' : c = best' \/ IsBetterTip(best', c)

Next == \E b \in Blocks : Learn(b)

Spec == Init /\ [][Next]_<<known, best>>
===============================================================================
