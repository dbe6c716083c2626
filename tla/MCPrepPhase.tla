------------------------------ MODULE MCPrepPhase ------------------------------
(* Teams for the discovery of endpoints and the preparation of the race.   *)
EXTENDS PrepPhase, TLC

Pair == "A" :> {"B"} @@ "B" :> {"A"}

(* Two pairs that share a member, the least team in which there is         *)
(* something to gossip about.                                              *)
Chain == "A" :> {"B"} @@ "B" :> {"A", "C"} @@ "C" :> {"B"}

Setup(program_, target, lost, again) ==
    [program |-> program_, target |-> target, losses |-> lost,
     restarts |-> again, introduced |-> target = Chain]

MCSetups ==
    {Setup("race", Pair, 2, 1), Setup("race", Chain, 0, 0),
     Setup("prep", Pair, 1, 0)}

MCPrepAlone == {Setup("prep", Pair, 0, 0)}
================================================================================
