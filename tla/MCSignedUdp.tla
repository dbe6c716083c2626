------------------------------ MODULE MCSignedUdp ------------------------------
(* The endpoints are interchangeable. *)
EXTENDS SignedUdp

CONSTANTS p1, a1, a2

Endpoints == Permutations({a1, a2})
================================================================================
