-------------------------- MODULE MCBlockchainNetwork --------------------------
(***************************************************************************)
(* A universe of blocks for the network: every block that can be mined on  *)
(* genesis up to MaxHeight, with any of the transactions, for each outcome *)
(* of the nonce search.  The hash is as good as the nonce that was found:  *)
(* its leading digit is the nonce, so that of two blocks at one height     *)
(* either may win, and the rest makes it different from every other hash.  *)
(***************************************************************************)
EXTENDS BlockchainNetwork, FiniteSets, TLC

CONSTANTS n1, n2, n3

MCTxs == {"t1"}
MCTwoTxs == {"t1", "t2"}

(* Each node may win or lose a tie; and the case where n1 wins them all. *)
MCAnyNonce == [n \in Node |-> 1..2]
MCNoncesApart == n1 :> {1} @@ n2 :> {2}
(* Only n1 is ever lucky. *)
MCNoncesOne == n1 :> {1} @@ n2 :> {} @@ n3 :> {}

MCSetup(nonces, rounds, submitted) ==
    [confirmations |-> 0, nonces |-> nonces, catch_up |-> rounds, height |-> 2,
     submits |-> submitted, losses |-> 0, restarts |-> 0]

(* Two transactions, or catch-up rounds that overlap. *)
MCForks == {MCSetup(MCAnyNonce, "apart", 2), MCSetup(MCAnyNonce, "overlapping", 1)}

MCGossip == {[MCSetup(MCNoncesOne, "off", 1) EXCEPT !.losses = 1]}

(* A loss and a restart, or a transaction that needs a confirmation. *)
MCRecovery ==
    {[MCSetup(MCAnyNonce, "apart", 1) EXCEPT !.losses = 1, !.restarts = 1],
     [MCSetup(MCNoncesApart, "apart", 1) EXCEPT !.confirmations = 1, !.height = 4]}

MCGenesis == [hash |-> 1, prev |-> 0, height |-> 0, txs |-> {}, pow |-> TRUE]

(* A block adds 8 times the last four digits of its parent, plus 0 to 7:   *)
(* no two blocks have the same hash up to height 4.                        *)
MCBlockHash(prev, txs, nonce) ==
    10000 * nonce + 8 * (prev % 10000) + (IF "t1" \in txs THEN 4 ELSE 0)
      + (IF "t2" \in txs THEN 2 ELSE 0) + (IF prev >= 20000 THEN 1 ELSE 0)

MCChildren(b) ==
    {[hash |-> MCBlockHash(b.hash, txs, nonce), prev |-> b.hash,
      height |-> b.height + 1, txs |-> txs, pow |-> TRUE] :
        txs \in SUBSET Txs, nonce \in 1..2}

MCLevel[h \in 0..4] ==
    IF h = 0 THEN {MCGenesis} ELSE UNION {MCChildren(b) : b \in MCLevel[h - 1]}

MCBlocks == UNION {MCLevel[h] : h \in 0..2}
MCMoreBlocks == UNION {MCLevel[h] : h \in 0..4}

(* No node is told from another where the nonces are not. *)
MCSymmetry == Permutations(Node)

ASSUME MCOneHeightPerHash == OneHeightPerHash
================================================================================
