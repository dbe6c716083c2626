--------------------------- MODULE MCBlockchainState ---------------------------
(***************************************************************************)
(* One node and a universe of nine blocks: two branches that tie at height *)
(* two and that hold the two transactions in different orders, one of them *)
(* twice; a block without proof of work; a block at the wrong height; a    *)
(* block whose parent never comes.                                         *)
(***************************************************************************)
EXTENDS BlockchainState

MCBlock(hash, prev, height, txs, pow) ==
    [hash |-> hash, prev |-> prev, height |-> height, txs |-> txs, pow |-> pow]

MCTxs == {"t1", "t2"}

MCGenesis == MCBlock(50, 0, 0, {}, TRUE)

MCBlocks ==
    {MCGenesis,
     MCBlock(10, 50, 1, {"t1"}, TRUE),
     MCBlock(20, 50, 1, {"t2"}, TRUE),
     MCBlock(40, 10, 2, {}, TRUE),
     MCBlock(30, 20, 2, {"t1"}, TRUE),
     MCBlock(35, 30, 3, {"t2"}, TRUE),
     MCBlock(60, 10, 2, {}, FALSE),
     MCBlock(70, 10, 3, {}, TRUE),
     MCBlock(80, 99, 1, {}, TRUE)}

(* Every block of this universe declares the height its miner gave it. *)
ASSUME MCOneHeightPerHash == OneHeightPerHash
================================================================================
