------------------------------ MODULE ChainRules ------------------------------
(***************************************************************************)
(* The rules of src/lab3_blockchain/chain.py that depend on no mutable     *)
(* state: validation, fork choice, the main-chain index and the mempool    *)
(* reconciliation.  BlockchainState applies them to the state of one node, *)
(* BlockchainNetwork to the states of several.                             *)
(*                                                                         *)
(* A block is a record.  Its hash is a natural number: the 32 bytes of     *)
(* SHA-256 read as a big-endian integer, so that the lexicographic order   *)
(* of the code is the order of numbers.  A transaction is its hash.  The   *)
(* transactions of a block are a set: the code looks a transaction up in   *)
(* tx_hashes and drops repetitions.  pow abstracts has_valid_pow.          *)
(***************************************************************************)
EXTENDS Integers

CONSTANTS
    Txs,      \* the transactions with a valid signature, named by their hash
    Blocks,   \* the blocks that can be mined or received
    Genesis   \* GENESIS_BLOCK

BlockRecord ==
    [hash: Nat, prev: Nat, height: Nat, txs: SUBSET Txs, pow: BOOLEAN]

(* block_hash covers every field but the height: blocks with one hash have *)
(* one body.                                                               *)
ASSUME BlocksAssumption ==
    /\ Blocks \subseteq BlockRecord
    /\ Genesis \in Blocks
    /\ Genesis.height = 0
    /\ Genesis.txs = {}
    /\ \A b, c \in Blocks :
          b.hash = c.hash => b.prev = c.prev /\ b.txs = c.txs /\ b.pow = c.pow

(* What holds as long as every block declares the height its miner gave it. *)
OneHeightPerHash == \A b, c \in Blocks : b.hash = c.hash => b = c

HashesOf(blocks) == {b.hash : b \in blocks}

(* The parent of b is stored, and when it is, whether b is one level above. *)
ParentKnown(blocks, b) == b.prev \in HashesOf(blocks)
HeightFits(blocks, b) ==
    \E p \in blocks : p.hash = b.prev /\ b.height = p.height + 1

(* The verdict of validate_block, its tests in the order of the code. *)
ValidateBlock(blocks, orphan_hashes, b) ==
    IF b.hash \in HashesOf(blocks) \cup orphan_hashes THEN "duplicate"
    ELSE IF ~b.pow THEN "bad_pow"
    ELSE IF ~ParentKnown(blocks, b) THEN "unknown_parent"
    ELSE IF ~HeightFits(blocks, b) THEN "bad_height"
    ELSE "valid"

(* Mistake: of two blocks at one height the first to arrive wins. *)
IsHigherTip(candidate, tip) == candidate.height > tip.height

(* Longest chain first, the smaller hash between blocks of equal height. *)
IsBetterTip(candidate, tip) ==
    \/ candidate.height > tip.height
    \/ candidate.height = tip.height /\ candidate.hash < tip.hash

ParentOf(blocks, b) == CHOOSE p \in blocks : p.hash = b.prev

(* hash_by_height: the blocks from genesis to the tip, found by walking    *)
(* back from the tip.                                                      *)
MainChain(blocks, tip) ==
    LET walk[h \in 0..tip.height] ==
          IF h = tip.height THEN tip ELSE ParentOf(blocks, walk[h + 1])
    IN  walk

(* chain leads from height 0 up to b, parent to child, inside blocks. *)
IsPath(blocks, chain, b) ==
    /\ chain \in [0..b.height -> blocks]
    /\ chain[b.height] = b
    /\ \A h \in 0..b.height : chain[h].height = h
    /\ \A h \in 1..b.height : chain[h].prev = chain[h - 1].hash

ChainTxs(chain) == UNION {chain[h].txs : h \in DOMAIN chain}

(* Mistake: nothing comes back from the old chain. *)
ReconcileWithoutReturn(mempool, known, old_chain, new_chain) ==
    mempool \ ChainTxs(new_chain)

(* Mistake: only what falls off the old chain is looked at. *)
ReconcileWithoutRemoval(mempool, known, old_chain, new_chain) ==
    mempool \cup ((ChainTxs(old_chain) \ ChainTxs(new_chain)) \cap known)

(* The mempool after the main chain changed: known transactions that fell  *)
(* off the old chain come back, transactions of the new chain leave.       *)
ReconcileMempool(mempool, known, old_chain, new_chain) ==
    (mempool \cup ((ChainTxs(old_chain) \ ChainTxs(new_chain)) \cap known))
       \ ChainTxs(new_chain)

(* Blocks stacked on the highest main-chain block that holds tx.  The walk *)
(* from the top makes a transaction mined twice count from its last copy.  *)
Confirmations(chain, tip, tx) ==
    IF tx \in ChainTxs(chain)
    THEN tip.height - (CHOOSE h \in DOMAIN chain :
                          /\ tx \in chain[h].txs
                          /\ \A k \in DOMAIN chain : tx \in chain[k].txs => k <= h)
    ELSE 0
===============================================================================
