---------------------------- MODULE BlockchainState ----------------------------
(***************************************************************************)
(* The consensus state of one node: class BlockchainState of               *)
(* src/lab3_blockchain/chain.py.                                           *)
(*                                                                         *)
(* add_block is a loop over a work queue of blocks.  Each iteration is a   *)
(* step of its own here, and pending is the queue: it is non-empty exactly *)
(* while add_block runs.  The class is used from one event loop and no     *)
(* method awaits, so no other method starts while pending is non-empty.    *)
(* The queue is a set: which orphan an iteration takes is left open, which *)
(* includes the last-in-first-out order of the code.                       *)
(***************************************************************************)
EXTENDS ChainRules

VARIABLES
    blocks,          \* the values of blocks_by_hash
    tip,             \* the block of _tip_hash
    main_chain,      \* hash_by_height, from height to block
    orphans,         \* the blocks in the lists of orphans_by_prev_hash
    orphan_hashes,   \* _orphan_hashes
    transactions,    \* the keys of transactions_by_hash
    mempool,         \* the keys of mempool
    pending,         \* the work queue of add_block
    received         \* history: the blocks add_block was called with

vars == <<blocks, tip, main_chain, orphans, orphan_hashes, transactions,
          mempool, pending, received>>

TypeOK ==
    /\ blocks \subseteq Blocks
    /\ tip \in blocks
    /\ DOMAIN main_chain = 0..tip.height
    /\ orphans \subseteq Blocks
    /\ orphan_hashes \subseteq Nat
    /\ transactions \subseteq Txs
    /\ mempool \subseteq transactions
    /\ pending \subseteq Blocks
    /\ received \subseteq Blocks

Init ==
    /\ blocks = {Genesis}
    /\ tip = Genesis
    /\ main_chain = [h \in {0} |-> Genesis]
    /\ orphans = {}
    /\ orphan_hashes = {}
    /\ transactions = {}
    /\ mempool = {}
    /\ pending = {}
    /\ received = {}

--------------------------------------------------------------------------------

(* Mistake: the transaction is only put into the mempool. *)
AddTransactionToMempool(tx) ==
    /\ pending = {}
    /\ mempool' = mempool \cup {tx}
    /\ UNCHANGED <<blocks, tip, main_chain, orphans, orphan_hashes,
                   transactions, pending, received>>

(* add_transaction: both setdefault calls.  A bad signature raises before  *)
(* any change, so only the members of Txs get here.                        *)
AddTransaction(tx) ==
    /\ pending = {}
    /\ transactions' = transactions \cup {tx}
    /\ mempool' = mempool \cup {tx}
    /\ UNCHANGED <<blocks, tip, main_chain, orphans, orphan_hashes, pending,
                   received>>

(* add_block is called: the queue holds the block. *)
AddBlock(b) ==
    /\ pending = {}
    /\ pending' = {b}
    /\ received' = received \cup {b}
    /\ UNCHANGED <<blocks, tip, main_chain, orphans, orphan_hashes,
                   transactions, mempool>>

(* The orphans that wait for b. *)
WaitingFor(b) == {o \in orphans : o.prev = b.hash}

(* Mistake: only a child of the tip becomes the tip. *)
ChooseTipByExtension(b) ==
    \/ /\ b.prev = tip.hash
       /\ tip' = b
       /\ main_chain' = MainChain(blocks', b)
       /\ mempool' = ReconcileMempool(mempool, transactions, main_chain, main_chain')
    \/ b.prev # tip.hash /\ UNCHANGED <<tip, main_chain, mempool>>

(* Mistake: the index gets the new tip without being rebuilt. *)
ChooseTipWithoutRebuild(b) ==
    \/ /\ IsBetterTip(b, tip)
       /\ tip' = b
       /\ main_chain' = [h \in 0..b.height |-> IF h = b.height THEN b ELSE main_chain[h]]
       /\ mempool' = ReconcileMempool(mempool, transactions, main_chain, main_chain')
    \/ ~IsBetterTip(b, tip) /\ UNCHANGED <<tip, main_chain, mempool>>

(* The end of _insert_block for a valid block: the tip, the index and the  *)
(* mempool move when b is better than the tip.                             *)
ChooseTip(b) ==
    \/ /\ IsBetterTip(b, tip)
       /\ tip' = b
       /\ main_chain' = MainChain(blocks', b)
       /\ mempool' = ReconcileMempool(mempool, transactions, main_chain, main_chain')
    \/ /\ ~IsBetterTip(b, tip)
       /\ UNCHANGED <<tip, main_chain, mempool>>

(* Mistake: the hashes of the attached orphans are not discarded. *)
InsertBlockKeepingHashes(b) ==
    /\ b \in pending
    /\ ValidateBlock(blocks, orphan_hashes, b) = "valid"
    /\ blocks' = blocks \cup {b}
    /\ ChooseTip(b)
    /\ orphans' = orphans \ WaitingFor(b)
    /\ pending' = (pending \ {b}) \cup WaitingFor(b)
    /\ UNCHANGED <<orphan_hashes, transactions, received>>

(* One iteration that inserts a valid block and queues its orphans. *)
InsertBlock(b) ==
    /\ b \in pending
    /\ ValidateBlock(blocks, orphan_hashes, b) = "valid"
    /\ blocks' = blocks \cup {b}
    /\ ChooseTip(b)
    /\ orphans' = orphans \ WaitingFor(b)
    /\ orphan_hashes' = orphan_hashes \ HashesOf(WaitingFor(b))
    /\ pending' = (pending \ {b}) \cup WaitingFor(b)
    /\ UNCHANGED <<transactions, received>>

(* Mistake: an orphan is stored without its hash. *)
StoreOrphanWithoutHash(b) ==
    /\ b \in pending
    /\ ValidateBlock(blocks, orphan_hashes, b) = "unknown_parent"
    /\ orphans' = orphans \cup {b}
    /\ pending' = pending \ {b}
    /\ UNCHANGED <<blocks, tip, main_chain, orphan_hashes, transactions, mempool,
                   received>>

(* One iteration on a block whose parent is unknown. *)
StoreOrphan(b) ==
    /\ b \in pending
    /\ ValidateBlock(blocks, orphan_hashes, b) = "unknown_parent"
    /\ orphans' = orphans \cup {b}
    /\ orphan_hashes' = orphan_hashes \cup {b.hash}
    /\ pending' = pending \ {b}
    /\ UNCHANGED <<blocks, tip, main_chain, transactions, mempool, received>>

(* Mistake: the block stays in the queue to be tried again. *)
RejectBlockForNow(b) ==
    /\ b \in pending
    /\ ValidateBlock(blocks, orphan_hashes, b) \in {"duplicate", "bad_pow", "bad_height"}
    /\ UNCHANGED vars

(* One iteration on a block that is turned away. *)
RejectBlock(b) ==
    /\ b \in pending
    /\ ValidateBlock(blocks, orphan_hashes, b) \in {"duplicate", "bad_pow", "bad_height"}
    /\ pending' = pending \ {b}
    /\ UNCHANGED <<blocks, tip, main_chain, orphans, orphan_hashes,
                   transactions, mempool, received>>

Iterate == \E b \in pending : InsertBlock(b) \/ StoreOrphan(b) \/ RejectBlock(b)

Next ==
    \/ \E tx \in Txs : AddTransaction(tx)
    \/ \E b \in Blocks : AddBlock(b)
    \/ Iterate

Spec == Init /\ [][Next]_vars

(* add_block runs to its end: nothing in the loop waits. *)
FairSpec == Spec /\ WF_vars(Iterate)

--------------------------------------------------------------------------------

(* The tip is the best block of the whole tree, side branches included: no *)
(* order of arrival, no chain of attached orphans and no reorganisation    *)
(* leaves the node on a branch that fork choice ranks lower.               *)
TipIsBest == \A b \in blocks : b = tip \/ IsBetterTip(tip, b)

(* The height index is the path from the tip to genesis, also after a      *)
(* reorganisation that swaps most of it: get_block_by_height, which serves *)
(* the server and the catching-up peers, never mixes two branches.         *)
IndexIsPath == main_chain[0] = Genesis /\ IsPath(blocks, main_chain, tip)

(* No transaction the node accepted is lost, whatever branches come and    *)
(* go: it waits in the mempool or is in a block of the main chain.         *)
NoTransactionLost == transactions \subseteq mempool \cup ChainTxs(main_chain)

(* The tree is closed: every block but genesis has its proof of work and   *)
(* stands one level above its parent, and no two blocks share a hash.      *)
TreeIsClosed ==
    /\ \A b \in blocks \ {Genesis} : b.pow /\ HeightFits(blocks, b)
    /\ \A b, c \in blocks : b.hash = c.hash => b = c

(* The tree is complete: once add_block returns, every block it was ever   *)
(* given whose parent is in the tree is in the tree too.  With             *)
(* TreeIsClosed, what a node knows depends on which blocks arrived and not *)
(* on their order.                                                         *)
TreeIsComplete ==
    pending = {} =>
        \A b \in received : b.pow /\ HeightFits(blocks, b) => b \in blocks

(* The orphan lists and the set of orphan hashes agree, and a stored       *)
(* orphan really waits: its parent is not in the tree.  A hash left behind *)
(* would turn the block away as a duplicate for ever.                      *)
OrphansWait ==
    /\ orphan_hashes = HashesOf(orphans)
    /\ \A o \in orphans : ~ParentKnown(blocks, o)

(* The inductive invariant: the above, with two facts it needs.  Every     *)
(* block of the tree, not only the tip, is reached by a path from height   *)
(* 0, which is what lets the walk of a reorganisation end.  And while      *)
(* add_block runs, a block it was given is stored, waits as an orphan, is  *)
(* still queued or was refused for its height.                             *)
PathsExist ==
    \A b \in blocks : \E chain \in [0..b.height -> blocks] : IsPath(blocks, chain, b)

NothingDropped ==
    \A b \in received :
        b.pow => \/ b \in blocks \cup orphans \cup pending
                 \/ ParentKnown(blocks, b) /\ ~HeightFits(blocks, b)

IInv ==
    /\ TypeOK
    /\ TreeIsClosed
    /\ PathsExist
    /\ IsPath(blocks, main_chain, tip)
    /\ TipIsBest
    /\ NoTransactionLost
    /\ OrphansWait

(* Each change of tip leaves exactly the accepted transactions that the    *)
(* new main chain does not hold in the mempool.                            *)
TipChangeSettlesMempool ==
    [][tip' # tip => mempool' = transactions' \ ChainTxs(main_chain')]_vars

(* The work queue empties: add_block returns. *)
AddBlockReturns == []<>(pending = {})

(* chain.py:101 describes the mempool as the "known pending transaction    *)
(* not yet on the chain".  add_transaction does not look at the chain.     *)
MempoolNotOnMainChain == mempool \cap ChainTxs(main_chain) = {}

--------------------------------------------------------------------------------

(* Fork choice over a growing set of blocks, which this module implements. *)
Choice == INSTANCE ForkChoice WITH known <- blocks, best <- tip

ImplementsForkChoice == Choice!Spec
===============================================================================
