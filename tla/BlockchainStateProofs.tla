-------------------------- MODULE BlockchainStateProofs --------------------------
(***************************************************************************)
(* What holds of the consensus state of a node for every set of blocks and *)
(* transactions.  IInv of BlockchainState is inductive; the theorems read  *)
(* the properties off it.                                                  *)
(***************************************************************************)
EXTENDS BlockchainState, ChainRulesProofs, FiniteSetTheorems

LEMMA InitEstablishesIInv == Init => IInv
<1> SUFFICES ASSUME Init PROVE IInv
  OBVIOUS
<1>1. TypeOK
  BY BlocksAssumption DEF Init, TypeOK
<1>2. IsPath(blocks, main_chain, tip)
  BY BlocksAssumption DEF Init, IsPath
<1>3. PathsExist
  <2>1. main_chain \in [0..tip.height -> blocks] /\ blocks = {tip}
    BY <1>2 DEF IsPath, Init
  <2> QED
    BY <1>2, <2>1 DEF PathsExist
<1>4. TreeIsClosed /\ TipIsBest /\ NoTransactionLost /\ OrphansWait
  BY DEF Init, TreeIsClosed, TipIsBest, NoTransactionLost, OrphansWait, HashesOf
<1> QED
  BY <1>1, <1>2, <1>3, <1>4 DEF IInv

LEMMA AddTransactionKeepsIInv ==
    ASSUME IInv, NEW tx \in Txs, AddTransaction(tx)
    PROVE  IInv'
<1>1. UNCHANGED <<blocks, tip, main_chain, orphans, orphan_hashes, pending, received>>
  BY DEF AddTransaction
<1>2. TypeOK' /\ NoTransactionLost'
  BY DEF IInv, AddTransaction, TypeOK, NoTransactionLost
<1>3. TreeIsClosed' /\ TipIsBest' /\ OrphansWait'
  BY <1>1 DEF IInv, TreeIsClosed, TipIsBest, OrphansWait
<1>4. PathsExist' /\ IsPath(blocks, main_chain, tip)'
  BY <1>1 DEF IInv, PathsExist
<1> QED
  BY <1>2, <1>3, <1>4 DEF IInv

(* Steps that leave the tree, the tip and the transactions alone. *)
LEMMA TreeUntouchedKeepsIInv ==
    ASSUME IInv, TypeOK', OrphansWait',
           UNCHANGED <<blocks, tip, main_chain, transactions, mempool>>
    PROVE  IInv'
<1>1. TreeIsClosed' /\ TipIsBest' /\ NoTransactionLost'
  BY DEF IInv, TreeIsClosed, TipIsBest, NoTransactionLost
<1>2. PathsExist' /\ IsPath(blocks, main_chain, tip)'
  BY DEF IInv, PathsExist
<1> QED
  BY <1>1, <1>2 DEF IInv

LEMMA AddBlockKeepsIInv ==
    ASSUME IInv, NEW b \in Blocks, AddBlock(b)
    PROVE  IInv'
<1>1. TypeOK' /\ OrphansWait'
  BY DEF IInv, AddBlock, TypeOK, OrphansWait
<1> QED
  BY <1>1, TreeUntouchedKeepsIInv DEF AddBlock

LEMMA RejectBlockKeepsIInv ==
    ASSUME IInv, NEW b \in pending, RejectBlock(b)
    PROVE  IInv'
<1>1. TypeOK' /\ OrphansWait'
  BY DEF IInv, RejectBlock, TypeOK, OrphansWait
<1> QED
  BY <1>1, TreeUntouchedKeepsIInv DEF RejectBlock

LEMMA StoreOrphanKeepsIInv ==
    ASSUME IInv, NEW b \in pending, StoreOrphan(b)
    PROVE  IInv'
<1>1. b \in Blocks /\ b.hash \in Nat
  BY BlocksAssumption DEF IInv, TypeOK, BlockRecord
<1>2. ~ParentKnown(blocks, b)
  BY DEF StoreOrphan, ValidateBlock
<1>3. TypeOK'
  BY <1>1 DEF IInv, StoreOrphan, TypeOK
<1>4. OrphansWait'
  BY <1>2 DEF IInv, StoreOrphan, OrphansWait, HashesOf, ParentKnown
<1> QED
  BY <1>3, <1>4, TreeUntouchedKeepsIInv DEF StoreOrphan

(* A valid block is new: neither it nor its hash is in the tree. *)
LEMMA ValidBlockIsNew ==
    ASSUME NEW b, ValidateBlock(blocks, orphan_hashes, b) = "valid"
    PROVE  /\ b.hash \notin HashesOf(blocks)
           /\ b.hash \notin orphan_hashes
           /\ b.pow
           /\ HeightFits(blocks, b)
BY DEF ValidateBlock

(* What the tree part of InsertBlock keeps. *)
LEMMA InsertBlockKeepsTree ==
    ASSUME IInv, NEW b \in pending, InsertBlock(b)
    PROVE  /\ blocks' \subseteq Blocks
           /\ TreeIsClosed'
           /\ PathsExist'
<1>1. /\ b.hash \notin HashesOf(blocks)
      /\ b.pow
      /\ HeightFits(blocks, b)
  BY ValidBlockIsNew DEF InsertBlock
<1>2. blocks' = blocks \cup {b} /\ blocks' \subseteq Blocks
  BY DEF IInv, TypeOK, InsertBlock
<1>3. \A c \in blocks' : HeightFits(blocks, c) => HeightFits(blocks', c)
  BY <1>2 DEF HeightFits
<1>4. TreeIsClosed'
  <2>1. \A c \in blocks' \ {Genesis} : c.pow /\ HeightFits(blocks', c)
    BY <1>1, <1>2, <1>3 DEF IInv, TreeIsClosed
  <2>2. \A c, d \in blocks' : c.hash = d.hash => c = d
    BY <1>1, <1>2 DEF IInv, TreeIsClosed, HashesOf
  <2> QED
    BY <2>1, <2>2 DEF TreeIsClosed
<1>5. ASSUME NEW c \in blocks
      PROVE  \E f \in [0..c.height -> blocks'] : IsPath(blocks', f, c)
  <2>1. PICK f \in [0..c.height -> blocks] : IsPath(blocks, f, c)
    BY DEF IInv, PathsExist
  <2>2. f \in [0..c.height -> blocks'] /\ IsPath(blocks', f, c)
    BY <2>1, <1>2, PathSurvivesGrowth
  <2> QED
    BY <2>2
<1>6. \E f \in [0..b.height -> blocks'] : IsPath(blocks', f, b)
  <2>1. PICK p \in blocks : p.hash = b.prev /\ b.height = p.height + 1
    BY <1>1 DEF HeightFits
  <2>2. PICK f \in [0..p.height -> blocks'] : IsPath(blocks', f, p)
    BY <1>5
  <2> QED
    BY <1>2, <2>1, <2>2, PathExtends
<1>7. PathsExist'
  BY <1>2, <1>5, <1>6 DEF PathsExist
<1> QED
  BY <1>2, <1>4, <1>7

(* What the choice of the tip keeps, when the new block becomes the tip... *)
LEMMA NewTipKeepsChoice ==
    ASSUME IInv, NEW b \in pending, InsertBlock(b), IsBetterTip(b, tip)
    PROVE  /\ tip' = b
           /\ IsPath(blocks', main_chain', tip')
           /\ TipIsBest'
           /\ mempool' = transactions' \ ChainTxs(main_chain')
<1>1. /\ tip' = b
      /\ main_chain' = MainChain(blocks', b)
      /\ mempool' = ReconcileMempool(mempool, transactions, main_chain, main_chain')
      /\ transactions' = transactions
      /\ blocks' = blocks \cup {b}
  BY DEF InsertBlock, ChooseTip
<1>2. blocks' \subseteq Blocks /\ TreeIsClosed' /\ PathsExist'
  BY InsertBlockKeepsTree
<1>3. b \in blocks' /\ b.height \in Nat
  BY <1>1, <1>2, BlocksAssumption DEF BlockRecord
<1>4. PICK f : IsPath(blocks', f, b)
  BY <1>2, <1>3 DEF PathsExist
<1>5. \A x, y \in blocks' : x.hash = y.hash => x = y
  BY <1>2 DEF TreeIsClosed
<1>6. main_chain' = f
  BY <1>1, <1>3, <1>4, <1>5, WalkFindsPath
<1>7. TipIsBest'
  <2> SUFFICES ASSUME NEW c \in blocks', c # b PROVE IsBetterTip(b, c)
    BY <1>1 DEF TipIsBest
  <2>1. c \in BlockRecord /\ b \in BlockRecord /\ tip \in BlockRecord
    BY <1>2, <1>3, BlocksAssumption DEF IInv, TypeOK
  <2>2. c = tip \/ IsBetterTip(tip, c)
    BY <1>1 DEF IInv, TipIsBest
  <2> QED
    BY <2>1, <2>2, BetterIsTransitive
<1>8. mempool' = transactions' \ ChainTxs(main_chain')
  BY <1>1 DEF IInv, TypeOK, NoTransactionLost, ReconcileMempool
<1> QED
  BY <1>1, <1>4, <1>6, <1>7, <1>8

(* ... and when it stays on a side branch. *)
LEMMA SideBranchKeepsChoice ==
    ASSUME IInv, NEW b \in pending, InsertBlock(b), ~IsBetterTip(b, tip)
    PROVE  /\ UNCHANGED <<tip, main_chain, mempool>>
           /\ IsPath(blocks', main_chain', tip')
           /\ TipIsBest'
<1>1. UNCHANGED <<tip, main_chain, mempool>> /\ blocks' = blocks \cup {b}
  BY DEF InsertBlock, ChooseTip
<1>2. IsPath(blocks', main_chain', tip')
  BY <1>1, PathSurvivesGrowth DEF IInv
<1>3. IsBetterTip(tip, b)
  <2>1. b \in BlockRecord /\ tip \in BlockRecord /\ tip \in blocks
    BY BlocksAssumption DEF IInv, TypeOK
  <2>2. b.hash # tip.hash
    BY <2>1, ValidBlockIsNew DEF InsertBlock, HashesOf
  <2> QED
    BY <2>1, <2>2, BetterIsTotal
<1>4. TipIsBest'
  BY <1>1, <1>3 DEF IInv, TipIsBest
<1> QED
  BY <1>1, <1>2, <1>4

(* The orphans that are left after InsertBlock still wait. *)
LEMMA InsertBlockKeepsOrphans ==
    ASSUME IInv, NEW b \in pending, InsertBlock(b)
    PROVE  OrphansWait'
<1>1. /\ blocks' = blocks \cup {b}
      /\ orphans' = orphans \ WaitingFor(b)
      /\ orphan_hashes' = orphan_hashes \ HashesOf(WaitingFor(b))
  BY DEF InsertBlock
<1>2. \A o, w \in orphans : o.hash = w.hash => o.prev = w.prev
  BY BlocksAssumption DEF IInv, TypeOK
<1>3. orphan_hashes' = HashesOf(orphans')
  <2>1. orphan_hashes = HashesOf(orphans)
    BY DEF IInv, OrphansWait
  <2>2. \A o \in orphans' : o.hash \notin HashesOf(WaitingFor(b))
    BY <1>1, <1>2 DEF HashesOf, WaitingFor
  <2> QED
    BY <1>1, <2>1, <2>2 DEF HashesOf
<1>4. \A o \in orphans' : ~ParentKnown(blocks', o)
  BY <1>1 DEF IInv, OrphansWait, ParentKnown, HashesOf, WaitingFor
<1> QED
  BY <1>3, <1>4 DEF OrphansWait

LEMMA InsertBlockKeepsIInv ==
    ASSUME IInv, NEW b \in pending, InsertBlock(b)
    PROVE  IInv'
<1>1. blocks' \subseteq Blocks /\ TreeIsClosed' /\ PathsExist' /\ OrphansWait'
  BY InsertBlockKeepsTree, InsertBlockKeepsOrphans
<1>2. /\ IsPath(blocks', main_chain', tip')
      /\ TipIsBest'
      /\ mempool' \subseteq transactions'
      /\ NoTransactionLost'
  <2>1. transactions' = transactions
    BY DEF InsertBlock
  <2>2. CASE IsBetterTip(b, tip)
    BY <2>2, NewTipKeepsChoice DEF NoTransactionLost
  <2>3. CASE ~IsBetterTip(b, tip)
    BY <2>1, <2>3, SideBranchKeepsChoice DEF IInv, TypeOK, NoTransactionLost
  <2> QED
    BY <2>2, <2>3
<1>3. tip' \in blocks' /\ DOMAIN main_chain' = 0..tip'.height
  <2>1. tip' = b \/ tip' = tip
    BY NewTipKeepsChoice, SideBranchKeepsChoice
  <2> QED
    BY <1>2, <2>1 DEF IInv, TypeOK, IsPath, InsertBlock
<1>4. TypeOK'
  BY <1>1, <1>2, <1>3 DEF IInv, TypeOK, InsertBlock, WaitingFor
<1> QED
  BY <1>1, <1>2, <1>4 DEF IInv

LEMMA NextKeepsIInv == IInv /\ [Next]_vars => IInv'
<1> SUFFICES ASSUME IInv, [Next]_vars PROVE IInv'
  OBVIOUS
<1>1. CASE \E tx \in Txs : AddTransaction(tx)
  BY <1>1, AddTransactionKeepsIInv
<1>2. CASE \E b \in Blocks : AddBlock(b)
  BY <1>2, AddBlockKeepsIInv
<1>3. CASE Iterate
  BY <1>3, InsertBlockKeepsIInv, StoreOrphanKeepsIInv, RejectBlockKeepsIInv DEF Iterate
<1>4. CASE UNCHANGED vars
  <2>1. TypeOK' /\ OrphansWait'
    BY <1>4 DEF IInv, vars, TypeOK, OrphansWait
  <2> QED
    BY <1>4, <2>1, TreeUntouchedKeepsIInv DEF vars
<1> QED
  BY <1>1, <1>2, <1>3, <1>4 DEF Next

LEMMA Invariance == Spec => []IInv
BY InitEstablishesIInv, NextKeepsIInv, PTL DEF Spec

--------------------------------------------------------------------------------

(* The state of chain.py keeps its types: the tip is in the tree, the      *)
(* index covers the heights up to it, the mempool holds known transactions.*)
THEOREM TypeCorrect == Spec => []TypeOK
BY Invariance, PTL DEF IInv

(* Whatever the order of the blocks, the tip is the best block of the tree.*)
THEOREM TipIsAlwaysBest == Spec => []TipIsBest
BY Invariance, PTL DEF IInv

(* No accepted transaction is lost in a reorganisation. *)
THEOREM NoTransactionIsLost == Spec => []NoTransactionLost
BY Invariance, PTL DEF IInv

(* The tree holds only connected blocks with proof of work. *)
THEOREM TreeIsAlwaysClosed == Spec => []TreeIsClosed
BY Invariance, PTL DEF IInv

(* The orphan lists and the orphan hashes agree; every orphan waits. *)
THEOREM OrphansAlwaysWait == Spec => []OrphansWait
BY Invariance, PTL DEF IInv

(* hash_by_height is the path from genesis to the tip. *)
THEOREM IndexIsAlwaysPath == Spec => []IndexIsPath
<1>1. IInv => IndexIsPath
  <2> SUFFICES ASSUME IInv PROVE main_chain[0] = Genesis
    BY DEF IInv, IndexIsPath
  <2>1. tip.height \in Nat /\ blocks \subseteq BlockRecord
    BY BlocksAssumption DEF IInv, TypeOK, BlockRecord
  <2>2. main_chain[0] \in blocks /\ main_chain[0].height = 0
    BY <2>1 DEF IInv, IsPath
  <2>3. \A c \in blocks : HeightFits(blocks, c) => c.height # 0
    BY <2>1 DEF HeightFits, BlockRecord
  <2> QED
    BY <2>2, <2>3 DEF IInv, TreeIsClosed
<1> QED
  BY <1>1, Invariance, PTL

(* Each change of tip leaves exactly the unmined transactions in the       *)
(* mempool.                                                                *)
THEOREM TipChangeAlwaysSettlesMempool == Spec => TipChangeSettlesMempool
<1>1. IInv /\ [Next]_vars =>
        [tip' # tip => mempool' = transactions' \ ChainTxs(main_chain')]_vars
  <2> SUFFICES ASSUME IInv, Next, tip' # tip
               PROVE  mempool' = transactions' \ ChainTxs(main_chain')
    OBVIOUS
  <2>1. PICK b \in pending : InsertBlock(b)
    BY DEF Next, AddTransaction, AddBlock, Iterate, StoreOrphan, RejectBlock
  <2>2. IsBetterTip(b, tip)
    BY <2>1 DEF InsertBlock, ChooseTip
  <2> QED
    BY <2>1, <2>2, NewTipKeepsChoice
<1> QED
  BY <1>1, Invariance, PTL DEF Spec, TipChangeSettlesMempool

(* The consensus state of chain.py implements fork choice: it starts with  *)
(* genesis, each inserted block is one step that learns it and moves to    *)
(* the best known block, and nothing else touches the tree or the tip.     *)
THEOREM StateImplementsForkChoice == Spec => ImplementsForkChoice
<1>1. Init => Choice!Init
  BY DEF Init, Choice!Init
<1>2. IInv /\ IInv' /\ [Next]_vars => [Choice!Next]_<<blocks, tip>>
  <2> SUFFICES ASSUME IInv, IInv', [Next]_vars
               PROVE  Choice!Next \/ UNCHANGED <<blocks, tip>>
    OBVIOUS
  <2>1. ASSUME NEW b \in pending, InsertBlock(b) PROVE Choice!Next
    <3>1. b \in Blocks
      BY DEF IInv, TypeOK
    <3>2. /\ b.hash \notin HashesOf(blocks)
          /\ b.pow
          /\ HeightFits(blocks, b)
          /\ blocks' = blocks \cup {b}
      BY <2>1, ValidBlockIsNew DEF InsertBlock
    <3>3. tip' \in blocks' /\ \A c \in blocks' : c = tip' \/ IsBetterTip(tip', c)
      BY DEF IInv, TypeOK, TipIsBest
    <3> QED
      BY <3>1, <3>2, <3>3
         DEF Choice!Next, Choice!Learn, Choice!HashesOf, Choice!HeightFits,
             Choice!IsBetterTip, HashesOf, HeightFits, IsBetterTip
  <2> QED
    BY <2>1 DEF Next, AddTransaction, AddBlock, Iterate, StoreOrphan, RejectBlock, vars
<1> QED
  BY <1>1, <1>2, Invariance, PTL DEF Spec, ImplementsForkChoice, Choice!Spec

--------------------------------------------------------------------------------

(* With one declared height per hash nothing add_block was given gets      *)
(* dropped on the way through the orphan lists and the queue.              *)
LEMMA NextKeepsNothingDropped ==
    ASSUME OneHeightPerHash, IInv, IInv', NothingDropped, [Next]_vars
    PROVE  NothingDropped'
<1>1. ASSUME NEW tx \in Txs, AddTransaction(tx) PROVE NothingDropped'
  BY <1>1 DEF AddTransaction, NothingDropped
<1>2. ASSUME NEW b \in Blocks, AddBlock(b) PROVE NothingDropped'
  BY <1>2 DEF AddBlock, NothingDropped
<1>3. ASSUME NEW b \in pending, StoreOrphan(b) PROVE NothingDropped'
  BY <1>3 DEF StoreOrphan, NothingDropped
<1>4. ASSUME NEW b \in pending, RejectBlock(b) PROVE NothingDropped'
  <2>1. b.pow => \/ b \in blocks \cup orphans
                 \/ ParentKnown(blocks, b) /\ ~HeightFits(blocks, b)
    BY <1>4 DEF RejectBlock, ValidateBlock, IInv, TypeOK, OrphansWait,
                HashesOf, OneHeightPerHash
  <2> QED
    BY <1>4, <2>1 DEF RejectBlock, NothingDropped
<1>5. ASSUME NEW b \in pending, InsertBlock(b) PROVE NothingDropped'
  <2> SUFFICES ASSUME NEW c \in received, c.pow,
                      ParentKnown(blocks, c), ~HeightFits(blocks, c)
               PROVE  ParentKnown(blocks', c) /\ ~HeightFits(blocks', c)
    BY <1>5 DEF NothingDropped, InsertBlock, WaitingFor
  <2>1. blocks' = blocks \cup {b} /\ \A x, y \in blocks' : x.hash = y.hash => x = y
    BY <1>5 DEF InsertBlock, IInv, TreeIsClosed
  <2> QED
    BY <2>1 DEF ParentKnown, HeightFits, HashesOf
<1>6. ASSUME UNCHANGED vars PROVE NothingDropped'
  BY <1>6 DEF vars, NothingDropped
<1> QED
  BY <1>1, <1>2, <1>3, <1>4, <1>5, <1>6 DEF Next, Iterate

(* Order of arrival does not matter: once add_block returns, the tree      *)
(* holds every block the node was given that connects to it.               *)
THEOREM TreeIsAlwaysComplete == OneHeightPerHash => (Spec => []TreeIsComplete)
<1> SUFFICES ASSUME OneHeightPerHash PROVE Spec => []TreeIsComplete
  OBVIOUS
<1>1. Init => NothingDropped
  BY DEF Init, NothingDropped
<1>2. IInv /\ IInv' /\ NothingDropped /\ [Next]_vars => NothingDropped'
  BY NextKeepsNothingDropped
<1>3. IInv /\ NothingDropped => TreeIsComplete
  BY DEF IInv, NothingDropped, TreeIsComplete, OrphansWait, HeightFits,
         ParentKnown, HashesOf
<1> QED
  BY <1>1, <1>2, <1>3, Invariance, PTL DEF Spec

(* The whole main chain of a peer up to b was received, in any order and   *)
(* with anything in between.                                               *)
ChainArrived(b) ==
    \E f : /\ IsPath(received \cup {Genesis}, f, b)
           /\ f[0] = Genesis
           /\ \A h \in 1..b.height : f[h].pow

KeepsUp ==
    pending = {} =>
        \A b \in Blocks : ChainArrived(b) => b \in blocks /\ (b = tip \/ IsBetterTip(tip, b))

(* What makes catching up work: a node that was sent the whole main chain  *)
(* of a peer, in whatever order its blocks came, stands on the tip of that *)
(* chain or on a better one.  Two nodes that have sent each other theirs   *)
(* therefore stand on the same tip, as fork choice is total.               *)
THEOREM CatchingUpWorks == OneHeightPerHash => (Spec => []KeepsUp)
<1> SUFFICES ASSUME OneHeightPerHash PROVE Spec => []KeepsUp
  OBVIOUS
<1>1. ASSUME IInv, IndexIsPath, TreeIsComplete, pending = {}, NEW b \in Blocks,
             ChainArrived(b)
      PROVE  b \in blocks /\ (b = tip \/ IsBetterTip(tip, b))
  <2>1. PICK f : /\ IsPath(received \cup {Genesis}, f, b)
                 /\ f[0] = Genesis
                 /\ \A h \in 1..b.height : f[h].pow
    BY <1>1 DEF ChainArrived
  <2>2. received \cup {Genesis} \subseteq BlockRecord /\ blocks \subseteq BlockRecord
    BY <1>1, BlocksAssumption DEF IInv, TypeOK
  <2>3. /\ b.height \in Nat
        /\ \A h \in 0..b.height : f[h] \in received \cup {Genesis} /\ f[h].height = h
        /\ \A h \in 1..b.height : f[h].prev = f[h - 1].hash
        /\ f[b.height] = b
    <3>1. b.height \in Nat
      BY BlocksAssumption DEF BlockRecord
    <3> QED
      BY <2>1, <3>1 DEF IsPath
  <2>4. Genesis \in blocks /\ Genesis.height = 0
    <3>1. tip.height \in Nat
      BY <1>1, <2>2 DEF IInv, TypeOK, BlockRecord
    <3> QED
      BY <1>1, <3>1, BlocksAssumption DEF IndexIsPath, IsPath
  <2> DEFINE Missing == {h \in 0..b.height : f[h] \notin blocks}
  <2>5. Missing = {}
    <3> SUFFICES ASSUME Missing # {} PROVE FALSE
      OBVIOUS
    <3>1. Missing \subseteq Nat
      OBVIOUS
    <3>2. PICK h \in Missing : \A k \in Missing : h <= k
      <4> HIDE DEF Missing
      <4> QED
        BY <3>1, LeastElement
    <3>3. h \in 1..b.height /\ h - 1 \in 0..b.height /\ (h - 1) + 1 = h
      BY <2>1, <2>3, <2>4, <3>2
    <3>4. f[h - 1] \in blocks
      BY <3>2, <3>3
    <3>5. f[h] \in received /\ f[h].pow /\ HeightFits(blocks, f[h])
      BY <2>1, <2>3, <2>4, <3>3, <3>4 DEF HeightFits
    <3> QED
      BY <1>1, <3>2, <3>5 DEF TreeIsComplete
  <2>6. b \in blocks
    BY <2>3, <2>5
  <2> QED
    BY <1>1, <2>6 DEF IInv, TipIsBest
<1>2. IInv /\ IndexIsPath /\ TreeIsComplete => KeepsUp
  BY <1>1 DEF KeepsUp
<1> QED
  BY <1>2, Invariance, IndexIsAlwaysPath, TreeIsAlwaysComplete, PTL

--------------------------------------------------------------------------------
(* The loop of add_block uses up what there is to do.                      *)

Held == pending \cup orphans

HeldIsFinite == IsFiniteSet(pending) /\ IsFiniteSet(orphans)

(* An iteration leaves fewer blocks waiting, or as many and fewer of them  *)
(* in the queue.                                                           *)
LessToDo ==
    /\ {Cardinality(Held), Cardinality(Held)', Cardinality(pending), Cardinality(pending)'}
          \subseteq Nat
    /\ \/ Cardinality(Held)' < Cardinality(Held)
       \/ Held' = Held /\ Cardinality(pending)' < Cardinality(pending)

LEMMA NextKeepsHeldFinite == HeldIsFinite /\ [Next]_vars => HeldIsFinite'
<1> SUFFICES ASSUME HeldIsFinite, [Next]_vars PROVE HeldIsFinite'
  OBVIOUS
<1>1. ASSUME NEW b \in pending, InsertBlock(b) PROVE HeldIsFinite'
  <2>1. orphans' \subseteq orphans /\ pending' \subseteq pending \cup orphans
    BY <1>1 DEF InsertBlock, WaitingFor
  <2>2. IsFiniteSet(pending \cup orphans)
    BY FS_Union DEF HeldIsFinite
  <2> QED
    BY <2>1, <2>2, FS_Subset DEF HeldIsFinite
<1>2. ASSUME NEW b \in pending, StoreOrphan(b) PROVE HeldIsFinite'
  <2>1. orphans' = orphans \cup {b} /\ pending' = pending \ {b}
    BY <1>2 DEF StoreOrphan
  <2> QED
    BY <2>1, FS_AddElement, FS_RemoveElement DEF HeldIsFinite
<1>3. ASSUME NEW b \in pending, RejectBlock(b) PROVE HeldIsFinite'
  <2>1. orphans' = orphans /\ pending' = pending \ {b}
    BY <1>3 DEF RejectBlock
  <2> QED
    BY <2>1, FS_RemoveElement DEF HeldIsFinite
<1>4. ASSUME NEW b \in Blocks, AddBlock(b) PROVE HeldIsFinite'
  <2>1. orphans' = orphans /\ pending' = {b}
    BY <1>4 DEF AddBlock
  <2> QED
    BY <2>1, FS_Singleton DEF HeldIsFinite
<1>5. CASE \/ \E tx \in Txs : AddTransaction(tx)
           \/ UNCHANGED vars
  BY <1>5 DEF AddTransaction, vars, HeldIsFinite
<1> QED
  BY <1>1, <1>2, <1>3, <1>4, <1>5 DEF Next, Iterate

LEMMA IterationsShrink ==
    ASSUME IInv, HeldIsFinite, HeldIsFinite', Iterate
    PROVE  LessToDo
<1>1. IsFiniteSet(Held) /\ IsFiniteSet(Held')
  BY FS_Union DEF Held, HeldIsFinite
<1>2. /\ Cardinality(Held) \in Nat /\ Cardinality(Held') \in Nat
      /\ Cardinality(pending) \in Nat /\ Cardinality(pending') \in Nat
  BY <1>1, FS_CardinalityType DEF HeldIsFinite
<1>3. ASSUME NEW b \in pending, InsertBlock(b) PROVE LessToDo
  <2>1. b \notin orphans
    <3>1. ParentKnown(blocks, b)
      BY <1>3 DEF InsertBlock, ValidateBlock
    <3> QED
      BY <3>1 DEF IInv, OrphansWait
  <2>2. Held' = Held \ {b} /\ b \in Held
    BY <1>3, <2>1 DEF InsertBlock, WaitingFor, Held
  <2>3. Cardinality(Held') = Cardinality(Held) - 1
    BY <1>1, <2>2, FS_RemoveElement
  <2> QED
    BY <1>2, <2>3 DEF LessToDo
<1>4. ASSUME NEW b \in pending, StoreOrphan(b) \/ RejectBlock(b) PROVE LessToDo
  <2>1. pending' = pending \ {b}
    BY <1>4 DEF StoreOrphan, RejectBlock
  <2>2. Cardinality(pending') = Cardinality(pending) - 1
    BY <2>1, FS_RemoveElement DEF HeldIsFinite
  <2>3. Held' = Held \/ (Held' = Held \ {b} /\ b \in Held)
    BY <1>4 DEF StoreOrphan, RejectBlock, Held
  <2>4. Held' # Held => Cardinality(Held') = Cardinality(Held) - 1
    BY <1>1, <2>3, FS_RemoveElement
  <2> QED
    BY <1>2, <2>2, <2>4 DEF LessToDo
<1> QED
  BY <1>3, <1>4 DEF Iterate

(* The safety half of AddBlockReturns: no iteration of the loop over the   *)
(* work queue of add_block, however many orphans attach to orphans, makes  *)
(* more to do.  A block leaves the queue for the tree, for the orphans or  *)
(* for good, so that the number of blocks that wait, and then the number   *)
(* of those in the queue, gets smaller, which it cannot do for ever.       *)
THEOREM AddBlockUsesUpItsQueue == Spec => [][Iterate => LessToDo]_vars
<1>1. Init => HeldIsFinite
  BY FS_EmptySet DEF Init, HeldIsFinite
<1>2. IInv /\ HeldIsFinite /\ HeldIsFinite' /\ [Next]_vars => [Iterate => LessToDo]_vars
  BY IterationsShrink
<1> QED
  BY <1>1, <1>2, NextKeepsHeldFinite, Invariance, PTL DEF Spec
================================================================================
