----------------------------- MODULE ChainRulesProofs -----------------------------
(***************************************************************************)
(* Facts about the rules of chain.py that the proofs about the state of    *)
(* one node and about the network rest on: the walk back from a block      *)
(* finds the path to it, and fork choice is a strict total order.          *)
(***************************************************************************)
EXTENDS ChainRules, WellFoundedInduction, TLAPS

(* A non-empty set of natural numbers has a least element. *)
LEMMA LeastElement ==
    ASSUME NEW T, T \subseteq Nat, T # {}
    PROVE  \E x \in T : \A y \in T : x <= y
<1>1. \E x \in T : \A y \in T : <<y, x>> \notin OpToRel(<, Nat)
  BY WFMin, NatLessThanWellFounded
<1>2. \A x, y \in T : y < x => <<y, x>> \in OpToRel(<, Nat)
  BY DEF OpToRel
<1>3. \A x, y \in T : x <= y \/ y < x
  OBVIOUS
<1> QED
  BY <1>1, <1>2, <1>3

(* In a tree without two blocks of one hash, the parent that a lookup      *)
(* finds is the only block with that hash.                                 *)
LEMMA ParentIsUnique ==
    ASSUME NEW bs, NEW b, NEW p \in bs, p.hash = b.prev,
           \A x, y \in bs : x.hash = y.hash => x = y
    PROVE  ParentOf(bs, b) = p
BY DEF ParentOf

(* The walk of _rebuild_main_chain_index finds the path to the block it    *)
(* starts from.                                                            *)
LEMMA WalkFindsPath ==
    ASSUME NEW bs, NEW b \in bs, b.height \in Nat, NEW f, IsPath(bs, f, b),
           \A x, y \in bs : x.hash = y.hash => x = y
    PROVE  MainChain(bs, b) = f
<1> DEFINE n == b.height
           Walks(g) == g = [h \in 0..n |-> IF h = n THEN b ELSE ParentOf(bs, g[h + 1])]
           g == CHOOSE walk : Walks(walk)
<1>1. f = [h \in 0..n |-> f[h]] /\ f[n] = b
  BY DEF IsPath
<1>2. \A h \in 0..n : h # n => f[h] = ParentOf(bs, f[h + 1])
  <2> SUFFICES ASSUME NEW h \in 0..n, h # n
               PROVE  f[h] = ParentOf(bs, f[h + 1])
    OBVIOUS
  <2>1. h + 1 \in 1..n /\ (h + 1) - 1 = h
    OBVIOUS
  <2>2. f[h + 1].prev = f[h].hash /\ f[h] \in bs
    BY <2>1 DEF IsPath
  <2> QED
    BY <2>2, ParentIsUnique
<1>3. Walks(f)
  BY <1>1, <1>2
<1>4. Walks(g)
  BY <1>3
<1> HIDE DEF g
<1>5. \A k \in 0..n : g[n - k] = f[n - k]
  <2> DEFINE T == {k \in 0..n : g[n - k] # f[n - k]}
  <2> SUFFICES ASSUME T # {} PROVE FALSE
    OBVIOUS
  <2>0. T \subseteq Nat
    OBVIOUS
  <2>1. PICK k \in T : \A j \in T : k <= j
    <3> HIDE DEF T
    <3> QED
      BY <2>0, LeastElement
  <2>2. n \in 0..n /\ g[n] = b
    BY <1>4
  <2>3. k # 0
    BY <2>2, <1>1
  <2>4. k - 1 \in 0..n /\ k - 1 \notin T /\ n - (k - 1) = (n - k) + 1
    BY <2>1, <2>3
  <2>5. g[(n - k) + 1] = f[(n - k) + 1]
    BY <2>4
  <2>6. n - k \in 0..n /\ n - k # n
    BY <2>3
  <2>7. g[n - k] = ParentOf(bs, g[(n - k) + 1])
    BY <2>6, <1>4
  <2>8. f[n - k] = ParentOf(bs, f[(n - k) + 1])
    BY <2>6, <1>2
  <2> QED
    BY <2>5, <2>7, <2>8
<1>6. \A h \in 0..n : g[h] = f[h]
  <2> TAKE h \in 0..n
  <2>1. n - h \in 0..n /\ n - (n - h) = h
    OBVIOUS
  <2> QED
    BY <2>1, <1>5
<1>7. g = f
  BY <1>1, <1>4, <1>6
<1>8. MainChain(bs, b) = g
  BY DEF MainChain, g
<1> QED
  BY <1>7, <1>8

--------------------------------------------------------------------------------

(* Fork choice is a strict total order on blocks of different hashes. *)
LEMMA BetterIsTransitive ==
    ASSUME NEW a \in BlockRecord, NEW b \in BlockRecord, NEW c \in BlockRecord,
           IsBetterTip(a, b), IsBetterTip(b, c)
    PROVE  IsBetterTip(a, c)
BY DEF IsBetterTip, BlockRecord

LEMMA BetterIsTotal ==
    ASSUME NEW a \in BlockRecord, NEW b \in BlockRecord,
           a.hash # b.hash, ~IsBetterTip(a, b)
    PROVE  IsBetterTip(b, a)
BY DEF IsBetterTip, BlockRecord

LEMMA BetterIsAsymmetric ==
    ASSUME NEW a \in BlockRecord, NEW b \in BlockRecord, IsBetterTip(a, b)
    PROVE  ~IsBetterTip(b, a)
BY DEF IsBetterTip, BlockRecord

(* A path stays a path when the tree grows. *)
LEMMA PathSurvivesGrowth ==
    ASSUME NEW bs, NEW bs2, bs \subseteq bs2, NEW f, NEW b, IsPath(bs, f, b)
    PROVE  IsPath(bs2, f, b)
BY DEF IsPath

(* The path to a parent, one block longer, is the path to the child. *)
LEMMA PathExtends ==
    ASSUME NEW bs \in SUBSET Blocks, NEW b \in bs, NEW p \in bs,
           p.hash = b.prev, b.height = p.height + 1,
           NEW f, IsPath(bs, f, p)
    PROVE  \E g \in [0..b.height -> bs] : IsPath(bs, g, b)
<1> DEFINE g == [h \in 0..b.height |-> IF h = b.height THEN b ELSE f[h]]
<1>1. b.height \in Nat /\ p.height \in Nat
  BY BlocksAssumption DEF BlockRecord
<1>2. \A h \in 0..b.height : h # b.height => h \in 0..p.height
  BY <1>1
<1>3. g \in [0..b.height -> bs]
  BY <1>2 DEF IsPath
<1>4. g[b.height] = b
  BY <1>1
<1>5. \A h \in 0..b.height : g[h].height = h
  BY <1>2 DEF IsPath
<1>6. \A h \in 1..b.height : g[h].prev = g[h - 1].hash
  <2> SUFFICES ASSUME NEW h \in 1..b.height PROVE g[h].prev = g[h - 1].hash
    OBVIOUS
  <2>1. g[h - 1] = f[h - 1]
    BY <1>1
  <2>2. CASE h = b.height
    <3>1. g[h] = b /\ f[h - 1] = p
      BY <1>1, <2>2 DEF IsPath
    <3> QED
      BY <3>1, <2>1
  <2>3. CASE h # b.height
    <3>1. h \in 1..p.height /\ g[h] = f[h]
      BY <1>1, <2>3
    <3> QED
      BY <3>1, <2>1 DEF IsPath
  <2> QED
    BY <2>2, <2>3
<1> QED
  <2>1. IsPath(bs, g, b)
    <3> HIDE DEF g
    <3> QED
      BY <1>3, <1>4, <1>5, <1>6 DEF IsPath
  <2> QED
    BY <1>3, <2>1

--------------------------------------------------------------------------------

(* Two nodes that know the same blocks have the same tip, and so the same  *)
(* main chain: the reason why exchanging blocks is all that the catch-up   *)
(* of community.py has to do.                                              *)
THEOREM SameTreeSameTip ==
    ASSUME NEW tree \in SUBSET Blocks,
           \A x, y \in tree : x.hash = y.hash => x = y,
           NEW t1 \in tree, \A b \in tree : b = t1 \/ IsBetterTip(t1, b),
           NEW t2 \in tree, \A b \in tree : b = t2 \/ IsBetterTip(t2, b)
    PROVE  t1 = t2 /\ MainChain(tree, t1) = MainChain(tree, t2)
<1>1. t1 \in BlockRecord /\ t2 \in BlockRecord
  BY BlocksAssumption
<1>2. t1 = t2
  BY <1>1, BetterIsAsymmetric
<1> QED
  BY <1>2
================================================================================
