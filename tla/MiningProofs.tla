------------------------------ MODULE MiningProofs ------------------------------
(***************************************************************************)
(* Mining ends by itself, for any number of nodes, submissions, losses and *)
(* required confirmations, and whatever the bound on heights.              *)
(*                                                                         *)
(* A node is handed a transaction once for each submission, by the server  *)
(* or the node it was submitted to, and once for each teammate that hears  *)
(* of it and passes it on.  Only that puts a transaction into a mempool    *)
(* whose main chain may hold it already; so each block with transactions   *)
(* can be charged to a handover, no two blocks of one chain to the same.   *)
(* On a block with transactions come at most as many as are required to    *)
(* confirm it.  Hence the bound.                                           *)
(*                                                                         *)
(* Which handover put a transaction there, and which one a block is        *)
(* charged to, is history that the state does not keep: the invariant says *)
(* that there is such a history.                                           *)
(***************************************************************************)
EXTENDS BlockchainNetworkProofs, FiniteSetTheorems

(* The blocks from genesis to b. *)
Line(tree, b) == LET c == MainChain(tree, b) IN {c[h] : h \in 0..b.height}

LEMMA LineIsPath ==
    ASSUME NEW tree \in SUBSET Blocks, TreeInv(tree), NEW b \in tree
    PROVE  /\ Line(tree, b) \subseteq tree /\ b \in Line(tree, b)
           /\ \A c \in Line(tree, b) : c.height \in 0..b.height
           /\ ChainTxs(MainChain(tree, b)) = UNION {c.txs : c \in Line(tree, b)}
<1> DEFINE f == MainChain(tree, b)
<1>1. IsPath(tree, f, b) /\ b.height \in Nat
  BY MainChainIsPath, BlocksAssumption DEF BlockRecord
<1>2. Line(tree, b) = {f[h] : h \in 0..b.height}
  BY DEF Line
<1> HIDE DEF f
<1>3. DOMAIN f = 0..b.height /\ b.height \in 0..b.height
  BY <1>1 DEF IsPath
<1>4. ChainTxs(f) = UNION {c.txs : c \in Line(tree, b)}
  BY <1>2, <1>3 DEF ChainTxs
<1>5. \A c \in Line(tree, b) : c \in tree /\ c.height \in 0..b.height
  BY <1>1, <1>2 DEF IsPath
<1>6. b \in Line(tree, b)
  BY <1>1, <1>2, <1>3 DEF IsPath
<1> QED
  BY <1>4, <1>5, <1>6 DEF f

LEMMA LineStays ==
    ASSUME NEW tree \in SUBSET Blocks, TreeInv(tree), NEW b \in tree,
           NEW more \in SUBSET Blocks, TreeInv(more), tree \subseteq more
    PROVE  Line(more, b) = Line(tree, b)
BY MainChainSurvivesGrowth DEF Line

(* The line of a child is that of its parent, and the child. *)
LEMMA LineGrows ==
    ASSUME NEW tree \in SUBSET Blocks, TreeInv(tree), NEW p \in tree, NEW b \in tree,
           p.hash = b.prev, b.height = p.height + 1
    PROVE  Line(tree, b) = Line(tree, p) \cup {b}
<1> DEFINE f == MainChain(tree, b)
           g == [h \in 0..p.height |-> f[h]]
<1>1. IsPath(tree, f, b) /\ p.height \in Nat
  BY MainChainIsPath, BlocksAssumption DEF BlockRecord
<1>2. Line(tree, b) = {f[h] : h \in 0..b.height}
  BY DEF Line
<1> HIDE DEF f
<1>3. 0..b.height = 0..p.height \cup {b.height} /\ b.height \in 1..b.height
      /\ b.height - 1 = p.height
  BY <1>1
<1>4. f[p.height] = p
  <2>1. f[b.height].prev = f[b.height - 1].hash /\ f[b.height] = b
    BY <1>1, <1>3 DEF IsPath
  <2>2. f[p.height] \in tree /\ f[p.height].hash = p.hash
    BY <1>1, <1>3, <2>1 DEF IsPath
  <2> QED
    BY <2>2 DEF TreeInv
<1>5. IsPath(tree, g, p)
  <2>1. \A h \in 1..p.height : h \in 1..b.height /\ h - 1 \in 0..p.height /\ h \in 0..p.height
    BY <1>1
  <2>2. p.height \in 0..p.height
    BY <1>1
  <2> QED
    BY <1>1, <1>3, <1>4, <2>1, <2>2 DEF IsPath
<1> HIDE DEF g
<1>6. MainChain(tree, p) = g
  BY <1>1, <1>5, WalkFindsPath DEF TreeInv
<1>7. Line(tree, p) = {g[h] : h \in 0..p.height}
  BY <1>6 DEF Line
<1>8. Line(tree, p) = {f[h] : h \in 0..p.height}
  BY <1>7 DEF g
<1>9. f[b.height] = b
  BY <1>1 DEF IsPath
<1> QED
  BY <1>2, <1>3, <1>8, <1>9

(* The walk for confirmations ends at a copy of the transaction. *)
LEMMA LastCopy ==
    ASSUME NEW tree \in SUBSET Blocks, TreeInv(tree), NEW tip \in tree,
           NEW tx \in ChainTxs(MainChain(tree, tip))
    PROVE  \E c \in Line(tree, tip) :
              tx \in c.txs /\ Confirmations(MainChain(tree, tip), tip, tx) = tip.height - c.height
<1> DEFINE f == MainChain(tree, tip)
           T == {h \in Nat : h <= tip.height /\ tx \in f[tip.height - h].txs}
           Last(h) == tx \in f[h].txs /\ \A k \in DOMAIN f : tx \in f[k].txs => k <= h
<1>1. IsPath(tree, f, tip) /\ tip.height \in Nat
  BY MainChainIsPath, BlocksAssumption DEF BlockRecord
<1>2. Line(tree, tip) = {f[h] : h \in 0..tip.height} /\ tx \in ChainTxs(f)
  BY DEF Line
<1>3. Confirmations(f, tip, tx) = tip.height - CHOOSE h \in DOMAIN f : Last(h)
  BY <1>2 DEF Confirmations
<1> HIDE DEF f
<1>4. DOMAIN f = 0..tip.height
  BY <1>1 DEF IsPath
<1>5. PICK k \in 0..tip.height : tx \in f[k].txs
  BY <1>2, <1>4 DEF ChainTxs
<1>6. tip.height - k \in T
  <2>1. tip.height - (tip.height - k) = k /\ tip.height - k \in Nat /\ tip.height - k <= tip.height
    BY <1>1
  <2> QED
    BY <1>5, <2>1
<1>7. PICK l \in T : \A j \in T : l <= j
  <2>1. T \subseteq Nat /\ T # {}
    BY <1>6
  <2> HIDE DEF T
  <2> QED
    BY <2>1, LeastElement
<1>8. Last(tip.height - l) /\ tip.height - l \in DOMAIN f
  <2>1. l \in Nat /\ l <= tip.height /\ tx \in f[tip.height - l].txs
    BY <1>7
  <2>2. ASSUME NEW j \in DOMAIN f, tx \in f[j].txs
        PROVE  j <= tip.height - l
    <3>1. j \in Nat /\ j <= tip.height
      BY <1>1, <1>4
    <3>2. tip.height - (tip.height - j) = j /\ tip.height - j \in Nat
      BY <1>1, <3>1
    <3>3. tip.height - j \in T
      BY <1>1, <2>2, <3>1, <3>2
    <3>4. l <= tip.height - j
      BY <1>7, <3>3
    <3> QED
      BY <1>1, <2>1, <3>1, <3>4
  <2>3. tip.height - l \in 0..tip.height
    BY <1>1, <2>1
  <2> QED
    BY <1>4, <2>1, <2>2, <2>3
<1> HIDE DEF T
<1>9. PICK h \in DOMAIN f : Last(h) /\ Confirmations(f, tip, tx) = tip.height - h
  BY <1>3, <1>8
<1>10. f[h].height = h /\ f[h] \in Line(tree, tip)
  BY <1>1, <1>2, <1>4, <1>9 DEF IsPath
<1> QED
  BY <1>9, <1>10 DEF f

--------------------------------------------------------------------------------
(* Handovers and what is charged to them.                                  *)

(* <<<<n, p>>, k>>: n is handed the transaction of the k-th submission, by *)
(* p passing it on or, when p is n, by the server or the node that it was  *)
(* submitted to.                                                           *)
Handovers(count) == Hops \X (1..count)
Receiver(h) == h[1][1]
Giver(h) == h[1][2]
Submission(h) == h[2]
PassedOn(h) == Receiver(h) # Giver(h)

Filled(tree) == {b \in tree : b.txs # {}}

(* Nothing below b, and not b, is charged to h. *)
Unspent(tree, by, h, b) == \A c \in Line(tree, b) : c.txs # {} => by[c] # h

(* Each block with transactions is charged to a handover of one of them,   *)
(* no two blocks of a line to the same.  what tells which transaction was  *)
(* submitted k-th.                                                         *)
Charged(tree, what, used, by) ==
    /\ by \in [Filled(tree) -> used]
    /\ \A b \in Filled(tree) : what[Submission(by[b])] \in b.txs
    /\ \A b \in tree : \A c, d \in Line(tree, b) \cap Filled(tree) : by[c] = by[d] => c = d

(* A level is near when it is that of a block with transactions below it,  *)
(* or one of the levels that confirm that block.                           *)
Near(tree, b, level) ==
    \E c \in Line(tree, b) :
        c.txs # {} /\ c.height <= level /\ level <= c.height + RequiredConfirmations

Dense(tree) == \A b \in tree : \A level \in 1..b.height : Near(tree, b, level)

(* What is charged to handovers does not change while the tree grows. *)
LEMMA UnspentStays ==
    ASSUME NEW tree \in SUBSET Blocks, TreeInv(tree), NEW b \in tree,
           NEW more \in SUBSET Blocks, TreeInv(more), tree \subseteq more,
           NEW by, NEW by2, \A c \in Filled(tree) : by2[c] = by[c], NEW h
    PROVE  Unspent(more, by2, h, b) <=> Unspent(tree, by, h, b)
<1>1. Line(more, b) = Line(tree, b) /\ Line(tree, b) \subseteq tree
  BY LineStays, LineIsPath
<1> QED
  BY <1>1 DEF Unspent, Filled

(* A block on p can be charged to h. *)
Pays(tree, what, used, by, h, b, p) ==
    b.txs # {} =>
        h \in used /\ what[Submission(h)] \in b.txs /\ Unspent(tree, by, h, p)

(* A block whose transactions are charged to something that its parent's   *)
(* line has not spent keeps the tree charged.                              *)
LEMMA ChargedGrows ==
    ASSUME NEW tree \in SUBSET Blocks, TreeInv(tree), NEW b \in Blocks, b \notin tree,
           TreeInv(tree \cup {b}),
           NEW p \in tree, p.hash = b.prev, b.height = p.height + 1,
           NEW what, NEW used, NEW by, Charged(tree, what, used, by), NEW h,
           Pays(tree, what, used, by, h, b, p)
    PROVE  \E by2 : /\ Charged(tree \cup {b}, what, used, by2)
                    /\ \A c \in Filled(tree) : by2[c] = by[c]
<1> DEFINE more == tree \cup {b}
           by2 == [c \in Filled(more) |-> IF c = b THEN h ELSE by[c]]
<1>1. more \in SUBSET Blocks /\ TreeInv(more) /\ tree \subseteq more /\ b \in more /\ p \in more
  OBVIOUS
<1>2. \A c \in more : c = b \/ c \in tree
  OBVIOUS
<1> HIDE DEF more
<1>3. \A c \in Filled(more) : c = b \/ (c \in Filled(tree) /\ c # b)
  BY <1>1, <1>2 DEF Filled
<1>4. \A c \in Filled(tree) : c \in Filled(more) /\ c # b
  BY <1>1 DEF Filled
<1>5. by \in [Filled(tree) -> used] /\ \A c \in Filled(tree) : what[Submission(by[c])] \in c.txs
  BY DEF Charged
<1>6. b \in Filled(more) => h \in used /\ what[Submission(h)] \in b.txs /\ Unspent(tree, by, h, p)
  BY DEF Filled, Pays
<1>7. by2 \in [Filled(more) -> used]
  BY <1>3, <1>5, <1>6
<1>8. \A c \in Filled(tree) : by2[c] = by[c]
  BY <1>4
<1>9. b \in Filled(more) => by2[b] = h
  OBVIOUS
<1> HIDE DEF by2
<1>10. \A c \in Filled(more) : what[Submission(by2[c])] \in c.txs
  BY <1>3, <1>5, <1>6, <1>8, <1>9
<1>11. ASSUME NEW e \in tree, NEW c \in Line(more, e) \cap Filled(more),
              NEW d \in Line(more, e) \cap Filled(more), by2[c] = by2[d]
       PROVE  c = d
  <2>1. Line(more, e) = Line(tree, e) /\ Line(tree, e) \subseteq tree
    BY <1>1, LineStays, LineIsPath
  <2>2. c \in Line(tree, e) \cap Filled(tree) /\ d \in Line(tree, e) \cap Filled(tree)
    BY <2>1 DEF Filled
  <2> QED
    BY <1>8, <1>11, <2>2 DEF Charged
<1>12. ASSUME NEW c \in Line(more, b) \cap Filled(more), NEW d \in Line(more, b) \cap Filled(more),
              by2[c] = by2[d]
       PROVE  c = d
  <2>1. Line(more, b) = Line(tree, p) \cup {b} /\ Line(more, p) = Line(tree, p)
        /\ Line(tree, p) \subseteq tree
    BY <1>1, LineStays, LineGrows, LineIsPath
  <2>2. \A e \in Line(more, b) \cap Filled(more) :
          e = b \/ (e # b /\ e \in Line(tree, p) /\ e \in Filled(tree))
    BY <2>1 DEF Filled
  <2>3. \A e \in Line(more, b) \cap Filled(more) :
          e # b /\ b \in Filled(more) => by2[e] # h
    BY <1>6, <1>8, <2>2 DEF Unspent, Filled
  <2>4. CASE c = b \/ d = b
    BY <1>9, <1>12, <2>3, <2>4
  <2>5. CASE c # b /\ d # b
    <3>1. c \in Line(more, p) \cap Filled(more) /\ d \in Line(more, p) \cap Filled(more)
      BY <2>1, <2>2, <2>5
    <3> QED
      BY <1>11, <1>12, <3>1
  <2> QED
    BY <2>4, <2>5
<1>13. Charged(more, what, used, by2)
  BY <1>2, <1>7, <1>10, <1>11, <1>12 DEF Charged
<1> QED
  BY <1>8, <1>13 DEF more

LEMMA NearStays ==
    ASSUME NEW tree \in SUBSET Blocks, TreeInv(tree), NEW b \in tree,
           NEW more \in SUBSET Blocks, TreeInv(more), tree \subseteq more, NEW level
    PROVE  Near(more, b, level) <=> Near(tree, b, level)
BY LineStays DEF Near

(* A block on the next level after a dense line keeps the tree dense, when *)
(* it has transactions or confirms some.                                   *)
LEMMA DenseGrows ==
    ASSUME setup \in Setups,
           NEW tree \in SUBSET Blocks, TreeInv(tree), NEW b \in Blocks, b \notin tree,
           TreeInv(tree \cup {b}),
           NEW p \in tree, p.hash = b.prev, b.height = p.height + 1,
           Dense(tree), b.txs # {} \/ Near(tree, p, b.height)
    PROVE  Dense(tree \cup {b})
<1> DEFINE more == tree \cup {b}
<1>1. more \in SUBSET Blocks /\ TreeInv(more) /\ tree \subseteq more /\ b \in more /\ p \in more
  OBVIOUS
<1>2. \A c \in more : c = b \/ c \in tree
  OBVIOUS
<1> HIDE DEF more
<1>3. p.height \in Nat /\ b.height \in Nat /\ RequiredConfirmations \in Nat
  BY BlocksAssumption, NetworkAssumption DEF BlockRecord, RequiredConfirmations
<1>4. \A c \in tree : \A level \in 1..c.height : Near(more, c, level)
  BY <1>1, NearStays DEF Dense
<1>5. Line(more, b) = Line(more, p) \cup {b}
  BY <1>1, LineGrows
<1>6. \A level \in 1..p.height : Near(more, b, level)
  BY <1>4, <1>5 DEF Near
<1>7. Near(more, b, b.height)
  <2>1. CASE b.txs # {}
    BY <1>3, <1>5, <2>1 DEF Near
  <2>2. CASE Near(tree, p, b.height)
    <3>1. Near(more, p, b.height)
      BY <1>1, <2>2, NearStays
    <3> QED
      BY <1>5, <3>1 DEF Near
  <2> QED
    BY <2>1, <2>2
<1>8. \A level \in 1..b.height : level \in 1..p.height \/ level = b.height
  BY <1>3
<1>9. Dense(more)
  BY <1>2, <1>4, <1>6, <1>7, <1>8 DEF Dense
<1> QED
  BY <1>9 DEF more

--------------------------------------------------------------------------------
(* Counting.                                                               *)

LEMMA HopsAreFinite ==
    ASSUME IsFiniteSet(Node)
    PROVE  IsFiniteSet(Hops) /\ Cardinality(Hops) \in Nat
<1>1. IsFiniteSet(Node \X Node)
  BY FS_Product
<1>2. Hops \in SUBSET (Node \X Node)
  BY DEF Hops
<1> QED
  BY <1>1, <1>2, FS_Subset, FS_CardinalityType

LEMMA ChargesAreCounted ==
    ASSUME IsFiniteSet(Node), setup \in Setups
    PROVE  LET charges == Handovers(setup.submits) \X (0..RequiredConfirmations)
           IN  /\ IsFiniteSet(charges) /\ Cardinality(charges) = MostBlocks
               /\ MostBlocks \in Nat
<1> DEFINE s == setup.submits
           r == RequiredConfirmations
<1>1. s \in Nat /\ r \in Nat
  BY NetworkAssumption DEF RequiredConfirmations
<1>2. IsFiniteSet(Hops) /\ Cardinality(Hops) \in Nat
  BY HopsAreFinite
<1>3. MostBlocks = Cardinality(Hops) * s * (r + 1)
  BY DEF MostBlocks
<1> HIDE DEF s, r
<1>4. IsFiniteSet(1..s) /\ Cardinality(1..s) = s
  BY <1>1, FS_Interval
<1>5. IsFiniteSet(0..r) /\ Cardinality(0..r) = r + 1
  BY <1>1, FS_Interval
<1>6. IsFiniteSet(Handovers(s)) /\ Cardinality(Handovers(s)) = Cardinality(Hops) * s
  BY <1>2, <1>4, FS_Product DEF Handovers
<1>7. /\ IsFiniteSet(Handovers(s) \X (0..r))
      /\ Cardinality(Handovers(s) \X (0..r)) = (Cardinality(Hops) * s) * (r + 1)
  BY <1>5, <1>6, FS_Product
<1>8. (Cardinality(Hops) * s) * (r + 1) \in Nat
  <2> DEFINE c == Cardinality(Hops)
  <2>1. c \in Nat
    BY <1>2
  <2> HIDE DEF c
  <2>2. \A x, y \in Nat : x * y \in Nat
    OBVIOUS
  <2>3. c * s \in Nat /\ r + 1 \in Nat
    BY <1>1, <2>1, <2>2
  <2>4. (c * s) * (r + 1) \in Nat
    BY <2>2, <2>3
  <2> QED
    BY <2>4 DEF c
<1> QED
  BY <1>3, <1>7, <1>8 DEF s, r

(* A chain that can still be mined on is shorter than the bound: each of   *)
(* its levels, and the next, is told from the others by what the last      *)
(* block with transactions is charged to and by its distance from it.      *)
LEMMA LineIsShort ==
    ASSUME IsFiniteSet(Node), NetworkInv,
           NEW tree \in SUBSET Blocks, TreeInv(tree), Dense(tree),
           NEW what, NEW used \in SUBSET Handovers(submits), NEW by,
           Charged(tree, what, used, by), NEW tip \in tree,
           \/ Near(tree, tip, tip.height + 1)
           \/ \E h \in used : Unspent(tree, by, h, tip)
    PROVE  tip.height < MostBlocks
<1> DEFINE charges == Handovers(setup.submits) \X (0..RequiredConfirmations)
           top == tip.height + 1
           OnLine(level, t) ==
             \E c \in Line(tree, tip) :
                c \in Filled(tree) /\ by[c] = t[1] /\ level = c.height + t[2]
           OnTop(level, t) == level = top /\ Unspent(tree, by, t[1], tip)
           Fits(level, t) == OnLine(level, t) \/ OnTop(level, t)
           f == [level \in 1..top |-> CHOOSE t \in charges : Fits(level, t)]
<1>1. /\ setup \in Setups /\ tip.height \in Nat /\ RequiredConfirmations \in Nat
      /\ submits \in 0..setup.submits /\ setup.submits \in Nat
  BY BlocksAssumption, NetworkAssumption
     DEF BlockRecord, NetworkInv, RequiredConfirmations, CountersOK
<1>2. used \subseteq Handovers(setup.submits)
  BY <1>1 DEF Handovers
<1>3. Line(tree, tip) \subseteq tree /\ \A c \in Line(tree, tip) : c.height \in 0..tip.height
  BY LineIsPath
<1>4. by \in [Filled(tree) -> used]
  BY DEF Charged
<1>5. ASSUME NEW level \in 1..top, Near(tree, tip, level)
      PROVE  \E t \in charges : Fits(level, t)
  <2>1. PICK c \in Line(tree, tip) :
           c.txs # {} /\ c.height <= level /\ level <= c.height + RequiredConfirmations
    BY <1>5 DEF Near
  <2>2. c \in Filled(tree) /\ c.height \in Nat
    BY <1>1, <1>3, <2>1 DEF Filled
  <2> DEFINE t == <<by[c], level - c.height>>
  <2>3. t \in charges
    <3>1. by[c] \in Handovers(setup.submits)
      BY <1>2, <1>4, <2>2
    <3>2. level - c.height \in 0..RequiredConfirmations
      BY <1>1, <2>1, <2>2
    <3> QED
      BY <3>1, <3>2
  <2>4. t[1] = by[c] /\ level = c.height + t[2]
    BY <1>1, <2>2
  <2>5. OnLine(level, t)
    BY <2>1, <2>2, <2>4
  <2> HIDE DEF t, charges, OnLine, OnTop
  <2> QED
    BY <2>3, <2>5
<1>6. ASSUME NEW h \in used, Unspent(tree, by, h, tip)
      PROVE  \E t \in charges : Fits(top, t)
  <2> DEFINE t == <<h, 0>>
  <2>1. t \in charges /\ t[1] = h
    BY <1>1, <1>2
  <2>2. OnTop(top, t)
    BY <1>6, <2>1
  <2> HIDE DEF t, charges, OnLine, OnTop
  <2> QED
    BY <2>1, <2>2
<1>7. \A level \in 1..top : \E t \in charges : Fits(level, t)
  <2> HIDE DEF Fits, charges
  <2>1. \A level \in 1..tip.height : Near(tree, tip, level)
    BY DEF Dense
  <2>2. \A level \in 1..top : level \in 1..tip.height \/ level = top
    BY <1>1
  <2>3. top \in 1..top
    BY <1>1
  <2> QED
    BY <1>5, <1>6, <2>1, <2>2, <2>3
<1>8. f \in [1..top -> charges] /\ \A level \in 1..top : Fits(level, f[level])
  <2> HIDE DEF Fits, charges
  <2> QED
    BY <1>7
<1> SUFFICES ASSUME ~(tip.height < MostBlocks) PROVE FALSE
  OBVIOUS
<1>9. IsFiniteSet(charges) /\ Cardinality(charges) = MostBlocks /\ MostBlocks \in Nat
  BY <1>1, ChargesAreCounted
<1>10. IsFiniteSet(1..top) /\ Cardinality(1..top) = top /\ top \in Nat
  <2>1. top \in Nat
    BY <1>1
  <2> HIDE DEF top
  <2> QED
    BY <2>1, FS_Interval
<1>11. Cardinality(charges) < Cardinality(1..top)
  BY <1>1, <1>9, <1>10
<1>12. PICK x \in 1..top, y \in 1..top : x # y /\ f[x] = f[y]
  <2> HIDE DEF f, charges, top
  <2> QED
    BY <1>8, <1>9, <1>10, <1>11, FS_PigeonHole
<1> DEFINE t == f[x]
<1>13. Fits(x, t) /\ Fits(y, t)
  <2> HIDE DEF Fits, f
  <2> QED
    BY <1>8, <1>12
<1> HIDE DEF f, t
<1>14. OnLine(x, t) /\ OnLine(y, t) => FALSE
  <2> SUFFICES ASSUME OnLine(x, t), OnLine(y, t) PROVE FALSE
    OBVIOUS
  <2>1. PICK c \in Line(tree, tip) :
            c \in Filled(tree) /\ by[c] = t[1] /\ x = c.height + t[2]
    OBVIOUS
  <2>2. PICK d \in Line(tree, tip) :
            d \in Filled(tree) /\ by[d] = t[1] /\ y = d.height + t[2]
    OBVIOUS
  <2>3. c = d
    BY <2>1, <2>2 DEF Charged
  <2> QED
    BY <1>12, <2>1, <2>2, <2>3
<1>15. \A level : OnLine(level, t) => ~Unspent(tree, by, t[1], tip)
  BY DEF Unspent, Filled
<1> QED
  BY <1>12, <1>13, <1>14, <1>15

--------------------------------------------------------------------------------
(* The invariant.                                                          *)

Tree == UNION {chain[n].blocks : n \in Node}

(* Without restarts, every block under way or waiting is in some node's    *)
(* tree, and a miner works on a block of its own.                          *)
Placed ==
    /\ TreeInv(Tree)
    /\ \A m \in msgs : m.kind = "Block" => m.block \in Tree
    /\ \A n \in Node : Waiting(chain[n]) \subseteq Tree
    /\ \A n \in Node : miner[n].mining => miner[n].on \in chain[n].blocks

(* What a miner works on has transactions, or confirms some. *)
Worthwhile ==
    \A n \in Node : miner[n].mining =>
        miner[n].txs # {} \/ Near(Tree, miner[n].on, miner[n].on.height + 1)

Transactions(ms) == {m \in ms : m.kind = "Transaction"}

(* The handovers so far, and those due to the datagrams under way, each to *)
(* one.  A node passes on only what it knows, and knows only what it was   *)
(* handed.                                                                 *)
Accounts(what, used, due) ==
    /\ what \in [1..submits -> Txs]
    /\ used \subseteq Handovers(submits)
    /\ due \in [Transactions(msgs) -> Handovers(submits) \ used]
    /\ \A m, k \in Transactions(msgs) : due[m] = due[k] => m = k
    /\ \A m \in Transactions(msgs) : what[Submission(due[m])] = m.tx
    /\ \A h \in used : PassedOn(h) => what[Submission(h)] \in chain[Giver(h)].transactions
    /\ \A m \in Transactions(msgs) : PassedOn(due[m]) =>
          what[Submission(due[m])] \in chain[Giver(due[m])].transactions
    /\ \A n \in Node : \A tx \in chain[n].transactions :
          \E h \in used : what[Submission(h)] = tx

(* What waits in a mempool, and what a miner works on, can be charged. *)
CanCharge(tree, what, used, by, tx, b) ==
    \E h \in used : what[Submission(h)] = tx /\ Unspent(tree, by, h, b)

Spendable(what, used, by) ==
    \A n \in Node :
        /\ \A tx \in chain[n].mempool : CanCharge(Tree, what, used, by, tx, chain[n].tip)
        /\ miner[n].mining =>
              \A tx \in miner[n].txs : CanCharge(Tree, what, used, by, tx, miner[n].on)

History ==
    \E what, used, due, by :
        /\ Accounts(what, used, due)
        /\ Charged(Tree, what, used, by)
        /\ Spendable(what, used, by)

MiningInv == Placed /\ Dense(Tree) /\ Worthwhile /\ History

--------------------------------------------------------------------------------
(* The accounts.                                                           *)

LEMMA AccountsStay ==
    ASSUME NEW what, NEW used, NEW due, Accounts(what, used, due), submits' = submits,
           Transactions(msgs') \subseteq Transactions(msgs),
           \A n \in Node : chain'[n].transactions = chain[n].transactions
    PROVE  \E due2 : Accounts(what, used, due2)'
<1> SUFFICES ASSUME NEW due2, due2 = [m \in Transactions(msgs') |-> due[m]]
             PROVE  Accounts(what, used, due2)'
  OBVIOUS
<1>1. \A m \in Transactions(msgs') : m \in Transactions(msgs) /\ due2[m] = due[m]
  OBVIOUS
<1>2. due2 \in [Transactions(msgs') -> Handovers(submits) \ used]
  BY <1>1 DEF Accounts
<1>3. \A h \in Handovers(submits) : Giver(h) \in Node
  BY DEF Handovers, Hops, Giver
<1>4. \A h \in used : PassedOn(h) => what[Submission(h)] \in chain'[Giver(h)].transactions
  BY <1>3 DEF Accounts
<1>5. \A m \in Transactions(msgs') : PassedOn(due2[m]) =>
         what[Submission(due2[m])] \in chain'[Giver(due2[m])].transactions
  <2> SUFFICES ASSUME NEW m \in Transactions(msgs'), PassedOn(due2[m])
               PROVE  what[Submission(due2[m])] \in chain'[Giver(due2[m])].transactions
    OBVIOUS
  <2>1. due[m] \in Handovers(submits) /\ due2[m] = due[m]
    BY <1>1 DEF Accounts
  <2> QED
    BY <1>1, <1>3, <2>1 DEF Accounts
<1>6. \A m, k \in Transactions(msgs') : due2[m] = due2[k] => m = k
  BY <1>1 DEF Accounts
<1>7. \A m \in Transactions(msgs') : what[Submission(due2[m])] = m.tx
  BY <1>1 DEF Accounts
<1> QED
  BY <1>2, <1>4, <1>5, <1>6, <1>7 DEF Accounts

(* A submission is handed over to the node it is submitted to, and will be *)
(* to whom that one passes it on to.                                       *)
LEMMA AccountsOfSubmission ==
    ASSUME NetworkInv, NEW what, NEW used, NEW due, Accounts(what, used, due),
           NEW n \in Node, NEW tx \in Txs, submits' = submits + 1,
           msgs' = msgs \cup GossipTransaction(n, tx, {}),
           \A p \in Node : chain'[p].transactions =
                              chain[p].transactions \cup IF p = n THEN {tx} ELSE {}
    PROVE  \E what2, used2, due2 :
              /\ Accounts(what2, used2, due2)'
              /\ used \subseteq used2
              /\ \A h \in used : what2[Submission(h)] = what[Submission(h)]
              /\ \E h \in used2 \ used : what2[Submission(h)] = tx
<1> DEFINE last == submits + 1
           what2 == [k \in 1..last |-> IF k = last THEN tx ELSE what[k]]
           first == <<<<n, n>>, last>>
           used2 == used \cup {first}
           fresh(m) == <<<<m.to, m.to>>, last>>
           old == Transactions(msgs)
           new == Transactions(msgs')
           due2 == [m \in new |-> IF m \in old THEN due[m] ELSE fresh(m)]
<1>1. submits \in Nat /\ 1..last = 1..submits \cup {last} /\ last \notin 1..submits
  <2>1. submits \in Nat
    BY HeightsAreNatural DEF NetworkInv, CountersOK
  <2> QED
    BY <2>1
<1>2. \A h \in Handovers(submits) :
         /\ Submission(h) \in 1..submits /\ Giver(h) \in Node
         /\ what2[Submission(h)] = what[Submission(h)] /\ h \in Handovers(last)
  BY <1>1 DEF Handovers, Submission, Hops, Giver
<1>3. \A p \in Node : <<<<p, p>>, last>> \in Handovers(last) \ Handovers(submits)
  <2>1. \A p \in Node : <<p, p>> \in Hops
    BY DEF Hops
  <2> QED
    BY <1>1, <2>1 DEF Handovers
<1>4. \A p : /\ Submission(<<<<p, p>>, last>>) = last /\ what2[last] = tx
             /\ ~PassedOn(<<<<p, p>>, last>>) /\ Receiver(<<<<p, p>>, last>>) = p
  BY <1>1 DEF Submission, PassedOn, Giver, Receiver
<1>5. \A m \in new \ old : m.to \in Node \ {n} /\ m.from = n /\ m.tx = tx /\ m.kind = "Transaction"
                           /\ m = TransactionMsg(n, m.to, tx)
  BY DEF Transactions, GossipTransaction, TransactionMsg
<1>6. what2 \in [1..last -> Txs]
  BY <1>1 DEF Accounts
<1> HIDE DEF what2
<1>7. used2 \subseteq Handovers(last)
  BY <1>2, <1>3 DEF Accounts
<1>8. \A m \in old : /\ due[m] \in Handovers(submits) \ used
                     /\ due[m] \in Handovers(last) \ used2
  <2>1. \A m \in old : due[m] \in Handovers(submits) \ used
    BY DEF Accounts
  <2> QED
    BY <1>2, <1>3, <2>1
<1>9. \A m \in new \ old : /\ fresh(m) \in Handovers(last) /\ fresh(m) \notin Handovers(submits)
                           /\ fresh(m) # first
  BY <1>3, <1>5
<1>10. used \subseteq Handovers(submits)
  BY DEF Accounts
<1>11. /\ \A m \in new : m \in old => due2[m] = due[m]
       /\ \A m \in new : m \notin old => due2[m] = fresh(m)
  OBVIOUS
<1>12. due2 \in [new -> Handovers(last) \ used2]
  BY <1>8, <1>9, <1>10
<1> HIDE DEF due2, old, new
<1>13. \A m, k \in new : due2[m] = due2[k] => m = k
  <2> SUFFICES ASSUME NEW m \in new, NEW k \in new, due2[m] = due2[k] PROVE m = k
    OBVIOUS
  <2>1. CASE m \in old /\ k \in old
    BY <1>11, <2>1 DEF Accounts, old
  <2>2. CASE m \notin old /\ k \notin old
    <3>1. fresh(m) = fresh(k)
      BY <1>11, <2>2
    <3>2. m.to = k.to
      BY <3>1
    <3> QED
      BY <1>5, <2>2, <3>2
  <2>3. CASE m \in old /\ k \notin old
    BY <1>8, <1>9, <1>11, <2>3
  <2>4. CASE m \notin old /\ k \in old
    BY <1>8, <1>9, <1>11, <2>4
  <2> QED
    BY <2>1, <2>2, <2>3, <2>4
<1>14. \A m \in new : what2[Submission(due2[m])] = m.tx
  <2> SUFFICES ASSUME NEW m \in new PROVE what2[Submission(due2[m])] = m.tx
    OBVIOUS
  <2>1. CASE m \in old
    BY <1>2, <1>8, <1>11, <2>1 DEF Accounts, old
  <2>2. CASE m \notin old
    BY <1>4, <1>5, <1>11, <2>2
  <2> QED
    BY <2>1, <2>2
<1>15. \A p \in Node : chain[p].transactions \subseteq chain'[p].transactions
  OBVIOUS
<1>16. \A h \in used2 : PassedOn(h) => what2[Submission(h)] \in chain'[Giver(h)].transactions
  <2> SUFFICES ASSUME NEW h \in used2, PassedOn(h)
               PROVE  what2[Submission(h)] \in chain'[Giver(h)].transactions
    OBVIOUS
  <2>1. h \in used
    BY <1>4
  <2> QED
    BY <1>2, <1>10, <1>15, <2>1 DEF Accounts
<1>17. \A m \in new : PassedOn(due2[m]) =>
          what2[Submission(due2[m])] \in chain'[Giver(due2[m])].transactions
  <2> SUFFICES ASSUME NEW m \in new, PassedOn(due2[m])
               PROVE  what2[Submission(due2[m])] \in chain'[Giver(due2[m])].transactions
    OBVIOUS
  <2>1. m \in old
    BY <1>4, <1>11
  <2>2. due2[m] = due[m] /\ due[m] \in Handovers(submits)
    BY <1>8, <1>11, <2>1
  <2> QED
    BY <1>2, <1>15, <2>1, <2>2 DEF Accounts, old
<1>18. \A p \in Node : \A t \in chain'[p].transactions :
          \E h \in used2 : what2[Submission(h)] = t
  <2> SUFFICES ASSUME NEW p \in Node, NEW t \in chain'[p].transactions
               PROVE  \E h \in used2 : what2[Submission(h)] = t
    OBVIOUS
  <2>1. CASE t \in chain[p].transactions
    <3>1. PICK h \in used : what[Submission(h)] = t
      BY <2>1 DEF Accounts
    <3> QED
      BY <1>2, <1>10, <3>1
  <2>2. CASE t = tx
    BY <1>4, <2>2
  <2> QED
    BY <2>1, <2>2
<1>19. ASSUME NEW w, NEW u, NEW d, w = what2, u = used2, d = due2
       PROVE  Accounts(w, u, d)'
  BY <1>6, <1>7, <1>12, <1>13, <1>14, <1>16, <1>17, <1>18, <1>19 DEF Accounts, new
<1>20. \E h \in used2 \ used : what2[Submission(h)] = tx
  BY <1>3, <1>4, <1>10
<1> QED
  BY <1>2, <1>10, <1>19, <1>20

(* A datagram hands over what was due to it.  When its transaction is new  *)
(* to the receiver, nothing was due yet to what the receiver passes on.    *)
LEMMA AccountsOfDelivery ==
    ASSUME NetworkInv, NEW what, NEW used, NEW due, Accounts(what, used, due),
           NEW m \in msgs, m.kind = "Transaction", OnPeerTransaction(m), submits' = submits,
           \A p \in Node : chain'[p].transactions =
                              chain[p].transactions \cup IF p = m.to THEN {m.tx} ELSE {}
    PROVE  \E used2, due2 :
              /\ Accounts(what, used2, due2)'
              /\ used \subseteq used2
              /\ \E h \in used2 \ used : what[Submission(h)] = m.tx
<1> DEFINE k0 == Submission(due[m])
           used2 == used \cup {due[m]}
           next(m2) == <<<<m2.to, m.to>>, k0>>
           old == Transactions(msgs)
           new == Transactions(msgs')
           due2 == [m2 \in new |-> IF m2 \in old THEN due[m2] ELSE next(m2)]
<1>1. MsgOK(m) /\ m.from \in Node /\ m.to \in Node /\ m.from # m.to /\ m \in old
  BY DEF NetworkInv, MsgsOK, MsgOK, Transactions
<1>2. due[m] \in Handovers(submits) \ used /\ what[k0] = m.tx
  BY <1>1 DEF Accounts
<1>3. \A h \in Handovers(submits) : Giver(h) \in Node
  BY DEF Handovers, Hops, Giver
<1>4. \A m2 \in new \ old : /\ m2.to \in Node \ {m.to, m.from} /\ m2.tx = m.tx
                            /\ m2 = TransactionMsg(m.to, m2.to, m.tx)
                            /\ m.tx \notin chain[m.to].transactions
  BY DEF Transactions, OnPeerTransaction, GossipTransaction, TransactionMsg
<1>5. m \notin new
  <2>1. \A p : TransactionMsg(m.to, p, m.tx).from = m.to
    BY DEF TransactionMsg
  <2> QED
    BY <1>1, <2>1 DEF Transactions, OnPeerTransaction, GossipTransaction
<1>6. \A m2 \in new \ old : /\ next(m2) \in Handovers(submits) /\ PassedOn(next(m2))
                            /\ Giver(next(m2)) = m.to /\ Submission(next(m2)) = k0
  <2> SUFFICES ASSUME NEW m2 \in new \ old
               PROVE  /\ next(m2) \in Handovers(submits) /\ PassedOn(next(m2))
                      /\ Giver(next(m2)) = m.to /\ Submission(next(m2)) = k0
    OBVIOUS
  <2>1. <<m2.to, m.to>> \in Hops
    BY <1>1, <1>4 DEF Hops
  <2>2. k0 \in 1..submits
    BY <1>2 DEF Handovers, Submission
  <2> QED
    BY <1>1, <1>4, <2>1, <2>2 DEF Handovers, PassedOn, Receiver, Giver, Submission
<1>7. \A h \in used \cup {due[m2] : m2 \in old} :
         PassedOn(h) => what[Submission(h)] \in chain[Giver(h)].transactions
  BY DEF Accounts
<1>8. \A m2 \in new \ old : next(m2) \notin used \cup {due[m3] : m3 \in old}
  BY <1>2, <1>4, <1>6, <1>7
<1>9. \A m2 \in old : m2 # m => due[m2] \in Handovers(submits) \ used2
  BY <1>1 DEF Accounts
<1>10. \A m2 \in new : /\ m2 \in old => due2[m2] = due[m2] /\ m2 # m
                       /\ m2 \notin old => due2[m2] = next(m2)
  BY <1>5
<1>11. due2 \in [new -> Handovers(submits) \ used2]
  BY <1>1, <1>5, <1>6, <1>8, <1>9
<1> HIDE DEF due2, old, new, k0
<1>12. \A m2, m3 \in new : due2[m2] = due2[m3] => m2 = m3
  <2> SUFFICES ASSUME NEW m2 \in new, NEW m3 \in new, due2[m2] = due2[m3] PROVE m2 = m3
    OBVIOUS
  <2>1. CASE m2 \in old /\ m3 \in old
    BY <1>10, <2>1 DEF Accounts, old
  <2>2. CASE m2 \notin old /\ m3 \notin old
    <3>1. next(m2) = next(m3)
      BY <1>10, <2>2
    <3>2. m2.to = m3.to
      BY <3>1
    <3> QED
      BY <1>4, <2>2, <3>2
  <2>3. CASE m2 \in old /\ m3 \notin old
    BY <1>8, <1>10, <2>3
  <2>4. CASE m2 \notin old /\ m3 \in old
    BY <1>8, <1>10, <2>4
  <2> QED
    BY <2>1, <2>2, <2>3, <2>4
<1>13. \A m2 \in new : what[Submission(due2[m2])] = m2.tx
  <2> SUFFICES ASSUME NEW m2 \in new PROVE what[Submission(due2[m2])] = m2.tx
    OBVIOUS
  <2>1. CASE m2 \in old
    BY <1>10, <2>1 DEF Accounts, old
  <2>2. CASE m2 \notin old
    BY <1>2, <1>4, <1>6, <1>10, <2>2
  <2> QED
    BY <2>1, <2>2
<1>14. \A p \in Node : chain[p].transactions \subseteq chain'[p].transactions
  OBVIOUS
<1>15. m.tx \in chain'[m.to].transactions
  BY <1>1
<1>16. \A h \in used2 : PassedOn(h) => what[Submission(h)] \in chain'[Giver(h)].transactions
  BY <1>1, <1>2, <1>3, <1>7, <1>14 DEF Accounts
<1>17. \A m2 \in new : PassedOn(due2[m2]) =>
          what[Submission(due2[m2])] \in chain'[Giver(due2[m2])].transactions
  <2> SUFFICES ASSUME NEW m2 \in new, PassedOn(due2[m2])
               PROVE  what[Submission(due2[m2])] \in chain'[Giver(due2[m2])].transactions
    OBVIOUS
  <2>1. CASE m2 \in old
    <3>1. due2[m2] = due[m2] /\ due[m2] \in Handovers(submits)
      BY <1>9, <1>10, <2>1
    <3> QED
      BY <1>3, <1>7, <1>14, <2>1, <3>1
  <2>2. CASE m2 \notin old
    BY <1>2, <1>6, <1>10, <1>15, <2>2
  <2> QED
    BY <2>1, <2>2
<1>18. \A p \in Node : \A t \in chain'[p].transactions :
          \E h \in used2 : what[Submission(h)] = t
  <2> SUFFICES ASSUME NEW p \in Node, NEW t \in chain'[p].transactions
               PROVE  \E h \in used2 : what[Submission(h)] = t
    OBVIOUS
  <2>1. CASE t \in chain[p].transactions
    BY <2>1 DEF Accounts
  <2>2. CASE t = m.tx
    BY <1>2, <2>2 DEF k0
  <2> QED
    BY <2>1, <2>2
<1>19. used2 \subseteq Handovers(submits) /\ what \in [1..submits -> Txs]
  BY <1>2 DEF Accounts
<1>20. ASSUME NEW u, NEW d, u = used2, d = due2
       PROVE  Accounts(what, u, d)'
  BY <1>11, <1>12, <1>13, <1>16, <1>17, <1>18, <1>19, <1>20 DEF Accounts, new
<1>21. \E h \in used2 \ used : what[Submission(h)] = m.tx
  BY <1>2 DEF k0
<1> QED
  BY <1>20, <1>21

--------------------------------------------------------------------------------
(* What a step does to the trees, the tips and the mempools.               *)

(* When the tip changes, nothing on the new main chain waits.              *)
LEMMA WithBlockSettles ==
    ASSUME NEW s, StateInv(s), NEW b \in Low
    PROVE  LET t == WithBlock(s, b) IN
           \/ t.tip = s.tip /\ t.mempool = s.mempool
           \/ t.mempool \cap ChainTxs(MainChain(t.blocks, t.tip)) = {}
<1> DEFINE waiting == {o \in s.orphans : o.prev = b.hash}
           queue == s.pending \ {b}
           base == [s EXCEPT !.blocks = @ \cup {b}, !.orphans = @ \ waiting,
                             !.pending = queue \cup waiting]
           t == WithBlock(s, b)
<1>1. s \in States
  BY DEF StateInv
<1>2. CASE Verdict(s, b) = "valid"
  <2>1. t = WithTip(base, b)
    BY <1>2 DEF WithBlock
  <2> HIDE DEF waiting, queue
  <2>2. /\ base.tip = s.tip /\ base.mempool = s.mempool /\ base.blocks = s.blocks \cup {b}
        /\ DOMAIN base = DOMAIN s
        /\ "tip" \in DOMAIN base /\ "mempool" \in DOMAIN base /\ "blocks" \in DOMAIN base
    BY <1>1 DEF States
  <2> HIDE DEF base, t
  <2>3. CASE IsBetterTip(b, base.tip)
    <3> DEFINE new == MainChain(base.blocks, b)
               pool == ReconcileMempool(base.mempool, base.transactions, HashByHeight(base), new)
    <3>1. t = [base EXCEPT !.tip = b, !.mempool = pool]
      BY <2>1, <2>3 DEF WithTip
    <3> HIDE DEF pool
    <3>2. t.tip = b /\ t.blocks = base.blocks /\ t.mempool = pool
      BY <2>2, <3>1
    <3>3. pool \cap ChainTxs(new) = {}
      BY DEF pool, ReconcileMempool
    <3> QED
      BY <3>2, <3>3 DEF t
  <2>4. CASE ~IsBetterTip(b, base.tip)
    <3>1. t = base
      BY <2>1, <2>4 DEF WithTip
    <3> QED
      BY <2>2, <3>1 DEF t
  <2> QED
    BY <2>3, <2>4
<1>3. CASE Verdict(s, b) = "unknown_parent"
  <2>1. t = [s EXCEPT !.orphans = @ \cup {b}, !.pending = queue]
    BY <1>3 DEF WithBlock
  <2> QED
    BY <1>1, <2>1 DEF States
<1>4. CASE Verdict(s, b) \notin {"valid", "unknown_parent"}
  <2>1. t = [s EXCEPT !.pending = queue]
    BY <1>4 DEF WithBlock
  <2> QED
    BY <1>1, <2>1 DEF States
<1> QED
  BY <1>2, <1>3, <1>4

TakesTransaction(n, tx) ==
    \A p \in Node :
        /\ chain'[p].blocks = chain[p].blocks /\ chain'[p].tip = chain[p].tip
        /\ Waiting(chain'[p]) = Waiting(chain[p])
        /\ chain'[p].transactions = chain[p].transactions \cup IF p = n THEN {tx} ELSE {}
        /\ chain'[p].mempool = chain[p].mempool \cup IF p = n THEN {tx} ELSE {}

LEMMA TransactionTaken ==
    ASSUME NetworkInv, NEW n \in Node, NEW tx \in Txs,
           chain' = [chain EXCEPT ![n] = WithTransaction(@, tx)]
    PROVE  TakesTransaction(n, tx) /\ Tree' = Tree
<1>1. chain'[n] = WithTransaction(chain[n], tx) /\ \A p \in Node \ {n} : chain'[p] = chain[p]
  BY DEF NetworkInv
<1> DEFINE s == chain[n]
           t == chain'[n]
<1>2. /\ t.blocks = s.blocks /\ t.tip = s.tip /\ t.orphans = s.orphans /\ t.pending = s.pending
      /\ t.transactions = s.transactions \cup {tx} /\ t.mempool = s.mempool \cup {tx}
  <2>1. s \in States
    BY DEF NetworkInv, StateInv
  <2>2. t = WithTransaction(s, tx)
    BY <1>1
  <2> HIDE DEF s, t
  <2> QED
    BY <2>1, <2>2 DEF WithTransaction, States
<1>3. TakesTransaction(n, tx)
  BY <1>1, <1>2 DEF TakesTransaction, Waiting
<1> QED
  BY <1>3 DEF TakesTransaction, Tree

(* The mempool of each node is as it was, with its tip, or settled. *)
Settles(p) ==
    \/ chain'[p].tip = chain[p].tip /\ chain'[p].mempool = chain[p].mempool
    \/ chain'[p].mempool \cap ChainTxs(HashByHeight(chain'[p])) = {}

TakesBlock(n, b) ==
    /\ Verdict(chain[n], b) = "valid" => Tree' = Tree \cup {b}
    /\ Verdict(chain[n], b) # "valid" => Tree' = Tree
    /\ Verdict(chain[n], b) # "unknown_parent" =>
          \A p \in Node : Waiting(chain'[p]) \subseteq Waiting(chain[p])
    /\ \A p \in Node :
          /\ chain[p].blocks \subseteq chain'[p].blocks
          /\ Waiting(chain'[p]) \subseteq Waiting(chain[p]) \cup {b}
          /\ chain'[p].transactions = chain[p].transactions
          /\ Settles(p)

LEMMA BlockTaken ==
    ASSUME NetworkInv, NEW n \in Node, NEW b \in Low,
           chain' = [chain EXCEPT ![n] = WithBlock(@, b)]
    PROVE  TakesBlock(n, b)
<1> DEFINE s == chain[n]
           t == chain'[n]
<1>1. t = WithBlock(s, b) /\ \A p \in Node \ {n} : chain'[p] = chain[p]
  BY DEF NetworkInv
<1>2. StateInv(s)
  BY DEF NetworkInv
<1> HIDE DEF s, t
<1>3. /\ t.transactions = s.transactions
      /\ Verdict(s, b) = "valid" => t.blocks = s.blocks \cup {b}
      /\ Verdict(s, b) # "valid" => t.blocks = s.blocks
      /\ Waiting(t) \subseteq Waiting(s) \cup {b}
      /\ Verdict(s, b) # "unknown_parent" => Waiting(t) \subseteq Waiting(s)
  BY <1>1, <1>2, WithBlockStores
<1>4. \/ t.tip = s.tip /\ t.mempool = s.mempool
      \/ t.mempool \cap ChainTxs(HashByHeight(t)) = {}
  BY <1>1, <1>2, WithBlockSettles DEF HashByHeight
<1>5. \A p \in Node : Settles(p)
  BY <1>1, <1>4 DEF Settles, s, t
<1>6. ASSUME Verdict(s, b) = "valid" PROVE Tree' = Tree \cup {b}
  <2>1. t.blocks = s.blocks \cup {b}
    BY <1>3, <1>6
  <2> QED
    BY <1>1, <2>1 DEF Tree, s, t
<1>7. ASSUME Verdict(s, b) # "valid" PROVE Tree' = Tree
  <2>1. t.blocks = s.blocks
    BY <1>3, <1>7
  <2> QED
    BY <1>1, <2>1 DEF Tree, s, t
<1>8. \A p \in Node :
          /\ chain[p].blocks \subseteq chain'[p].blocks
          /\ Waiting(chain'[p]) \subseteq Waiting(chain[p]) \cup {b}
          /\ chain'[p].transactions = chain[p].transactions
  BY <1>1, <1>3 DEF s, t
<1>9. Verdict(s, b) # "unknown_parent" =>
          \A p \in Node : Waiting(chain'[p]) \subseteq Waiting(chain[p])
  BY <1>1, <1>3 DEF s, t
<1> QED
  BY <1>5, <1>6, <1>7, <1>8, <1>9 DEF TakesBlock, s

(* Nothing a node may charge is lost in a step: the step keeps its mempool *)
(* and its tip, hands it something new, or leaves in its mempool only what *)
(* is not on its main chain, for which any handover will do.               *)
LEMMA SpendableStays ==
    ASSUME NetworkInv, NetworkInv', Placed, TreeInv(Tree'), Tree \subseteq Tree',
           NEW what, NEW used, NEW by, NEW what2, NEW used2, NEW by2,
           Spendable(what, used, by), used \subseteq used2,
           \A c \in Filled(Tree) : by2[c] = by[c],
           \A h \in used : what2[Submission(h)] = what[Submission(h)],
           Charged(Tree', what2, used, by2),
           \A p \in Node : \A tx \in chain'[p].transactions :
              \E h \in used2 : what2[Submission(h)] = tx,
           \A p \in Node : \A tx \in chain'[p].mempool :
              \/ tx \in chain[p].mempool /\ chain'[p].tip = chain[p].tip
              \/ /\ chain'[p].tip = chain[p].tip
                 /\ \E h \in used2 \ used : what2[Submission(h)] = tx
              \/ tx \notin ChainTxs(HashByHeight(chain'[p])),
           \A p \in Node : miner'[p].mining =>
              \/ miner'[p] = miner[p]
              \/ miner'[p] = Working(chain[p].tip, chain[p].mempool)
    PROVE  Spendable(what2, used2, by2)'
<1>1. Tree \in SUBSET Blocks /\ Tree' \in SUBSET Blocks
  <2>1. Tree \in SUBSET Blocks
    BY DEF NetworkInv, StateInv, States, Low, Tree
  <2>2. \A p \in Node : chain'[p].blocks \in SUBSET Blocks
    BY DEF NetworkInv, StateInv, States, Low
  <2> QED
    BY <2>1, <2>2 DEF Tree
<1>2. \A p \in Node : /\ chain[p].tip \in Tree /\ chain'[p].tip \in Tree'
                      /\ chain'[p].tip \in chain'[p].blocks
                      /\ chain'[p].blocks \subseteq Tree'
                      /\ TreeInv(chain'[p].blocks) /\ chain'[p].mempool \subseteq chain'[p].transactions
  BY DEF NetworkInv, StateInv, BestOf, TransactionsKept, Tree
<1>3. ASSUME NEW b \in Tree, NEW tx, CanCharge(Tree, what, used, by, tx, b)
      PROVE  CanCharge(Tree', what2, used2, by2, tx, b)
  <2>1. PICK h \in used : what[Submission(h)] = tx /\ Unspent(Tree, by, h, b)
    BY <1>3 DEF CanCharge
  <2>2. Unspent(Tree', by2, h, b)
    BY <1>1, <2>1, UnspentStays DEF Placed
  <2> QED
    BY <2>1, <2>2 DEF CanCharge
<1>4. ASSUME NEW p \in Node, NEW tx \in chain'[p].mempool
      PROVE  CanCharge(Tree', what2, used2, by2, tx, chain'[p].tip)
  <2>1. CASE tx \in chain[p].mempool /\ chain'[p].tip = chain[p].tip
    BY <1>2, <1>3, <2>1 DEF Spendable
  <2>2. CASE \E h \in used2 \ used : what2[Submission(h)] = tx
    <3>1. PICK h \in used2 \ used : what2[Submission(h)] = tx
      BY <2>2
    <3>2. Line(Tree', chain'[p].tip) \subseteq Tree'
      BY <1>1, <1>2, LineIsPath
    <3>3. Unspent(Tree', by2, h, chain'[p].tip)
      BY <3>1, <3>2 DEF Unspent, Charged, Filled
    <3> QED
      BY <3>1, <3>3 DEF CanCharge
  <2>3. CASE tx \notin ChainTxs(HashByHeight(chain'[p]))
    <3> DEFINE tip == chain'[p].tip
               blocks == chain'[p].blocks
    <3>1. PICK h \in used2 : what2[Submission(h)] = tx
      BY <1>2
    <3>2. blocks \in SUBSET Blocks /\ tip \in blocks /\ blocks \subseteq Tree' /\ TreeInv(blocks)
      BY <1>1, <1>2
    <3>3. HashByHeight(chain'[p]) = MainChain(blocks, tip)
      BY DEF HashByHeight
    <3> HIDE DEF tip, blocks
    <3>4. Line(Tree', tip) = Line(blocks, tip) /\ Line(Tree', tip) \subseteq Tree'
      BY <1>1, <3>2, LineStays, LineIsPath
    <3>5. ChainTxs(MainChain(blocks, tip)) = UNION {c.txs : c \in Line(blocks, tip)}
      BY <3>2, LineIsPath
    <3>6. \A c \in Line(Tree', tip) : tx \notin c.txs
      BY <2>3, <3>3, <3>4, <3>5
    <3>7. Unspent(Tree', by2, h, tip)
      BY <3>1, <3>4, <3>6 DEF Unspent, Charged, Filled
    <3> QED
      BY <3>1, <3>7 DEF CanCharge, tip
  <2> QED
    BY <2>1, <2>2, <2>3
<1>5. ASSUME NEW p \in Node, miner'[p].mining, NEW tx \in miner'[p].txs
      PROVE  CanCharge(Tree', what2, used2, by2, tx, miner'[p].on)
  <2>1. CASE miner'[p] = miner[p]
    <3>1. miner[p].on \in Tree
      BY <1>5, <2>1 DEF Placed, Tree
    <3>2. CanCharge(Tree, what, used, by, tx, miner[p].on)
      BY <1>5, <2>1 DEF Spendable
    <3> QED
      BY <1>3, <2>1, <3>1, <3>2
  <2>2. CASE miner'[p] = Working(chain[p].tip, chain[p].mempool)
    <3>1. miner'[p].on = chain[p].tip /\ miner'[p].txs = chain[p].mempool
      BY <2>2 DEF Working
    <3>2. CanCharge(Tree, what, used, by, tx, chain[p].tip)
      BY <1>5, <3>1 DEF Spendable
    <3> QED
      BY <1>2, <1>3, <3>1, <3>2
  <2> QED
    BY <1>5, <2>1, <2>2
<1> QED
  BY <1>4, <1>5 DEF Spendable

--------------------------------------------------------------------------------
(* What every step keeps.                                                  *)

LEMMA TreesAreBlocks ==
    ASSUME NetworkInv
    PROVE  /\ Tree \in SUBSET Blocks
           /\ \A n \in Node : /\ chain[n].blocks \subseteq Tree /\ chain[n].blocks \in SUBSET Blocks
                              /\ chain[n].tip \in chain[n].blocks /\ TreeInv(chain[n].blocks)
BY DEF NetworkInv, StateInv, States, Low, Tree, BestOf

(* Work is pending when there is something to put into a block, or a block *)
(* with transactions is not confirmed yet.                                 *)
LEMMA PendingWorkIsNear ==
    ASSUME NetworkInv, TreeInv(Tree), NEW n \in Node, HasPendingWork(chain[n])
    PROVE  \/ chain[n].mempool # {}
           \/ Near(Tree, chain[n].tip, chain[n].tip.height + 1)
<1> DEFINE s == chain[n]
           tip == s.tip
           blocks == s.blocks
<1>1. /\ Tree \in SUBSET Blocks /\ blocks \in SUBSET Blocks /\ blocks \subseteq Tree
      /\ tip \in blocks /\ TreeInv(blocks)
  BY TreesAreBlocks
<1>2. HashByHeight(s) = MainChain(blocks, tip)
  BY DEF HashByHeight
<1>3. SUFFICES ASSUME NEW tx \in ChainTxs(MainChain(blocks, tip)),
                      Confirmations(MainChain(blocks, tip), tip, tx) < RequiredConfirmations
               PROVE  Near(Tree, tip, tip.height + 1)
  BY <1>2 DEF HasPendingWork
<1> HIDE DEF tip, blocks
<1>4. PICK c \in Line(blocks, tip) :
         tx \in c.txs /\ Confirmations(MainChain(blocks, tip), tip, tx) = tip.height - c.height
  BY <1>1, LastCopy
<1>5. Line(Tree, tip) = Line(blocks, tip)
  BY <1>1, LineStays
<1>6. tip.height \in Nat /\ c.height \in 0..tip.height /\ RequiredConfirmations \in Nat
  BY <1>1, LineIsPath, BlocksAssumption, NetworkAssumption
     DEF BlockRecord, RequiredConfirmations, NetworkInv
<1>7. tip.height - c.height < RequiredConfirmations
  BY <1>3, <1>4
<1>8. c.height <= tip.height + 1 /\ tip.height + 1 <= c.height + RequiredConfirmations
  BY <1>6, <1>7
<1> QED
  BY <1>4, <1>5, <1>8 DEF Near

LEMMA PlacedStays ==
    ASSUME Placed, TreeInv(Tree'), Tree \subseteq Tree',
           \A p \in Node : chain[p].blocks \subseteq chain'[p].blocks,
           \A p \in Node : Waiting(chain'[p]) \subseteq Waiting(chain[p]) \cup Tree',
           \A m \in msgs' : m \in msgs \/ (m.kind = "Block" => m.block \in Tree'),
           \A p \in Node : miner'[p].mining =>
              miner'[p] = miner[p] \/ miner'[p].on \in chain'[p].blocks
    PROVE  Placed'
<1>1. \A p \in Node : miner'[p].mining => miner'[p].on \in chain'[p].blocks
  <2> SUFFICES ASSUME NEW p \in Node, miner'[p].mining, miner'[p] = miner[p]
               PROVE  miner'[p].on \in chain'[p].blocks
    OBVIOUS
  <2>1. miner[p].on \in chain[p].blocks
    BY DEF Placed
  <2> QED
    BY <2>1
<1>2. \A p \in Node : Waiting(chain'[p]) \subseteq Tree'
  BY DEF Placed
<1>3. \A m \in msgs' : m.kind = "Block" => m.block \in Tree'
  BY DEF Placed
<1> QED
  BY <1>1, <1>2, <1>3 DEF Placed

LEMMA MiningStays ==
    ASSUME NetworkInv, NetworkInv', UNCHANGED setup, Placed, Placed', Tree \subseteq Tree',
           Worthwhile, Dense(Tree'),
           NEW what, NEW used, NEW by, Spendable(what, used, by),
           NEW what2, NEW used2, NEW by2, \E due2 : Accounts(what2, used2, due2)',
           used \subseteq used2,
           \A h \in used : what2[Submission(h)] = what[Submission(h)],
           \A c \in Filled(Tree) : by2[c] = by[c],
           Charged(Tree', what2, used, by2),
           \A p \in Node : \A tx \in chain'[p].mempool :
              \/ tx \in chain[p].mempool /\ chain'[p].tip = chain[p].tip
              \/ /\ chain'[p].tip = chain[p].tip
                 /\ \E h \in used2 \ used : what2[Submission(h)] = tx
              \/ tx \notin ChainTxs(HashByHeight(chain'[p])),
           \A p \in Node : miner'[p].mining =>
              \/ miner'[p] = miner[p]
              \/ /\ HasPendingWork(chain[p])
                 /\ miner'[p] = Working(chain[p].tip, chain[p].mempool)
    PROVE  MiningInv'
<1>1. TreeInv(Tree) /\ TreeInv(Tree')
  BY DEF Placed
<1>2. Tree \in SUBSET Blocks /\ Tree' \in SUBSET Blocks
      /\ \A p \in Node : chain[p].tip \in Tree
  <2>1. \A p \in Node : chain'[p].blocks \in SUBSET Blocks
    BY DEF NetworkInv, StateInv, States, Low
  <2>2. Tree' \in SUBSET Blocks
    BY <2>1 DEF Tree
  <2> QED
    BY <2>2, TreesAreBlocks
<1>3. \A p \in Node : \A tx \in chain'[p].transactions :
         \E h \in used2 : what2[Submission(h)] = tx
  BY DEF Accounts
<1>4. Spendable(what2, used2, by2)'
  BY <1>1, <1>3, SpendableStays
<1>5. Charged(Tree', what2, used2, by2)
  BY DEF Charged
<1>6. Dense(Tree)' /\ \A tree, b, level : Near(tree, b, level)' <=> Near(tree, b, level)
  BY DEF Dense, Near, RequiredConfirmations
<1>7. ASSUME NEW p \in Node, miner'[p].mining
      PROVE  miner'[p].txs # {} \/ Near(Tree', miner'[p].on, miner'[p].on.height + 1)
  <2>1. CASE miner'[p] = miner[p]
    <3>1. miner[p].on \in Tree
      BY <1>7, <2>1 DEF Placed, Tree
    <3>2. miner[p].txs # {} \/ Near(Tree, miner[p].on, miner[p].on.height + 1)
      BY <1>7, <2>1 DEF Worthwhile
    <3> QED
      BY <1>1, <1>2, <2>1, <3>1, <3>2, NearStays
  <2>2. CASE /\ HasPendingWork(chain[p])
             /\ miner'[p] = Working(chain[p].tip, chain[p].mempool)
    <3>1. miner'[p].on = chain[p].tip /\ miner'[p].txs = chain[p].mempool
      BY <2>2 DEF Working
    <3>2. chain[p].mempool # {} \/ Near(Tree, chain[p].tip, chain[p].tip.height + 1)
      BY <1>1, <2>2, PendingWorkIsNear
    <3> QED
      BY <1>1, <1>2, <3>1, <3>2, NearStays
  <2> QED
    BY <1>7, <2>1, <2>2
<1>8. Worthwhile'
  BY <1>7 DEF Worthwhile, Near, RequiredConfirmations
<1>9. History'
  BY <1>4, <1>5 DEF History
<1> QED
  BY <1>6, <1>8, <1>9 DEF MiningInv

(* A step that finds no new block. *)
LEMMA TreeStays ==
    ASSUME NetworkInv, NetworkInv', UNCHANGED setup, MiningInv, Placed', Tree' = Tree,
           NEW what, NEW used, NEW by, Charged(Tree, what, used, by), Spendable(what, used, by),
           NEW what2, NEW used2, \E due2 : Accounts(what2, used2, due2)',
           used \subseteq used2,
           \A h \in used : what2[Submission(h)] = what[Submission(h)],
           \A p \in Node : \A tx \in chain'[p].mempool :
              \/ tx \in chain[p].mempool /\ chain'[p].tip = chain[p].tip
              \/ /\ chain'[p].tip = chain[p].tip
                 /\ \E h \in used2 \ used : what2[Submission(h)] = tx
              \/ tx \notin ChainTxs(HashByHeight(chain'[p])),
           \A p \in Node : miner'[p].mining =>
              \/ miner'[p] = miner[p]
              \/ /\ HasPendingWork(chain[p])
                 /\ miner'[p] = Working(chain[p].tip, chain[p].mempool)
    PROVE  MiningInv'
<1>1. Placed /\ Worthwhile /\ Dense(Tree')
  BY DEF MiningInv, Dense
<1>2. Charged(Tree', what2, used, by)
  BY DEF Charged
<1> QED
  BY <1>1, <1>2, MiningStays

--------------------------------------------------------------------------------
(* The steps.                                                              *)

LEMMA MempoolTakes ==
    ASSUME NEW n \in Node, NEW tx, TakesTransaction(n, tx),
           NEW what2, NEW used, NEW used2, \E h \in used2 \ used : what2[Submission(h)] = tx
    PROVE  \A p \in Node : \A t \in chain'[p].mempool :
              \/ t \in chain[p].mempool /\ chain'[p].tip = chain[p].tip
              \/ /\ chain'[p].tip = chain[p].tip
                 /\ \E h \in used2 \ used : what2[Submission(h)] = t
              \/ t \notin ChainTxs(HashByHeight(chain'[p]))
BY DEF TakesTransaction

LEMMA SubmitTransactionMines ==
    ASSUME NetworkInv, NetworkInv', UNCHANGED setup, MiningInv,
           NEW n \in Node, NEW tx \in Txs, SubmitTransaction(n, tx)
    PROVE  MiningInv'
<1>1. /\ chain' = [chain EXCEPT ![n] = WithTransaction(@, tx)]
      /\ msgs' = msgs \cup GossipTransaction(n, tx, {})
      /\ submits' = submits + 1 /\ UNCHANGED miner
  BY DEF SubmitTransaction
<1>2. TakesTransaction(n, tx) /\ Tree' = Tree
  BY <1>1, TransactionTaken
<1>3. PICK what, used, due, by :
         Accounts(what, used, due) /\ Charged(Tree, what, used, by) /\ Spendable(what, used, by)
  BY DEF MiningInv, History
<1>4. \A p \in Node : chain'[p].transactions =
                         chain[p].transactions \cup IF p = n THEN {tx} ELSE {}
  BY <1>2 DEF TakesTransaction
<1>5. PICK what2, used2, due2 :
         /\ Accounts(what2, used2, due2)'
         /\ used \subseteq used2
         /\ \A h \in used : what2[Submission(h)] = what[Submission(h)]
         /\ \E h \in used2 \ used : what2[Submission(h)] = tx
  BY <1>1, <1>3, <1>4, AccountsOfSubmission
<1>6. \A m \in msgs' : m \in msgs \/ m.kind = "Transaction"
  BY <1>1 DEF GossipTransaction, TransactionMsg
<1>7. Placed'
  BY <1>1, <1>2, <1>6, PlacedStays DEF MiningInv, Placed, TakesTransaction
<1>8. \A p \in Node : \A t \in chain'[p].mempool :
         \/ t \in chain[p].mempool /\ chain'[p].tip = chain[p].tip
         \/ /\ chain'[p].tip = chain[p].tip
            /\ \E h \in used2 \ used : what2[Submission(h)] = t
         \/ t \notin ChainTxs(HashByHeight(chain'[p]))
  BY <1>2, <1>5, MempoolTakes
<1> QED
  BY <1>1, <1>2, <1>3, <1>5, <1>7, <1>8, TreeStays

LEMMA OnPeerTransactionMines ==
    ASSUME NetworkInv, NetworkInv', UNCHANGED setup, MiningInv, NEW m \in msgs,
           m.kind = "Transaction", OnPeerTransaction(m), UNCHANGED submits
    PROVE  MiningInv'
<1> DEFINE n == m.to
           tx == m.tx
<1>1. n \in Node /\ tx \in Txs
  BY DEF NetworkInv, MsgsOK, MsgOK
<1>2. /\ chain' = [chain EXCEPT ![n] = WithTransaction(@, tx)]
      /\ UNCHANGED miner
  BY DEF OnPeerTransaction
<1>3. \A k \in msgs' : k \in msgs \/ k.kind = "Transaction"
  BY DEF OnPeerTransaction, GossipTransaction, TransactionMsg
<1>4. TakesTransaction(n, tx) /\ Tree' = Tree
  <2> HIDE DEF n, tx
  <2> QED
    BY <1>1, <1>2, TransactionTaken
<1>5. PICK what, used, due, by :
         Accounts(what, used, due) /\ Charged(Tree, what, used, by) /\ Spendable(what, used, by)
  BY DEF MiningInv, History
<1>6. \A p \in Node : chain'[p].transactions =
                         chain[p].transactions \cup IF p = m.to THEN {m.tx} ELSE {}
  BY <1>4 DEF TakesTransaction
<1>7. PICK used2, due2 :
         /\ Accounts(what, used2, due2)'
         /\ used \subseteq used2
         /\ \E h \in used2 \ used : what[Submission(h)] = m.tx
  BY <1>5, <1>6, AccountsOfDelivery
<1>8. Placed'
  BY <1>2, <1>3, <1>4, PlacedStays DEF MiningInv, Placed, TakesTransaction
<1>9. \A p \in Node : \A t \in chain'[p].mempool :
         \/ t \in chain[p].mempool /\ chain'[p].tip = chain[p].tip
         \/ /\ chain'[p].tip = chain[p].tip
            /\ \E h \in used2 \ used : what[Submission(h)] = t
         \/ t \notin ChainTxs(HashByHeight(chain'[p]))
  <2> HIDE DEF n
  <2> QED
    BY <1>1, <1>4, <1>7, MempoolTakes
<1> QED
  BY <1>2, <1>4, <1>5, <1>7, <1>8, <1>9, TreeStays

(* A step that hands a node no transaction, finds no new block, and leaves *)
(* the miners alone or sets them on pending work.                          *)
LEMMA QuietMines ==
    ASSUME NetworkInv, NetworkInv', UNCHANGED <<setup, submits>>, MiningInv, Tree' = Tree,
           Transactions(msgs') \subseteq Transactions(msgs),
           \A m \in msgs' : m \in msgs \/ (m.kind = "Block" => m.block \in Tree),
           \A p \in Node :
              /\ chain'[p].transactions = chain[p].transactions
              /\ chain[p].blocks \subseteq chain'[p].blocks
              /\ Waiting(chain'[p]) \subseteq Waiting(chain[p]) \cup Tree
              /\ Settles(p)
              /\ miner'[p].mining =>
                    \/ miner'[p] = miner[p]
                    \/ /\ HasPendingWork(chain[p])
                       /\ miner'[p] = Working(chain[p].tip, chain[p].mempool)
    PROVE  MiningInv'
<1>1. PICK what, used, due, by :
         Accounts(what, used, due) /\ Charged(Tree, what, used, by) /\ Spendable(what, used, by)
  BY DEF MiningInv, History
<1>2. \E due2 : Accounts(what, used, due2)'
  BY <1>1, AccountsStay
<1>3. \A p \in Node : miner'[p].mining =>
         miner'[p] = miner[p] \/ miner'[p].on \in chain'[p].blocks
  <2>1. \A p \in Node : Working(chain[p].tip, chain[p].mempool).on \in chain'[p].blocks
    BY TreesAreBlocks DEF Working
  <2> QED
    BY <2>1
<1>4. Placed'
  BY <1>3, PlacedStays DEF MiningInv, Placed
<1>5. \A p \in Node : \A tx \in chain'[p].mempool :
         \/ tx \in chain[p].mempool /\ chain'[p].tip = chain[p].tip
         \/ tx \notin ChainTxs(HashByHeight(chain'[p]))
  BY DEF Settles
<1> QED
  BY <1>1, <1>2, <1>4, <1>5, TreeStays

LEMMA IngestBlockMines ==
    ASSUME NetworkInv, NetworkInv', UNCHANGED <<setup, submits>>, MiningInv, NEW m \in msgs,
           m.kind = "Block", IngestBlock(m)
    PROVE  MiningInv'
<1> DEFINE n == m.to
           b == m.block
           gossip == GossipBlock(n, b, {m.from})
<1>1. n \in Node /\ b \in Low /\ b \in Tree
  BY DEF NetworkInv, MsgsOK, MsgOK, MiningInv, Placed
<1>2. chain' = [chain EXCEPT ![n] = WithBlock(@, b)] /\ UNCHANGED miner
  BY DEF IngestBlock
<1>3. \A k \in msgs' : \/ k \in msgs
                       \/ k \in gossip
                       \/ k = BlockRequestMsg(n, m.from, b.height - 1)
  BY DEF IngestBlock
<1>4. \A k \in gossip : k.kind = "Block" /\ k.block = b
  BY DEF GossipBlock, BlockMsg
<1> HIDE DEF n, b, gossip
<1>5. TakesBlock(n, b)
  BY <1>1, <1>2, BlockTaken
<1>6. Tree' = Tree
  BY <1>1, <1>5 DEF TakesBlock
<1>7. \A k \in msgs' : k \in msgs \/ (k.kind # "Transaction" /\ (k.kind = "Block" => k.block = b))
  BY <1>3, <1>4 DEF BlockRequestMsg
<1>8. Transactions(msgs') \subseteq Transactions(msgs)
  BY <1>7 DEF Transactions
<1> QED
  BY <1>1, <1>2, <1>5, <1>6, <1>7, <1>8, QuietMines DEF TakesBlock

LEMMA AttachOrphanMines ==
    ASSUME NetworkInv, NetworkInv', UNCHANGED setup, MiningInv, NEW n \in Node, AttachOrphan(n)
    PROVE  MiningInv'
<1>1. PICK b \in chain[n].pending : chain' = [chain EXCEPT ![n] = WithBlock(@, b)]
  BY DEF AttachOrphan
<1>2. UNCHANGED <<miner, msgs, submits>>
  BY DEF AttachOrphan
<1>3. b \in Low /\ b \in Tree
  BY DEF NetworkInv, StateInv, States, MiningInv, Placed, Waiting
<1>4. TakesBlock(n, b)
  BY <1>1, <1>3, BlockTaken
<1>5. Tree' = Tree
  BY <1>3, <1>4 DEF TakesBlock
<1> QED
  BY <1>2, <1>3, <1>4, <1>5, QuietMines DEF TakesBlock

(* The steps that leave every chain alone. *)
LEMMA NoChainMines ==
    ASSUME NetworkInv, NetworkInv', UNCHANGED <<setup, submits, chain>>, MiningInv,
           \A m \in msgs' : \/ m \in msgs
                            \/ m.kind # "Transaction" /\ (m.kind = "Block" => m.block \in Tree),
           \A p \in Node :
              miner'[p].mining =>
                 \/ miner'[p] = miner[p]
                 \/ /\ HasPendingWork(chain[p])
                    /\ miner'[p] = Working(chain[p].tip, chain[p].mempool)
    PROVE  MiningInv'
<1>1. Tree' = Tree
  BY DEF Tree
<1>2. Transactions(msgs') \subseteq Transactions(msgs)
  BY DEF Transactions
<1>3. \A p \in Node : Settles(p)
  BY DEF Settles
<1> QED
  BY <1>1, <1>2, <1>3, QuietMines

LEMMA AnswerMines ==
    ASSUME NetworkInv, NetworkInv', UNCHANGED <<setup, submits>>, MiningInv, NEW m \in msgs,
           OnPeerStatusRequest(m) \/ OnPeerStatusResponse(m) \/ OnPeerBlockRequest(m)
    PROVE  MiningInv'
<1>1. m.to \in Node /\ setup \in Setups
  BY DEF NetworkInv, MsgsOK, MsgOK
<1>2. UNCHANGED <<chain, miner>>
  BY DEF OnPeerStatusRequest, OnPeerStatusResponse, OnPeerBlockRequest
<1>3. m.height \in 0..chain[m.to].tip.height => HashByHeight(chain[m.to])[m.height] \in Tree
  <2> DEFINE s == chain[m.to]
             h == m.height
  <2>1. StateInv(s) /\ s.blocks \subseteq Tree
    BY <1>1, TreesAreBlocks DEF NetworkInv
  <2> HIDE DEF s, h
  <2>2. h \in 0..s.tip.height => HashByHeight(s)[h] \in Tree
    BY <1>1, <2>1, BlocksOfTree
  <2> QED
    BY <2>2 DEF s, h
<1>4. \A k \in msgs' : \/ k \in msgs
                       \/ k.kind # "Transaction" /\ (k.kind = "Block" => k.block \in Tree)
  <2>1. CASE OnPeerStatusRequest(m)
    BY <2>1 DEF OnPeerStatusRequest, StatusResponseMsg
  <2>2. CASE OnPeerStatusResponse(m)
    BY <2>2 DEF OnPeerStatusResponse, BlockRequestMsg
  <2>3. CASE OnPeerBlockRequest(m)
    BY <1>3, <2>3 DEF OnPeerBlockRequest, BlockMsg
  <2> QED
    BY <2>1, <2>2, <2>3
<1> QED
  BY <1>2, <1>4, NoChainMines

LEMMA LoopsMine ==
    ASSUME NetworkInv, NetworkInv', UNCHANGED setup, MiningInv, NEW n \in Node,
           StartMining(n) \/ AbandonMining(n) \/ CatchUp(n)
    PROVE  MiningInv'
<1>1. UNCHANGED <<chain, submits>>
  BY DEF StartMining, AbandonMining, CatchUp
<1>2. \A k \in msgs' : k \in msgs \/ k.kind = "StatusRequest"
  BY DEF StartMining, AbandonMining, CatchUp, StatusRequestMsg
<1>3. \A p \in Node :
         miner'[p].mining =>
            \/ miner'[p] = miner[p]
            \/ /\ HasPendingWork(chain[p])
               /\ miner'[p] = Working(chain[p].tip, chain[p].mempool)
  <2>1. DOMAIN miner = Node
    BY DEF NetworkInv
  <2> QED
    BY <2>1 DEF StartMining, AbandonMining, CatchUp, Idle
<1> QED
  BY <1>1, <1>2, <1>3, NoChainMines

LEMMA LoseMines ==
    ASSUME NetworkInv, NetworkInv', UNCHANGED setup, MiningInv, NEW m \in msgs, Lose(m)
    PROVE  MiningInv'
<1>1. UNCHANGED <<chain, miner, submits>> /\ \A k \in msgs' : k \in msgs
  BY DEF Lose
<1> QED
  BY <1>1, NoChainMines

LEMMA GenesisIsKnown ==
    ASSUME NEW s, StateInv(s)
    PROVE  Genesis \in s.blocks
<1>1. s.blocks \subseteq BlockRecord /\ s.tip \in s.blocks /\ TreeInv(s.blocks)
  BY BlocksAssumption DEF StateInv, States, Low, BestOf
<1>2. PICK f : IsPath(s.blocks, f, s.tip)
  BY <1>1 DEF TreeInv
<1>3. f[0] \in s.blocks /\ f[0].height = 0
  BY <1>1, <1>2 DEF IsPath, BlockRecord
<1>4. f[0] # Genesis => HeightFits(s.blocks, f[0])
  BY <1>1, <1>3 DEF TreeInv
<1>5. ~HeightFits(s.blocks, f[0])
  BY <1>1, <1>3 DEF HeightFits, BlockRecord
<1> QED
  BY <1>3, <1>4, <1>5

(* A block of a known parent that a node takes, with the hash of a block   *)
(* in the trees, is that block.                                            *)
LEMMA NoTwin ==
    ASSUME NetworkInv, Placed, NEW n \in Node, NEW b \in Blocks, Verdict(chain[n], b) = "valid",
           NEW c \in Tree, c.hash = b.hash
    PROVE  c = b
<1>1. /\ Tree \subseteq Blocks /\ chain[n].blocks \subseteq Tree /\ TreeInv(Tree)
      /\ StateInv(chain[n])
  BY TreesAreBlocks DEF Placed, NetworkInv
<1>2. b.hash \notin HashesOf(chain[n].blocks) /\ HeightFits(chain[n].blocks, b)
  BY DEF Verdict, ValidateBlock
<1>3. c # Genesis
  BY <1>1, <1>2, GenesisIsKnown DEF HashesOf
<1>4. PICK p \in Tree : p.hash = c.prev /\ c.height = p.height + 1
  BY <1>1, <1>3 DEF TreeInv, HeightFits
<1>5. PICK q \in Tree : q.hash = b.prev /\ b.height = q.height + 1
  BY <1>1, <1>2 DEF HeightFits
<1>6. c.prev = b.prev /\ c.txs = b.txs /\ c.pow = b.pow
  BY <1>1, BlocksAssumption
<1>7. p = q
  BY <1>1, <1>4, <1>5, <1>6 DEF TreeInv
<1>8. c.height = b.height
  BY <1>4, <1>5, <1>7
<1> QED
  BY <1>1, <1>6, <1>8, BlocksAssumption DEF BlockRecord

(* A new block is charged to the handover that put one of its transactions *)
(* into the mempool the miner took.                                        *)
LEMMA NewBlockMines ==
    ASSUME NetworkInv, NetworkInv', UNCHANGED <<setup, submits>>, MiningInv,
           NEW n \in Node, miner[n].mining, NEW b \in Low, b \notin Tree,
           b.prev = miner[n].on.hash, b.height = miner[n].on.height + 1, b.txs = miner[n].txs,
           Verdict(chain[n], b) = "valid", TakesBlock(n, b),
           Transactions(msgs') \subseteq Transactions(msgs),
           \A m \in msgs' : m \in msgs \/ (m.kind = "Block" => m.block = b),
           \A p \in Node : miner'[p].mining => miner'[p] = miner[p]
    PROVE  MiningInv'
<1> DEFINE on == miner[n].on
           more == Tree \cup {b}
<1>1. /\ Placed /\ Dense(Tree) /\ Worthwhile /\ TreeInv(Tree) /\ Tree \in SUBSET Blocks
      /\ setup \in Setups /\ b \in Blocks
  BY TreesAreBlocks DEF MiningInv, Placed, Low, NetworkInv
<1>2. on \in chain[n].blocks /\ on \in Tree
  BY <1>1, TreesAreBlocks DEF Placed
<1>3. Tree' = more
  BY DEF TakesBlock
<1>4. PICK what, used, due, by :
         Accounts(what, used, due) /\ Charged(Tree, what, used, by) /\ Spendable(what, used, by)
  BY DEF MiningInv, History
<1>5. b.txs # {} \/ Near(Tree, on, b.height)
  BY <1>1 DEF Worthwhile
<1>6. PICK h : Pays(Tree, what, used, by, h, b, on)
  <2>1. \A tx \in b.txs : CanCharge(Tree, what, used, by, tx, on)
    BY <1>4 DEF Spendable
  <2>2. b.txs # {} => \E h \in used : what[Submission(h)] \in b.txs /\ Unspent(Tree, by, h, on)
    BY <2>1 DEF CanCharge
  <2> QED
    BY <2>2 DEF Pays
<1> HIDE DEF on
<1>7. b.prev = on.hash /\ b.height = on.height + 1
  BY DEF on
<1>8. b.hash \notin HashesOf(Tree) /\ HeightFits(Tree, b)
  <2>1. \A c \in Tree : c.hash # b.hash
    BY <1>1, NoTwin
  <2> QED
    BY <1>2, <1>7, <2>1 DEF HashesOf, HeightFits
<1>9. TreeInv(more)
  BY <1>1, <1>8, TreeGrows
<1>10. Dense(more)
  BY <1>1, <1>2, <1>5, <1>7, <1>9, DenseGrows
<1>11. PICK by2 : Charged(more, what, used, by2) /\ \A c \in Filled(Tree) : by2[c] = by[c]
  <2>1. /\ Tree \in SUBSET Blocks /\ TreeInv(Tree) /\ b \in Blocks /\ TreeInv(Tree \cup {b})
        /\ on \in Tree /\ on.hash = b.prev /\ b.height = on.height + 1
    BY <1>1, <1>2, <1>7, <1>9
  <2> QED
    BY <1>4, <1>6, <2>1, ChargedGrows
<1>12. \E due2 : Accounts(what, used, due2)'
  BY <1>4, AccountsStay DEF TakesBlock
<1>13. Tree \subseteq Tree' /\ b \in Tree' /\ TreeInv(Tree') /\ Dense(Tree')
       /\ Charged(Tree', what, used, by2)
  BY <1>3, <1>9, <1>10, <1>11
<1>14. Placed'
  BY <1>1, <1>13, PlacedStays DEF TakesBlock
<1>15. \A p \in Node : \A tx \in chain'[p].mempool :
         \/ tx \in chain[p].mempool /\ chain'[p].tip = chain[p].tip
         \/ /\ chain'[p].tip = chain[p].tip
            /\ \E h2 \in used \ used : what[Submission(h2)] = tx
         \/ tx \notin ChainTxs(HashByHeight(chain'[p]))
  BY DEF TakesBlock, Settles
<1>16. \A p \in Node : miner'[p].mining =>
         \/ miner'[p] = miner[p]
         \/ /\ HasPendingWork(chain[p])
            /\ miner'[p] = Working(chain[p].tip, chain[p].mempool)
  OBVIOUS
<1> QED
  BY <1>1, <1>4, <1>11, <1>12, <1>13, <1>14, <1>15, <1>16, MiningStays

LEMMA FindBlockMines ==
    ASSUME NetworkInv, NetworkInv', UNCHANGED setup, MiningInv, NEW n \in Node, FindBlock(n)
    PROVE  MiningInv'
<1>1. PICK nonce \in Nonces[n] :
        LET b == MinedBlock(miner[n], nonce) IN
        /\ chain' = [chain EXCEPT ![n] = WithBlock(@, b)]
        /\ msgs' = msgs \cup
                   IF Verdict(chain[n], b) = "valid" THEN GossipBlock(n, b, {}) ELSE {}
  BY DEF FindBlock
<1> DEFINE b == MinedBlock(miner[n], nonce)
<1>2. /\ b.prev = miner[n].on.hash /\ b.height = miner[n].on.height + 1 /\ b.txs = miner[n].txs
      /\ b \in Low /\ miner[n].mining /\ UNCHANGED submits
  BY MinedIsLow DEF FindBlock, MinedBlock
<1>3. /\ chain' = [chain EXCEPT ![n] = WithBlock(@, b)]
      /\ \A k \in msgs' : \/ k \in msgs
                          \/ Verdict(chain[n], b) = "valid" /\ k \in GossipBlock(n, b, {})
  BY <1>1
<1>4. \A k \in GossipBlock(n, b, {}) : k.kind = "Block" /\ k.block = b
  BY DEF GossipBlock, BlockMsg
<1>5. \A p \in Node : miner'[p].mining => miner'[p] = miner[p]
  BY DEF FindBlock, NetworkInv, Idle
<1> HIDE DEF b
<1>6. TakesBlock(n, b)
  BY <1>2, <1>3, BlockTaken
<1>7. Verdict(chain[n], b) # "unknown_parent"
  <2>1. miner[n].on \in chain[n].blocks
    BY <1>2 DEF MiningInv, Placed
  <2> QED
    BY <1>2, <2>1 DEF Verdict, ValidateBlock, ParentKnown, HashesOf
<1>8. /\ Transactions(msgs') \subseteq Transactions(msgs)
      /\ \A k \in msgs' : \/ k \in msgs
                          \/ Verdict(chain[n], b) = "valid" /\ k.block = b
  BY <1>3, <1>4 DEF Transactions
<1>9. CASE Verdict(chain[n], b) = "valid" /\ b \notin Tree
  BY <1>2, <1>5, <1>6, <1>8, <1>9, NewBlockMines
<1>10. CASE ~(Verdict(chain[n], b) = "valid" /\ b \notin Tree)
  <2>1. Tree' = Tree
    BY <1>6, <1>10 DEF TakesBlock
  <2>2. \A k \in msgs' : k \in msgs \/ (k.kind = "Block" => k.block \in Tree)
    BY <1>8, <1>10
  <2>3. \A p \in Node : Waiting(chain'[p]) \subseteq Waiting(chain[p]) \cup Tree
    BY <1>6, <1>7 DEF TakesBlock
  <2> QED
    BY <1>2, <1>5, <1>6, <1>8, <2>1, <2>2, <2>3, QuietMines DEF TakesBlock
<1> QED
  BY <1>9, <1>10

LEMMA StepMines ==
    ASSUME NetworkInv, NetworkInv', UNCHANGED setup, MiningInv, Step,
           \A n \in Node : ~Restart(n)
    PROVE  MiningInv'
<1>1. CASE \E n \in Node, tx \in Txs : SubmitTransaction(n, tx)
  BY <1>1, SubmitTransactionMines
<1>2. CASE \E m \in msgs : Deliver(m)
  <2>1. PICK m \in msgs : Deliver(m)
    BY <1>2
  <2>2. UNCHANGED submits
    BY <2>1 DEF Deliver
  <2>3. \/ m.kind = "Transaction" /\ OnPeerTransaction(m)
        \/ m.kind = "Block" /\ IngestBlock(m)
        \/ OnPeerStatusRequest(m) \/ OnPeerStatusResponse(m) \/ OnPeerBlockRequest(m)
    BY <2>1 DEF Deliver
  <2> QED
    BY <2>2, <2>3, OnPeerTransactionMines, IngestBlockMines, AnswerMines
<1>3. CASE \E m \in msgs : Lose(m)
  BY <1>3, LoseMines
<1>4. CASE \E n \in Node : AttachOrphan(n)
  BY <1>4, AttachOrphanMines
<1>5. CASE \E n \in Node : StartMining(n) \/ AbandonMining(n) \/ CatchUp(n)
  BY <1>5, LoopsMine
<1>6. CASE \E n \in Node : FindBlock(n)
  BY <1>6, FindBlockMines
<1> QED
  BY <1>1, <1>2, <1>3, <1>4, <1>5, <1>6 DEF Step

LEMMA InitMines == Init => MiningInv
<1> SUFFICES ASSUME Init PROVE MiningInv
  OBVIOUS
<1>1. /\ \A n \in Node : /\ chain[n] = EmptyState /\ ~miner[n].mining
      /\ msgs = {} /\ submits = 0 /\ setup \in Setups
  BY DEF Init, Idle
<1>2. Tree \subseteq {Genesis}
  BY <1>1 DEF Tree, EmptyState
<1>3. TreeInv(Tree)
  <2>1. TreeInv({Genesis})
    BY <1>1, EmptyStateIsGood DEF StateInv, EmptyState
  <2>2. TreeInv({})
    BY DEF TreeInv
  <2> QED
    BY <1>2, <2>1, <2>2
<1>4. Placed
  BY <1>1, <1>3 DEF Placed, EmptyState, Waiting
<1>5. Dense(Tree)
  <2>1. \A b \in Tree : b.height = 0
    BY <1>2, BlocksAssumption
  <2> QED
    BY <2>1 DEF Dense
<1>6. Worthwhile
  BY <1>1 DEF Worthwhile
<1>7. History
  <2> DEFINE none == [x \in {} |-> x]
  <2>1. Accounts(none, {}, none)
    BY <1>1 DEF Accounts, Transactions, EmptyState
  <2>2. Filled(Tree) = {}
    BY <1>2, BlocksAssumption DEF Filled
  <2>3. Charged(Tree, none, {}, none)
    BY <2>2 DEF Charged
  <2>4. Spendable(none, {}, none)
    BY <1>1 DEF Spendable, EmptyState
  <2> HIDE DEF none
  <2> QED
    BY <2>1, <2>3, <2>4 DEF History
<1> QED
  BY <1>4, <1>5, <1>6, <1>7 DEF MiningInv

--------------------------------------------------------------------------------

(* What the invariant is for: a chain that is still mined on is short. *)
LEMMA PendingIsShort ==
    ASSUME IsFiniteSet(Node), NetworkInv, MiningInv, NEW n \in Node, HasPendingWork(chain[n])
    PROVE  chain[n].tip.height < MostBlocks
<1>1. PICK what, used, due, by :
         Accounts(what, used, due) /\ Charged(Tree, what, used, by) /\ Spendable(what, used, by)
  BY DEF MiningInv, History
<1>2. /\ Tree \in SUBSET Blocks /\ TreeInv(Tree) /\ Dense(Tree) /\ chain[n].tip \in Tree
      /\ used \in SUBSET Handovers(submits)
  BY <1>1, TreesAreBlocks DEF MiningInv, Placed, Accounts
<1>3. CASE Near(Tree, chain[n].tip, chain[n].tip.height + 1)
  BY <1>1, <1>2, <1>3, LineIsShort
<1>4. CASE chain[n].mempool # {}
  <2>1. \E h \in used : Unspent(Tree, by, h, chain[n].tip)
    BY <1>1, <1>4 DEF Spendable, CanCharge
  <2> QED
    BY <1>1, <1>2, <2>1, LineIsShort
<1> QED
  BY <1>2, <1>3, <1>4, PendingWorkIsNear

(* In a team of any finite size, and however the races between its miners  *)
(* go, _has_pending_work turns false before a chain has as many blocks as  *)
(* the nodes can be handed submitted transactions, each with the blocks    *)
(* that confirm it, unless a process is restarted.                         *)
THEOREM MiningTheorem == IsFiniteSet(Node) => (Spec => []MiningEndsByItself)
<1> SUFFICES ASSUME IsFiniteSet(Node) PROVE Spec => []MiningEndsByItself
  OBVIOUS
<1> DEFINE Inv == MaxRestarts = 0 => MiningInv
<1>1. Init => Inv
  BY InitMines
<1>2. NetworkInv /\ NetworkInv' /\ Inv /\ [Next]_<<vars, setup>> => Inv'
  <2> SUFFICES ASSUME NetworkInv, NetworkInv', Inv, [Next]_<<vars, setup>>, MaxRestarts' = 0
               PROVE  MiningInv'
    OBVIOUS
  <2>1. UNCHANGED setup
    BY DEF Next
  <2>2. MaxRestarts = 0 /\ MiningInv
    BY <2>1 DEF MaxRestarts
  <2>3. CASE UNCHANGED <<vars, setup>>
    <3>1. UNCHANGED <<chain, submits, miner, msgs>>
      BY <2>3 DEF vars
    <3> QED
      BY <2>1, <2>2, <3>1, NoChainMines
  <2>4. CASE Next
    <3>1. \A n \in Node : ~Restart(n)
      BY <2>2 DEF Restart, NetworkInv, CountersOK
    <3> QED
      BY <2>1, <2>2, <2>4, <3>1, StepMines DEF Next
  <2> QED
    BY <2>3, <2>4
<1>3. NetworkInv /\ Inv => MiningEndsByItself
  BY PendingIsShort DEF MiningEndsByItself
<1> QED
  BY <1>1, <1>2, <1>3, NetworkInvariance, PTL DEF Spec

(* The other side: a node has no work left only when each transaction it   *)
(* said yes to is on its main chain with the required number of blocks on  *)
(* top.  _has_pending_work looks at the transactions of the chain alone,   *)
(* and would miss one that is neither there nor in the mempool.            *)
THEOREM WorkEndsConfirmed ==
    Spec => [](\A n \in Node : ~HasPendingWork(chain[n]) =>
                  \A tx \in chain[n].transactions : IsConfirmed(chain[n], tx))
<1>1. ASSUME NetworkInv, NEW n \in Node, ~HasPendingWork(chain[n]),
             NEW tx \in chain[n].transactions
      PROVE  IsConfirmed(chain[n], tx)
  <2> DEFINE s == chain[n]
             f == HashByHeight(s)
  <2>1. tx \in ChainTxs(f) /\ ~(Confirmations(f, s.tip, tx) < RequiredConfirmations)
    BY <1>1 DEF HasPendingWork, NetworkInv, StateInv, TransactionsKept, HashByHeight
  <2>2. /\ s.blocks \in SUBSET Blocks /\ TreeInv(s.blocks) /\ s.tip \in s.blocks
        /\ f = MainChain(s.blocks, s.tip) /\ setup \in Setups
    BY <1>1, TreesAreBlocks DEF HashByHeight, NetworkInv
  <2> HIDE DEF s, f
  <2>3. PICK c \in Line(s.blocks, s.tip) :
           Confirmations(f, s.tip, tx) = s.tip.height - c.height
    BY <2>1, <2>2, LastCopy
  <2>4. s.tip.height \in Nat /\ c.height \in 0..s.tip.height /\ RequiredConfirmations \in Nat
    BY <2>2, LineIsPath, BlocksAssumption, NetworkAssumption DEF BlockRecord, RequiredConfirmations
  <2>5. Confirmations(f, s.tip, tx) >= RequiredConfirmations
    BY <2>1, <2>3, <2>4
  <2> QED
    BY <2>1, <2>5 DEF IsConfirmed, s, f
<1>2. NetworkInv => \A n \in Node : ~HasPendingWork(chain[n]) =>
                       \A tx \in chain[n].transactions : IsConfirmed(chain[n], tx)
  BY <1>1
<1> QED
  BY <1>2, NetworkInvariance, PTL
================================================================================
