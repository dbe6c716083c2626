------------------------- MODULE BlockchainNetworkProofs -------------------------
(***************************************************************************)
(* What holds of the team for any number of nodes, transactions and blocks *)
(* and any setup: losses, reordered datagrams, overlapping rounds of the   *)
(* catch-up loops and restarts.  Each node keeps StateInv; the steps of    *)
(* the network change the state of a node only by WithTransaction,         *)
(* WithBlock and the return to EmptyState, so that each node implements    *)
(* fork choice; and what gossip has passed on stays known or on its way.   *)
(***************************************************************************)
EXTENDS BlockchainNetwork, ChainRulesProofs

(* The blocks within the bound on mined heights. *)
Low == {b \in Blocks : b.height <= MaxHeight}

States ==
    [blocks: SUBSET Low, tip: Low, orphans: SUBSET Low, transactions: SUBSET Txs,
     mempool: SUBSET Txs, pending: SUBSET Low]

(* The tree: one block per hash, every block but genesis on its parent,    *)
(* and every block at the end of a path.                                   *)
TreeInv(blocks) ==
    /\ \A b, c \in blocks : b.hash = c.hash => b = c
    /\ \A b \in blocks \ {Genesis} : HeightFits(blocks, b)
    /\ \A b \in blocks : \E f \in [0..b.height -> blocks] : IsPath(blocks, f, b)

BestOf(blocks, tip) ==
    /\ tip \in blocks
    /\ \A b \in blocks : b = tip \/ IsBetterTip(tip, b)

TransactionsKept(s) ==
    /\ s.mempool \subseteq s.transactions
    /\ s.transactions \subseteq s.mempool \cup ChainTxs(MainChain(s.blocks, s.tip))

StateInv(s) ==
    /\ s \in States
    /\ TreeInv(s.blocks)
    /\ BestOf(s.blocks, s.tip)
    /\ TransactionsKept(s)

Miners ==
    {Idle} \cup {Working(on, txs) :
                    on \in {b \in Low : b.height < MaxHeight}, txs \in SUBSET Txs}

(* What datagrams carry. *)
MsgOK(m) ==
    /\ m.kind \in Kinds /\ m.from \in Node /\ m.to \in Node \ {m.from}
    /\ m.kind = "Transaction" => m.tx \in Txs
    /\ m.kind = "Block" => m.block \in Low
    /\ m.kind = "StatusResponse" => m.tip \in Low
    /\ m.kind = "BlockRequest" => m.height \in 0..MaxHeight

MsgsOK(ms) == \A m \in ms : MsgOK(m)

CountersOK ==
    /\ submits \in 0..setup.submits /\ losses \in 0..MaxLosses
    /\ restarts \in 0..MaxRestarts

NetworkInv ==
    /\ setup \in Setups
    /\ DOMAIN chain = Node /\ \A n \in Node : StateInv(chain[n])
    /\ miner \in [Node -> Miners]
    /\ MsgsOK(msgs)
    /\ CountersOK

--------------------------------------------------------------------------------
(* The state of one node. *)

LEMMA HeightsAreNatural ==
    ASSUME setup \in Setups
    PROVE  /\ MaxHeight \in Nat /\ MaxLosses \in Nat /\ MaxRestarts \in Nat
           /\ setup.submits \in Nat
           /\ \A b \in Blocks : b \in BlockRecord /\ b.height \in Nat
           /\ Genesis \in Low
<1>1. MaxHeight \in Nat /\ MaxLosses \in Nat /\ MaxRestarts \in Nat /\ setup.submits \in Nat
  BY NetworkAssumption DEF MaxHeight, MaxLosses, MaxRestarts
<1>2. \A b \in Blocks : b \in BlockRecord /\ b.height \in Nat
  BY BlocksAssumption DEF BlockRecord
<1>3. Genesis \in Low
  BY <1>1, BlocksAssumption DEF Low
<1> QED
  BY <1>1, <1>2, <1>3

(* In a good tree MainChain is a path. *)
LEMMA MainChainIsPath ==
    ASSUME NEW blocks \in SUBSET Blocks, TreeInv(blocks), NEW b \in blocks
    PROVE  IsPath(blocks, MainChain(blocks, b), b)
<1>1. b.height \in Nat
  BY BlocksAssumption DEF BlockRecord
<1>2. PICK f : IsPath(blocks, f, b)
  BY DEF TreeInv
<1>3. \A x, y \in blocks : x.hash = y.hash => x = y
  BY DEF TreeInv
<1> QED
  BY <1>1, <1>2, <1>3, WalkFindsPath

(* A block of a larger good tree keeps its main chain. *)
LEMMA MainChainSurvivesGrowth ==
    ASSUME NEW blocks \in SUBSET Blocks, TreeInv(blocks), NEW tip \in blocks,
           NEW more \in SUBSET Blocks, TreeInv(more), blocks \subseteq more
    PROVE  MainChain(more, tip) = MainChain(blocks, tip)
<1> DEFINE f == MainChain(blocks, tip)
<1>1. IsPath(blocks, f, tip)
  BY MainChainIsPath
<1> HIDE DEF f
<1>2. IsPath(more, f, tip)
  BY <1>1, PathSurvivesGrowth
<1>3. tip.height \in Nat /\ tip \in more /\ \A x, y \in more : x.hash = y.hash => x = y
  BY BlocksAssumption DEF BlockRecord, TreeInv
<1>4. MainChain(more, tip) = f
  BY <1>2, <1>3, WalkFindsPath
<1> QED
  BY <1>4 DEF f

(* A valid block keeps the tree good. *)
LEMMA TreeGrows ==
    ASSUME NEW blocks \in SUBSET Blocks, TreeInv(blocks), NEW b \in Blocks,
           b.hash \notin HashesOf(blocks), HeightFits(blocks, b)
    PROVE  TreeInv(blocks \cup {b})
<1> DEFINE more == blocks \cup {b}
<1>1. \A x, y \in more : x.hash = y.hash => x = y
  BY DEF TreeInv, HashesOf
<1>2. \A c \in more \ {Genesis} : HeightFits(more, c)
  BY DEF TreeInv, HeightFits
<1>3. ASSUME NEW c \in blocks
      PROVE  \E f \in [0..c.height -> more] : IsPath(more, f, c)
  <2>1. PICK f \in [0..c.height -> blocks] : IsPath(blocks, f, c)
    BY DEF TreeInv
  <2>2. f \in [0..c.height -> more] /\ blocks \subseteq more
    BY <2>1
  <2> HIDE DEF more
  <2>3. IsPath(more, f, c)
    BY <2>1, <2>2, PathSurvivesGrowth
  <2> QED
    BY <2>2, <2>3
<1>4. \E f \in [0..b.height -> more] : IsPath(more, f, b)
  <2>1. PICK p \in blocks : p.hash = b.prev /\ b.height = p.height + 1
    BY DEF HeightFits
  <2>2. PICK f \in [0..p.height -> more] : IsPath(more, f, p)
    BY <1>3
  <2>3. more \in SUBSET Blocks /\ b \in more /\ p \in more
    OBVIOUS
  <2> HIDE DEF more
  <2> QED
    BY <2>1, <2>2, <2>3, PathExtends
<1>5. \A c \in more : \E f \in [0..c.height -> more] : IsPath(more, f, c)
  BY <1>3, <1>4
<1> HIDE DEF more
<1>6. TreeInv(more)
  BY <1>1, <1>2, <1>5 DEF TreeInv
<1> QED
  BY <1>6 DEF more

(* Fork choice keeps the best tip, or moves to the new block. *)
LEMMA BestGrows ==
    ASSUME NEW blocks \in SUBSET Blocks, NEW tip, BestOf(blocks, tip), NEW b \in Blocks,
           b.hash \notin HashesOf(blocks)
    PROVE  /\ IsBetterTip(b, tip) => BestOf(blocks \cup {b}, b)
           /\ ~IsBetterTip(b, tip) => BestOf(blocks \cup {b}, tip)
<1>1. tip \in blocks /\ \A c \in blocks : c = tip \/ IsBetterTip(tip, c)
  BY DEF BestOf
<1>2. b \in BlockRecord /\ blocks \subseteq BlockRecord
  BY BlocksAssumption
<1>3. ASSUME IsBetterTip(b, tip), NEW c \in blocks PROVE IsBetterTip(b, c)
  BY <1>1, <1>2, <1>3, BetterIsTransitive
<1>4. ~IsBetterTip(b, tip) => IsBetterTip(tip, b)
  BY <1>1, <1>2, BetterIsTotal DEF HashesOf
<1> QED
  BY <1>1, <1>3, <1>4 DEF BestOf

--------------------------------------------------------------------------------
(* What add_block and add_transaction do to the state of a node. *)

LEMMA EmptyStateIsGood == setup \in Setups => StateInv(EmptyState)
<1> SUFFICES ASSUME setup \in Setups PROVE StateInv(EmptyState)
  OBVIOUS
<1>1. Genesis \in Low /\ Genesis.height = 0
  BY HeightsAreNatural, BlocksAssumption
<1>2. EmptyState \in States
  BY <1>1 DEF EmptyState, States
<1>3. TreeInv({Genesis})
  <2> DEFINE f == [h \in 0..0 |-> Genesis]
  <2>1. 0..0 = {0} /\ 1..0 = {}
    OBVIOUS
  <2>2. IsPath({Genesis}, f, Genesis) /\ f \in [0..Genesis.height -> {Genesis}]
    BY <1>1, <2>1 DEF IsPath
  <2> HIDE DEF f
  <2> QED
    BY <2>2 DEF TreeInv
<1>4. BestOf({Genesis}, Genesis)
  BY DEF BestOf
<1>5. TransactionsKept(EmptyState)
  BY DEF TransactionsKept, EmptyState
<1> QED
  BY <1>2, <1>3, <1>4, <1>5 DEF StateInv, EmptyState

LEMMA WithTransactionIsGood ==
    ASSUME NEW s, StateInv(s), NEW tx \in Txs
    PROVE  StateInv(WithTransaction(s, tx)) /\ WithTransaction(s, tx).tip = s.tip
           /\ WithTransaction(s, tx).blocks = s.blocks
           /\ WithTransaction(s, tx).orphans = s.orphans
           /\ WithTransaction(s, tx).pending = s.pending
<1> DEFINE t == WithTransaction(s, tx)
<1>1. s \in States
  BY DEF StateInv
<1>2. /\ t \in States /\ t.blocks = s.blocks /\ t.tip = s.tip
      /\ t.orphans = s.orphans /\ t.pending = s.pending
      /\ t.transactions = s.transactions \cup {tx} /\ t.mempool = s.mempool \cup {tx}
  BY <1>1 DEF WithTransaction, States
<1> HIDE DEF t
<1>3. TransactionsKept(t)
  BY <1>2 DEF StateInv, TransactionsKept
<1>4. StateInv(t)
  BY <1>2, <1>3 DEF StateInv
<1> QED
  BY <1>2, <1>4 DEF t

(* The state after WithTip, where base is the state with the new block. *)
LEMMA WithTipIsGood ==
    ASSUME NEW s, StateInv(s), NEW b \in Low, setup \in Setups,
           b.hash \notin HashesOf(s.blocks), HeightFits(s.blocks, b),
           NEW base \in States, base.blocks = s.blocks \cup {b}, base.tip = s.tip,
           base.transactions = s.transactions, base.mempool = s.mempool
    PROVE  /\ StateInv(WithTip(base, b))
           /\ \/ WithTip(base, b).tip = s.tip
              \/ IsBetterTip(WithTip(base, b).tip, s.tip)
           /\ WithTip(base, b).blocks = base.blocks
           /\ WithTip(base, b).orphans = base.orphans
           /\ WithTip(base, b).pending = base.pending
<1> DEFINE more == s.blocks \cup {b}
           old == MainChain(more, s.tip)
           new == MainChain(more, b)
           pool == ReconcileMempool(s.mempool, s.transactions, old, new)
<1>1. /\ s.blocks \in SUBSET Blocks /\ more \in SUBSET Blocks /\ b \in Blocks
      /\ s \in States /\ TreeInv(s.blocks) /\ BestOf(s.blocks, s.tip)
  BY DEF StateInv, States, Low
<1>2. TreeInv(more)
  BY <1>1, TreeGrows
<1>3. /\ IsBetterTip(b, s.tip) => BestOf(more, b)
      /\ ~IsBetterTip(b, s.tip) => BestOf(more, s.tip)
  BY <1>1, BestGrows
<1>4. old = MainChain(s.blocks, s.tip)
  <2>1. s.tip \in s.blocks /\ s.blocks \subseteq more
    BY <1>1 DEF BestOf
  <2> HIDE DEF more
  <2> QED
    BY <1>1, <1>2, <2>1, MainChainSurvivesGrowth
<1>5. s.mempool \subseteq s.transactions /\ s.transactions \subseteq s.mempool \cup ChainTxs(old)
  BY <1>4 DEF StateInv, TransactionsKept
<1>6. CASE IsBetterTip(b, s.tip)
  <2>1. WithTip(base, b) = [base EXCEPT !.tip = b, !.mempool = pool]
    BY <1>6 DEF WithTip, HashByHeight
  <2>2. pool \subseteq s.transactions /\ s.transactions \subseteq pool \cup ChainTxs(new)
    BY <1>5 DEF ReconcileMempool
  <2>3. pool \in SUBSET Txs
    BY <2>2, <1>1 DEF States
  <2> HIDE DEF pool, old, new
  <2>4. /\ WithTip(base, b) \in States
        /\ WithTip(base, b).blocks = more /\ WithTip(base, b).tip = b
        /\ WithTip(base, b).orphans = base.orphans
        /\ WithTip(base, b).pending = base.pending
        /\ WithTip(base, b).transactions = s.transactions
        /\ WithTip(base, b).mempool = pool
    BY <2>1, <2>3 DEF States
  <2>5. TransactionsKept(WithTip(base, b))
    BY <2>2, <2>4 DEF TransactionsKept, new
  <2> HIDE DEF more
  <2>6. StateInv(WithTip(base, b))
    BY <1>2, <1>3, <1>6, <2>4, <2>5 DEF StateInv
  <2> QED
    BY <1>6, <2>4, <2>6 DEF more
<1>7. CASE ~IsBetterTip(b, s.tip)
  <2>1. WithTip(base, b) = base
    BY <1>7 DEF WithTip
  <2>2. TransactionsKept(base)
    BY <1>5 DEF TransactionsKept
  <2> HIDE DEF more
  <2>3. StateInv(base)
    BY <1>2, <1>3, <1>7, <2>2 DEF StateInv, more
  <2> QED
    BY <2>1, <2>3
<1> QED
  BY <1>6, <1>7

(* One iteration of add_block keeps the state good; the tip stays or gets  *)
(* better, and blocks only join the tree.                                  *)
LEMMA WithBlockIsGood ==
    ASSUME NEW s, StateInv(s), NEW b \in Low, setup \in Setups
    PROVE  /\ StateInv(WithBlock(s, b))
           /\ \/ WithBlock(s, b).tip = s.tip
              \/ IsBetterTip(WithBlock(s, b).tip, s.tip)
           /\ s.blocks \subseteq WithBlock(s, b).blocks
           /\ Verdict(s, b) = "unknown_parent" =>
                 WithBlock(s, b).orphans = s.orphans \cup {b}
           /\ Verdict(s, b) # "unknown_parent" =>
                 WithBlock(s, b).orphans \subseteq s.orphans
           /\ WithBlock(s, b).pending \subseteq s.pending \cup s.orphans
<1> DEFINE waiting == {o \in s.orphans : o.prev = b.hash}
           queue == s.pending \ {b}
           base == [s EXCEPT !.blocks = @ \cup {b}, !.orphans = @ \ waiting,
                             !.pending = queue \cup waiting]
           orphaned == [s EXCEPT !.orphans = @ \cup {b}, !.pending = queue]
           dropped == [s EXCEPT !.pending = queue]
<1>1. s \in States
  BY DEF StateInv
<1>2. waiting \subseteq s.orphans /\ queue \subseteq s.pending
  OBVIOUS
<1>3. CASE Verdict(s, b) = "valid"
  <2>1. WithBlock(s, b) = WithTip(base, b)
    BY <1>3 DEF WithBlock
  <2> HIDE DEF waiting, queue
  <2>2. /\ base \in States /\ base.blocks = s.blocks \cup {b} /\ base.tip = s.tip
        /\ base.transactions = s.transactions /\ base.mempool = s.mempool
        /\ base.orphans = s.orphans \ waiting /\ base.pending = queue \cup waiting
    BY <1>1, <1>2 DEF States
  <2>3. b.hash \notin HashesOf(s.blocks) /\ HeightFits(s.blocks, b)
    BY <1>3 DEF Verdict, ValidateBlock
  <2> HIDE DEF base
  <2>4. /\ StateInv(WithTip(base, b))
        /\ \/ WithTip(base, b).tip = s.tip
           \/ IsBetterTip(WithTip(base, b).tip, s.tip)
        /\ WithTip(base, b).blocks = base.blocks
        /\ WithTip(base, b).orphans = base.orphans
        /\ WithTip(base, b).pending = base.pending
    BY <2>2, <2>3, WithTipIsGood
  <2> QED
    BY <1>2, <1>3, <2>1, <2>2, <2>4
<1>4. CASE Verdict(s, b) = "unknown_parent"
  <2>1. WithBlock(s, b) = orphaned
    BY <1>4 DEF WithBlock
  <2> HIDE DEF waiting, queue
  <2>2. /\ orphaned \in States /\ orphaned.blocks = s.blocks /\ orphaned.tip = s.tip
        /\ orphaned.transactions = s.transactions /\ orphaned.mempool = s.mempool
        /\ orphaned.orphans = s.orphans \cup {b} /\ orphaned.pending = queue
    BY <1>1, <1>2 DEF States
  <2> HIDE DEF orphaned
  <2>3. StateInv(orphaned)
    BY <2>2 DEF StateInv, TransactionsKept
  <2> QED
    BY <1>2, <1>4, <2>1, <2>2, <2>3
<1>5. CASE Verdict(s, b) \notin {"valid", "unknown_parent"}
  <2>1. WithBlock(s, b) = dropped
    BY <1>5 DEF WithBlock
  <2> HIDE DEF waiting, queue
  <2>2. /\ dropped \in States /\ dropped.blocks = s.blocks /\ dropped.tip = s.tip
        /\ dropped.transactions = s.transactions /\ dropped.mempool = s.mempool
        /\ dropped.orphans = s.orphans /\ dropped.pending = queue
    BY <1>1, <1>2 DEF States
  <2> HIDE DEF dropped
  <2>3. StateInv(dropped)
    BY <2>2 DEF StateInv, TransactionsKept
  <2> QED
    BY <1>2, <1>5, <2>1, <2>2, <2>3
<1> QED
  BY <1>3, <1>4, <1>5

--------------------------------------------------------------------------------
(* What datagrams and miners hold, and what a step has to keep. *)

LEMMA GossipIsGood ==
    ASSUME NEW n \in Node, NEW exclude
    PROVE  /\ \A tx \in Txs : MsgsOK(GossipTransaction(n, tx, exclude))
           /\ \A b \in Low : MsgsOK(GossipBlock(n, b, exclude))
<1>1. \A tx \in Txs, p \in Node \ {n} : MsgOK(TransactionMsg(n, p, tx))
  BY DEF MsgOK, Kinds, TransactionMsg
<1>2. \A b \in Low, p \in Node \ {n} : MsgOK(BlockMsg(n, p, b))
  BY DEF MsgOK, Kinds, BlockMsg
<1> QED
  BY <1>1, <1>2 DEF MsgsOK, GossipTransaction, GossipBlock

(* Every state is good, no tip got worse and no block left a tree. *)
ChainMoves ==
    /\ DOMAIN chain' = Node
    /\ \A n \in Node :
          /\ StateInv(chain'[n])
          /\ chain'[n].tip = chain[n].tip \/ IsBetterTip(chain'[n].tip, chain[n].tip)
          /\ chain[n].blocks \subseteq chain'[n].blocks

LEMMA ChainStays == NetworkInv /\ UNCHANGED chain => ChainMoves
BY DEF NetworkInv, ChainMoves

LEMMA ChainTakesTransaction ==
    ASSUME NetworkInv, NEW n \in Node, NEW tx \in Txs,
           chain' = [chain EXCEPT ![n] = WithTransaction(@, tx)]
    PROVE  ChainMoves
<1>1. /\ StateInv(chain[n]) /\ DOMAIN chain' = Node
      /\ chain'[n] = WithTransaction(chain[n], tx)
      /\ \A p \in Node \ {n} : chain'[p] = chain[p]
  BY DEF NetworkInv
<1>2. /\ StateInv(chain'[n]) /\ chain'[n].tip = chain[n].tip
      /\ chain'[n].blocks = chain[n].blocks
  BY <1>1, WithTransactionIsGood
<1>3. \A p \in Node \ {n} : StateInv(chain'[p])
  BY <1>1 DEF NetworkInv
<1> QED
  BY <1>1, <1>2, <1>3 DEF ChainMoves

LEMMA ChainTakesBlock ==
    ASSUME NetworkInv, NEW n \in Node, NEW b \in Low,
           chain' = [chain EXCEPT ![n] = WithBlock(@, b)]
    PROVE  ChainMoves
<1>1. /\ StateInv(chain[n]) /\ DOMAIN chain' = Node /\ setup \in Setups
      /\ chain'[n] = WithBlock(chain[n], b)
      /\ \A p \in Node \ {n} : chain'[p] = chain[p]
  BY DEF NetworkInv
<1>2. /\ StateInv(chain'[n])
      /\ chain'[n].tip = chain[n].tip \/ IsBetterTip(chain'[n].tip, chain[n].tip)
      /\ chain[n].blocks \subseteq chain'[n].blocks
  BY <1>1, WithBlockIsGood
<1>3. \A p \in Node \ {n} : StateInv(chain'[p])
  BY <1>1 DEF NetworkInv
<1> QED
  BY <1>1, <1>2, <1>3 DEF ChainMoves

(* The setup, and with it every bound, stays. *)
LEMMA StepKeeps ==
    ASSUME NetworkInv, UNCHANGED setup, DOMAIN chain' = Node,
           \A n \in Node : StateInv(chain'[n]),
           miner' \in [Node -> Miners],
           \A m \in msgs' : m \in msgs \/ MsgOK(m),
           CountersOK'
    PROVE  NetworkInv'
<1>1. MaxHeight' = MaxHeight
  BY DEF MaxHeight
<1>2. Low' = Low
  BY <1>1 DEF Low
<1>3. States' = States /\ Miners' = Miners
  BY <1>1, <1>2 DEF States, Miners
<1>4. \A n \in Node : StateInv(chain[n])'
  BY <1>3 DEF StateInv
<1>5. \A m \in msgs' : MsgOK(m)
  BY DEF NetworkInv, MsgsOK
<1>6. MsgsOK(msgs)'
  BY <1>1, <1>2, <1>5 DEF MsgsOK, MsgOK
<1> QED
  BY <1>3, <1>4, <1>6 DEF NetworkInv

(* A miner works on a block below the bound, so what it finds is a block.  *)
LEMMA MinedIsLow ==
    ASSUME NetworkInv, NEW n \in Node, miner[n].mining, NEW nonce \in Nonces[n]
    PROVE  MinedBlock(miner[n], nonce) \in Low
<1>1. miner[n] \in Miners /\ setup \in Setups
  BY DEF NetworkInv
<1>2. miner[n] # Idle
  BY DEF Idle
<1>3. PICK on \in {b \in Low : b.height < MaxHeight}, txs \in SUBSET Txs :
         miner[n] = Working(on, txs)
  BY <1>1, <1>2 DEF Miners
<1>4. /\ on \in Blocks /\ on.height \in Nat /\ MaxHeight \in Nat /\ on.height < setup.height
      /\ nonce \in setup.nonces[n]
  BY <1>1, <1>3, HeightsAreNatural DEF Low, MaxHeight, Nonces
<1>5. MinedBlock(Working(on, txs), nonce) \in Blocks
  BY <1>1, <1>4, MiningAssumption
<1>6. MinedBlock(Working(on, txs), nonce).height = on.height + 1
  BY DEF MinedBlock, Working
<1> QED
  BY <1>3, <1>4, <1>5, <1>6 DEF Low, MaxHeight

--------------------------------------------------------------------------------
(* The handlers. *)

LEMMA BlocksOfTree ==
    ASSUME setup \in Setups, NEW s, StateInv(s), NEW h \in 0..s.tip.height
    PROVE  HashByHeight(s)[h] \in s.blocks /\ s.blocks \subseteq Low
<1>1. s.blocks \in SUBSET Blocks /\ s.blocks \subseteq Low /\ s.tip \in s.blocks /\ TreeInv(s.blocks)
  BY DEF StateInv, States, Low, BestOf
<1>2. IsPath(s.blocks, MainChain(s.blocks, s.tip), s.tip)
  BY <1>1, MainChainIsPath
<1> QED
  BY <1>1, <1>2 DEF IsPath, HashByHeight

LEMMA DeliverKeeps ==
    ASSUME NetworkInv, UNCHANGED setup, NEW m \in msgs, Deliver(m)
    PROVE  NetworkInv' /\ ChainMoves
<1>1. /\ MsgOK(m) /\ setup \in Setups /\ miner \in [Node -> Miners]
      /\ \A n \in Node : StateInv(chain[n])
  BY DEF NetworkInv, MsgsOK
<1>2. m.from \in Node /\ m.to \in Node /\ m.from # m.to
  BY <1>1 DEF MsgOK
<1>3. UNCHANGED miner /\ CountersOK'
  BY DEF Deliver, OnPeerTransaction, IngestBlock, OnPeerStatusRequest,
         OnPeerStatusResponse, OnPeerBlockRequest, NetworkInv, CountersOK,
         MaxLosses, MaxRestarts
<1>4. MaxHeight \in Nat /\ \A b \in Low : b.height \in 0..MaxHeight
  BY <1>1, HeightsAreNatural DEF Low
<1>5. \A h \in 0..MaxHeight : MsgOK(BlockRequestMsg(m.to, m.from, h))
  BY <1>2 DEF MsgOK, Kinds, BlockRequestMsg
<1> DEFINE Good == ChainMoves /\ \A k \in msgs' : k \in msgs \/ MsgOK(k)
<1>6. ASSUME m.kind = "Transaction" /\ OnPeerTransaction(m)
        PROVE  Good
  <2>1. m.tx \in Txs
    BY <1>1, <1>6 DEF MsgOK
  <2>2. ChainMoves
    BY <1>2, <1>6, <2>1, ChainTakesTransaction DEF OnPeerTransaction
  <2>3. MsgsOK(GossipTransaction(m.to, m.tx, {m.from}))
    <3> DEFINE sender == {m.from}
    <3> HIDE DEF sender
    <3>1. MsgsOK(GossipTransaction(m.to, m.tx, sender))
      BY <1>2, <2>1, GossipIsGood
    <3> QED
      BY <3>1 DEF sender
  <2>4. \A k \in msgs' : k \in msgs \/ MsgOK(k)
    BY <1>6, <2>3 DEF OnPeerTransaction, MsgsOK
  <2> QED
    BY <2>2, <2>4
<1>7. ASSUME m.kind = "Block" /\ IngestBlock(m)
        PROVE  Good
  <2>1. m.block \in Low
    BY <1>1, <1>7 DEF MsgOK
  <2>2. ChainMoves
    BY <1>2, <1>7, <2>1, ChainTakesBlock DEF IngestBlock
  <2>3. MsgsOK(GossipBlock(m.to, m.block, {m.from}))
    <3> DEFINE sender == {m.from}
    <3> HIDE DEF sender
    <3>1. MsgsOK(GossipBlock(m.to, m.block, sender))
      BY <1>2, <2>1, GossipIsGood
    <3> QED
      BY <3>1 DEF sender
  <2>4. m.block.height > 0 => MsgOK(BlockRequestMsg(m.to, m.from, m.block.height - 1))
    <3>1. m.block.height \in 0..MaxHeight
      BY <1>4, <2>1
    <3>2. m.block.height > 0 => m.block.height - 1 \in 0..MaxHeight
      BY <1>4, <3>1
    <3> QED
      BY <1>5, <3>2
  <2>5. \A k \in msgs' : \/ k \in msgs
                         \/ k \in GossipBlock(m.to, m.block, {m.from})
                         \/ /\ m.block.height > 0
                            /\ k = BlockRequestMsg(m.to, m.from, m.block.height - 1)
    BY <1>7 DEF IngestBlock
  <2>6. \A k \in msgs' : k \in msgs \/ MsgOK(k)
    BY <2>3, <2>4, <2>5 DEF MsgsOK
  <2> QED
    BY <2>2, <2>6
<1>8. ASSUME m.kind = "StatusRequest" /\ OnPeerStatusRequest(m)
        PROVE  Good
  <2>1. ChainMoves
    BY <1>8, ChainStays DEF OnPeerStatusRequest
  <2>2. chain[m.to].tip \in Low
    BY <1>1, <1>2 DEF StateInv, States
  <2>3. MsgOK(StatusResponseMsg(m.to, m.from, chain[m.to].tip))
    BY <1>2, <2>2 DEF MsgOK, Kinds, StatusResponseMsg
  <2> QED
    BY <1>8, <2>1, <2>3 DEF OnPeerStatusRequest
<1>9. ASSUME m.kind = "StatusResponse" /\ OnPeerStatusResponse(m)
        PROVE  Good
  <2>1. ChainMoves
    BY <1>9, ChainStays DEF OnPeerStatusResponse
  <2>2. m.tip.height \in 0..MaxHeight
    BY <1>1, <1>4, <1>9 DEF MsgOK
  <2>3. \A h \in 1..m.tip.height : h \in 0..MaxHeight
    BY <1>4, <2>2
  <2>4. \A k \in msgs' : \/ k \in msgs
                         \/ \E h \in 1..m.tip.height : k = BlockRequestMsg(m.to, m.from, h)
    BY <1>9 DEF OnPeerStatusResponse
  <2> QED
    BY <1>5, <2>1, <2>3, <2>4
<1>10. ASSUME m.kind = "BlockRequest" /\ OnPeerBlockRequest(m)
        PROVE  Good
  <2>1. ChainMoves
    BY <1>10, ChainStays DEF OnPeerBlockRequest
  <2>2. \A k \in msgs' : \/ k \in msgs
                         \/ /\ m.height \in 0..chain[m.to].tip.height
                            /\ k = BlockMsg(m.to, m.from, HashByHeight(chain[m.to])[m.height])
    BY <1>10 DEF OnPeerBlockRequest
  <2>3. ASSUME m.height \in 0..chain[m.to].tip.height
        PROVE  MsgOK(BlockMsg(m.to, m.from, HashByHeight(chain[m.to])[m.height]))
    <3>1. HashByHeight(chain[m.to])[m.height] \in Low
      <4> DEFINE s == chain[m.to]
                 h == m.height
      <4>1. StateInv(s) /\ h \in 0..s.tip.height
        BY <1>1, <1>2, <2>3
      <4> HIDE DEF s, h
      <4>2. HashByHeight(s)[h] \in Low
        BY <1>1, <4>1, BlocksOfTree
      <4> QED
        BY <4>2 DEF s, h
    <3> QED
      BY <1>2, <3>1 DEF MsgOK, Kinds, BlockMsg
  <2> QED
    BY <2>1, <2>2, <2>3
<1>11. Good
  BY <1>6, <1>7, <1>8, <1>9, <1>10 DEF Deliver
<1> QED
  BY <1>1, <1>3, <1>11, StepKeeps DEF ChainMoves

LEMMA SubmitKeeps ==
    ASSUME NetworkInv, UNCHANGED setup,
           NEW n \in Node, NEW tx \in Txs, SubmitTransaction(n, tx)
    PROVE  NetworkInv' /\ ChainMoves
<1>1. ChainMoves
  BY ChainTakesTransaction DEF SubmitTransaction
<1>2. MsgsOK(GossipTransaction(n, tx, {}))
  <2> DEFINE nobody == {}
  <2> HIDE DEF nobody
  <2>1. MsgsOK(GossipTransaction(n, tx, nobody))
    BY GossipIsGood
  <2> QED
    BY <2>1 DEF nobody
<1>3. \A k \in msgs' : k \in msgs \/ MsgOK(k)
  BY <1>2 DEF SubmitTransaction, MsgsOK
<1>4. CountersOK'
  <2>1. setup.submits \in Nat
    BY HeightsAreNatural DEF NetworkInv
  <2> QED
    BY <2>1 DEF NetworkInv, SubmitTransaction, CountersOK, MaxLosses, MaxRestarts
<1>5. miner' \in [Node -> Miners]
  BY DEF SubmitTransaction, NetworkInv
<1> QED
  BY <1>1, <1>3, <1>4, <1>5, StepKeeps DEF ChainMoves

LEMMA LoseKeeps ==
    ASSUME NetworkInv, UNCHANGED setup, NEW m \in msgs, Lose(m)
    PROVE  NetworkInv' /\ ChainMoves
<1>1. ChainMoves
  BY ChainStays DEF Lose
<1>2. CountersOK'
  <2>1. MaxLosses \in Nat
    BY HeightsAreNatural DEF NetworkInv
  <2> QED
    BY <2>1 DEF NetworkInv, Lose, CountersOK, MaxLosses, MaxRestarts
<1>3. miner' \in [Node -> Miners] /\ \A k \in msgs' : k \in msgs
  BY DEF Lose, NetworkInv
<1> QED
  BY <1>1, <1>2, <1>3, StepKeeps DEF ChainMoves

LEMMA AttachKeeps ==
    ASSUME NetworkInv, UNCHANGED setup, NEW n \in Node, AttachOrphan(n)
    PROVE  NetworkInv' /\ ChainMoves
<1>1. PICK o \in chain[n].pending : chain' = [chain EXCEPT ![n] = WithBlock(@, o)]
  BY DEF AttachOrphan
<1>2. o \in Low
  BY DEF NetworkInv, StateInv, States
<1>3. ChainMoves
  BY <1>1, <1>2, ChainTakesBlock
<1>4. CountersOK' /\ miner' \in [Node -> Miners] /\ UNCHANGED msgs
  BY DEF AttachOrphan, NetworkInv, CountersOK, MaxLosses, MaxRestarts
<1> QED
  BY <1>3, <1>4, StepKeeps DEF ChainMoves

LEMMA MineKeeps ==
    ASSUME NetworkInv, UNCHANGED setup, NEW n \in Node,
           StartMining(n) \/ AbandonMining(n)
    PROVE  NetworkInv' /\ ChainMoves
<1>1. UNCHANGED <<chain, msgs, submits, losses, restarts>>
  BY DEF StartMining, AbandonMining
<1>2. ChainMoves
  BY <1>1, ChainStays
<1>3. CountersOK'
  BY <1>1 DEF NetworkInv, CountersOK, MaxLosses, MaxRestarts
<1>4. Idle \in Miners
  BY DEF Miners
<1>5. StartMining(n) => Working(chain[n].tip, chain[n].mempool) \in Miners
  BY DEF StartMining, Miners, NetworkInv, StateInv, States
<1>6. miner' \in [Node -> Miners]
  BY <1>4, <1>5 DEF StartMining, AbandonMining, NetworkInv
<1> QED
  BY <1>1, <1>2, <1>3, <1>6, StepKeeps DEF ChainMoves

LEMMA FindKeeps ==
    ASSUME NetworkInv, UNCHANGED setup, NEW n \in Node, FindBlock(n)
    PROVE  NetworkInv' /\ ChainMoves
<1>1. PICK nonce \in Nonces[n] :
        LET b == MinedBlock(miner[n], nonce) IN
        /\ chain' = [chain EXCEPT ![n] = WithBlock(@, b)]
        /\ msgs' = msgs \cup
                   IF Verdict(chain[n], b) = "valid" THEN GossipBlock(n, b, {}) ELSE {}
  BY DEF FindBlock
<1> DEFINE b == MinedBlock(miner[n], nonce)
           nobody == {}
<1>2. b \in Low
  BY MinedIsLow DEF FindBlock
<1>3. /\ chain' = [chain EXCEPT ![n] = WithBlock(@, b)]
      /\ \A k \in msgs' : k \in msgs \/ k \in GossipBlock(n, b, nobody)
  BY <1>1
<1> HIDE DEF b, nobody
<1>4. ChainMoves
  BY <1>2, <1>3, ChainTakesBlock
<1>5. MsgsOK(GossipBlock(n, b, nobody))
  BY <1>2, GossipIsGood
<1>6. \A k \in msgs' : k \in msgs \/ MsgOK(k)
  BY <1>3, <1>5 DEF MsgsOK
<1>7. CountersOK' /\ miner' \in [Node -> Miners]
  BY DEF FindBlock, NetworkInv, CountersOK, MaxLosses, MaxRestarts, Miners
<1> QED
  BY <1>4, <1>6, <1>7, StepKeeps DEF ChainMoves

LEMMA CatchUpKeeps ==
    ASSUME NetworkInv, UNCHANGED setup, NEW n \in Node, CatchUp(n)
    PROVE  NetworkInv' /\ ChainMoves
<1>1. ChainMoves
  BY ChainStays DEF CatchUp
<1>2. \A p \in Node \ {n} : MsgOK(StatusRequestMsg(n, p))
  BY DEF MsgOK, Kinds, StatusRequestMsg
<1>3. \A k \in msgs' : k \in msgs \/ MsgOK(k)
  BY <1>2 DEF CatchUp
<1>4. CountersOK' /\ miner' \in [Node -> Miners]
  BY DEF CatchUp, NetworkInv, CountersOK, MaxLosses, MaxRestarts
<1> QED
  BY <1>1, <1>3, <1>4, StepKeeps DEF ChainMoves

LEMMA RestartKeeps ==
    ASSUME NetworkInv, UNCHANGED setup, NEW n \in Node, Restart(n)
    PROVE  NetworkInv'
<1>1. setup \in Setups
  BY DEF NetworkInv
<1>2. /\ DOMAIN chain' = Node /\ chain'[n] = EmptyState
      /\ \A p \in Node \ {n} : chain'[p] = chain[p]
  BY DEF Restart, NetworkInv
<1>3. StateInv(EmptyState)
  BY <1>1, EmptyStateIsGood
<1>4. \A p \in Node : StateInv(chain'[p])
  BY <1>2, <1>3 DEF NetworkInv
<1>5. CountersOK'
  <2>1. MaxRestarts \in Nat
    BY <1>1, HeightsAreNatural
  <2> QED
    BY <2>1 DEF NetworkInv, Restart, CountersOK, MaxLosses, MaxRestarts
<1>6. miner' \in [Node -> Miners] /\ UNCHANGED msgs
  BY DEF Restart, NetworkInv, Miners
<1> QED
  BY <1>2, <1>4, <1>5, <1>6, StepKeeps

(* Every step but a restart moves the nodes on; a restart counts itself.   *)
LEMMA NextKeeps ==
    ASSUME NetworkInv, [Next]_<<vars, setup>>
    PROVE  NetworkInv' /\ (ChainMoves \/ restarts' # restarts)
<1>1. CASE UNCHANGED <<vars, setup>>
  <2>1. UNCHANGED <<chain, miner, msgs, submits, losses, restarts, setup>>
    BY <1>1 DEF vars
  <2>2. ChainMoves
    BY <2>1, ChainStays
  <2>3. CountersOK' /\ miner' \in [Node -> Miners]
    BY <2>1 DEF NetworkInv, CountersOK, MaxLosses, MaxRestarts
  <2> QED
    BY <2>1, <2>2, <2>3, StepKeeps DEF ChainMoves
<1>2. CASE Next
  <2>1. UNCHANGED setup
    BY <1>2 DEF Next
  <2>2. CASE \E n \in Node, tx \in Txs : SubmitTransaction(n, tx)
    BY <2>1, <2>2, SubmitKeeps
  <2>3. CASE \E m \in msgs : Deliver(m) \/ Lose(m)
    BY <2>1, <2>3, DeliverKeeps, LoseKeeps
  <2>4. CASE \E n \in Node : AttachOrphan(n)
    BY <2>1, <2>4, AttachKeeps
  <2>5. CASE \E n \in Node : StartMining(n) \/ AbandonMining(n)
    BY <2>1, <2>5, MineKeeps
  <2>6. CASE \E n \in Node : FindBlock(n)
    BY <2>1, <2>6, FindKeeps
  <2>7. CASE \E n \in Node : CatchUp(n)
    BY <2>1, <2>7, CatchUpKeeps
  <2>8. CASE \E n \in Node : Restart(n)
    <3>1. PICK n \in Node : Restart(n)
      BY <2>8
    <3>2. NetworkInv'
      BY <2>1, <3>1, RestartKeeps
    <3>3. restarts' = restarts + 1 /\ restarts \in Nat
      BY <3>1, HeightsAreNatural DEF Restart, NetworkInv, CountersOK
    <3> QED
      BY <3>2, <3>3
  <2> QED
    BY <1>2, <2>2, <2>3, <2>4, <2>5, <2>6, <2>7, <2>8 DEF Next, Step
<1> QED
  BY <1>1, <1>2

LEMMA InitIsGood == Init => NetworkInv
<1> SUFFICES ASSUME Init PROVE NetworkInv
  OBVIOUS
<1>1. setup \in Setups /\ StateInv(EmptyState)
  BY EmptyStateIsGood DEF Init
<1>2. DOMAIN chain = Node /\ \A n \in Node : StateInv(chain[n])
  BY <1>1 DEF Init
<1>3. miner \in [Node -> Miners] /\ MsgsOK(msgs)
  BY DEF Init, Miners, MsgsOK
<1>4. CountersOK
  BY <1>1, HeightsAreNatural DEF Init, CountersOK
<1> QED
  BY <1>1, <1>2, <1>3, <1>4 DEF NetworkInv

LEMMA NetworkInvariance == Spec => []NetworkInv
BY InitIsGood, NextKeeps, PTL DEF Spec

--------------------------------------------------------------------------------

(* The states of the nodes, the miners and the datagrams keep their types: *)
(* each tip is in its tree, no block or request passes the mined heights.  *)
THEOREM NetworkTypeCorrect == Spec => []TypeOK
<1>1. NetworkInv => TypeOK
  <2> SUFFICES ASSUME NetworkInv PROVE TypeOK
    OBVIOUS
  <2>1. ASSUME NEW n \in Node
        PROVE  LET s == chain[n] IN
               /\ s.blocks \cup s.orphans \cup s.pending \subseteq Blocks
               /\ s.tip \in s.blocks
               /\ s.mempool \subseteq s.transactions
               /\ s.transactions \subseteq Txs
               /\ miner[n].mining => miner[n].on \in Blocks /\ miner[n].txs \subseteq Txs
    <3>1. StateInv(chain[n]) /\ miner[n] \in Miners
      BY DEF NetworkInv
    <3>2. miner[n].mining => miner[n].on \in Blocks /\ miner[n].txs \subseteq Txs
      BY <3>1 DEF Miners, Idle, Working, Low
    <3> QED
      BY <3>1, <3>2 DEF StateInv, States, Low, BestOf, TransactionsKept
  <2>2. \A m \in msgs :
          /\ m.kind \in Kinds /\ m.from \in Node /\ m.to \in Node \ {m.from}
          /\ m.kind = "BlockRequest" => m.height \in 0..MaxHeight
    BY DEF NetworkInv, MsgsOK, MsgOK
  <2> QED
    BY <2>1, <2>2 DEF TypeOK, NetworkInv, CountersOK
<1> QED
  BY <1>1, NetworkInvariance, PTL

(* Fork choice needs no votes: any two nodes of the team that know the     *)
(* same blocks have the same tip.                                          *)
THEOREM AgreementTheorem == Spec => []SameBlocksSameTip
<1>1. NetworkInv => SameBlocksSameTip
  <2> SUFFICES ASSUME NetworkInv, NEW n \in Node, NEW p \in Node,
                      chain[n].blocks = chain[p].blocks
               PROVE  chain[n].tip = chain[p].tip
    BY DEF SameBlocksSameTip
  <2> DEFINE tree == chain[n].blocks
             t1 == chain[n].tip
             t2 == chain[p].tip
  <2>1. /\ tree \in SUBSET Blocks /\ \A x, y \in tree : x.hash = y.hash => x = y
        /\ t1 \in tree /\ \A b \in tree : b = t1 \/ IsBetterTip(t1, b)
        /\ t2 \in tree /\ \A b \in tree : b = t2 \/ IsBetterTip(t2, b)
    BY DEF NetworkInv, StateInv, States, Low, TreeInv, BestOf
  <2> HIDE DEF tree, t1, t2
  <2>2. t1 = t2
    BY <2>1, SameTreeSameTip
  <2> QED
    BY <2>2 DEF t1, t2
<1> QED
  BY <1>1, NetworkInvariance, PTL

(* Less is enough for agreement: two nodes that have each other's tip in   *)
(* the tree stand on the same one, whatever else only one of them knows.   *)
(* So it is enough that the catch-up of each brings the chain of the other.*)
THEOREM TipsExchanged ==
    Spec => [](\A n, p \in Node :
                  chain[p].tip \in chain[n].blocks /\ chain[n].tip \in chain[p].blocks
                     => chain[n].tip = chain[p].tip)
<1>1. ASSUME NetworkInv, NEW n \in Node, NEW p \in Node,
             chain[p].tip \in chain[n].blocks, chain[n].tip \in chain[p].blocks
      PROVE  chain[n].tip = chain[p].tip
  <2>1. /\ chain[n].tip = chain[p].tip \/ IsBetterTip(chain[n].tip, chain[p].tip)
        /\ chain[p].tip = chain[n].tip \/ IsBetterTip(chain[p].tip, chain[n].tip)
    BY <1>1 DEF NetworkInv, StateInv, BestOf
  <2>2. chain[n].tip \in BlockRecord /\ chain[p].tip \in BlockRecord
    BY <1>1, BlocksAssumption DEF NetworkInv, StateInv, States, Low
  <2> QED
    BY <2>1, <2>2, BetterIsAsymmetric
<1>2. NetworkInv => \A n, p \in Node :
         chain[p].tip \in chain[n].blocks /\ chain[n].tip \in chain[p].blocks
            => chain[n].tip = chain[p].tip
  BY <1>1
<1> QED
  BY <1>2, NetworkInvariance, PTL

(* No node of the team loses a transaction it said yes to, whatever        *)
(* reorganisations the others cause.                                       *)
THEOREM KeptTheorem == Spec => []NoTransactionLost
<1>1. NetworkInv => NoTransactionLost
  BY DEF NetworkInv, StateInv, TransactionsKept, NoTransactionLost, HashByHeight
<1> QED
  BY <1>1, NetworkInvariance, PTL

(* Only a restart makes a node give up its tip for a worse one. *)
THEOREM ImprovesTheorem == Spec => TipOnlyImproves
<1>1. NetworkInv /\ [Next]_<<vars, setup>> =>
        [\A n \in Node :
            \/ chain'[n].tip = chain[n].tip
            \/ IsBetterTip(chain'[n].tip, chain[n].tip)
            \/ restarts' # restarts]_vars
  BY NextKeeps DEF ChainMoves
<1> QED
  BY <1>1, NetworkInvariance, PTL DEF Spec, TipOnlyImproves

--------------------------------------------------------------------------------
(* Without restarts trees only grow, so that what was built on a known     *)
(* block stays so: what is mined, gossiped, answered or waiting.           *)

NoRestarts == \A s \in Setups : s.restarts = 0

Rooted(b) == b = Genesis \/ \E n \in Node : ParentKnown(chain[n].blocks, b)

Waiting(s) == s.orphans \cup s.pending

ParentInv ==
    /\ \A n \in Node : miner[n].mining => miner[n].on \in chain[n].blocks
    /\ \A n \in Node : \A b \in Waiting(chain[n]) : Rooted(b)
    /\ \A m \in msgs : m.kind = "Block" => Rooted(m.block)

LEMMA ParentStep ==
    ASSUME ParentInv, ChainMoves,
           \A n \in Node : miner'[n].mining => miner'[n].on \in chain'[n].blocks,
           \A n \in Node : \A b \in Waiting(chain'[n]) : Rooted(b),
           \A m \in msgs' : m \in msgs \/ (m.kind = "Block" => Rooted(m.block))
    PROVE  ParentInv'
<1>1. \A b : Rooted(b) => b = Genesis \/ \E n \in Node : ParentKnown(chain'[n].blocks, b)
  BY DEF ChainMoves, Rooted, ParentKnown, HashesOf
<1>2. \A n \in Node : \A b \in Waiting(chain'[n]) :
        b = Genesis \/ \E p \in Node : ParentKnown(chain'[p].blocks, b)
  BY <1>1
<1>3. \A m \in msgs' : m.kind = "Block" => Rooted(m.block)
  BY DEF ParentInv
<1>4. \A m \in msgs' : m.kind = "Block" =>
        m.block = Genesis \/ \E p \in Node : ParentKnown(chain'[p].blocks, m.block)
  BY <1>1, <1>3
<1> QED
  BY <1>2, <1>4 DEF ParentInv, Rooted

LEMMA WaitingAfterBlock ==
    ASSUME NetworkInv, ParentInv, NEW n \in Node, NEW b \in Low, Rooted(b),
           chain' = [chain EXCEPT ![n] = WithBlock(@, b)]
    PROVE  \A p \in Node : \A o \in Waiting(chain'[p]) : Rooted(o)
<1>1. /\ StateInv(chain[n]) /\ setup \in Setups
      /\ chain'[n] = WithBlock(chain[n], b)
      /\ \A p \in Node \ {n} : chain'[p] = chain[p]
  BY DEF NetworkInv
<1>2. Waiting(chain'[n]) \subseteq Waiting(chain[n]) \cup {b}
  <2> DEFINE s == chain[n]
  <2>1. StateInv(s)
    BY <1>1
  <2> HIDE DEF s
  <2>2. /\ WithBlock(s, b).orphans \subseteq s.orphans \cup {b}
        /\ WithBlock(s, b).pending \subseteq s.pending \cup s.orphans
    BY <1>1, <2>1, WithBlockIsGood
  <2> QED
    BY <1>1, <2>2 DEF Waiting, s
<1> QED
  BY <1>1, <1>2 DEF ParentInv

LEMMA ParentsKept ==
    ASSUME NetworkInv, ParentInv, ChainMoves, Step
    PROVE  ParentInv' \/ \E n \in Node : Restart(n)
<1> DEFINE NoOrphan == \A p \in Node : \A o \in Waiting(chain'[p]) : Rooted(o)
           NoReply == \A k \in msgs' : k \in msgs \/ (k.kind = "Block" => Rooted(k.block))
<1>1. UNCHANGED chain => NoOrphan
  BY DEF ParentInv
<1>2. UNCHANGED miner =>
        \A n \in Node : miner'[n].mining => miner'[n].on \in chain'[n].blocks
  BY DEF ParentInv, ChainMoves
<1>3. ASSUME NEW n \in Node, NEW tx \in Txs,
             chain' = [chain EXCEPT ![n] = WithTransaction(@, tx)]
      PROVE  NoOrphan
  <2>1. /\ StateInv(chain[n]) /\ chain'[n] = WithTransaction(chain[n], tx)
        /\ \A p \in Node \ {n} : chain'[p] = chain[p]
    BY <1>3 DEF NetworkInv
  <2>2. Waiting(chain'[n]) = Waiting(chain[n])
    BY <2>1, WithTransactionIsGood DEF Waiting
  <2> QED
    BY <2>1, <2>2 DEF ParentInv
<1>4. \A n \in Node : \A p, tx : TransactionMsg(n, p, tx).kind # "Block"
  BY DEF TransactionMsg
<1>5. CASE \E n \in Node, tx \in Txs : SubmitTransaction(n, tx)
  <2>1. PICK n \in Node, tx \in Txs : SubmitTransaction(n, tx)
    BY <1>5
  <2>2. NoOrphan
    BY <1>3, <2>1 DEF SubmitTransaction
  <2>3. NoReply
    BY <1>4, <2>1 DEF SubmitTransaction, GossipTransaction
  <2> QED
    BY <1>2, <2>1, <2>2, <2>3, ParentStep DEF SubmitTransaction
<1>6. CASE \E m \in msgs : Deliver(m)
  <2>1. PICK m \in msgs : Deliver(m)
    BY <1>6
  <2>2. MsgOK(m) /\ m.to \in Node /\ UNCHANGED miner
    BY <2>1 DEF NetworkInv, MsgsOK, MsgOK, Deliver, OnPeerTransaction, IngestBlock,
                OnPeerStatusRequest, OnPeerStatusResponse, OnPeerBlockRequest
  <2>3. ASSUME m.kind = "Transaction", OnPeerTransaction(m) PROVE NoOrphan /\ NoReply
    <3>1. NoOrphan
      BY <1>3, <2>2, <2>3 DEF OnPeerTransaction, MsgOK
    <3>2. NoReply
      BY <1>4, <2>2, <2>3 DEF OnPeerTransaction, GossipTransaction
    <3> QED
      BY <3>1, <3>2
  <2>4. ASSUME m.kind = "Block", IngestBlock(m) PROVE NoOrphan /\ NoReply
    <3>1. m.block \in Low /\ Rooted(m.block)
      BY <2>2, <2>4 DEF MsgOK, ParentInv
    <3>2. NoOrphan
      BY <2>2, <2>4, <3>1, WaitingAfterBlock DEF IngestBlock
    <3>3. \A k \in msgs' : \/ k \in msgs
                           \/ k \in GossipBlock(m.to, m.block, {m.from})
                           \/ k = BlockRequestMsg(m.to, m.from, m.block.height - 1)
      BY <2>4 DEF IngestBlock
    <3>4. NoReply
      BY <3>1, <3>3 DEF GossipBlock, BlockMsg, BlockRequestMsg
    <3> QED
      BY <3>2, <3>4
  <2>5. ASSUME OnPeerStatusRequest(m) \/ OnPeerStatusResponse(m)
        PROVE  NoOrphan /\ NoReply
    <3>1. NoOrphan
      BY <1>1, <2>5 DEF OnPeerStatusRequest, OnPeerStatusResponse
    <3>2. NoReply
      BY <2>5 DEF OnPeerStatusRequest, OnPeerStatusResponse, StatusResponseMsg,
                  BlockRequestMsg
    <3> QED
      BY <3>1, <3>2
  <2>6. ASSUME OnPeerBlockRequest(m) PROVE NoOrphan /\ NoReply
    <3> DEFINE s == chain[m.to]
               h == m.height
               b == HashByHeight(s)[h]
    <3>1. NoOrphan
      BY <1>1, <2>6 DEF OnPeerBlockRequest
    <3>2. \A k \in msgs' : k \in msgs \/ (h \in 0..s.tip.height /\ k = BlockMsg(m.to, m.from, b))
      BY <2>6 DEF OnPeerBlockRequest
    <3>3. ASSUME h \in 0..s.tip.height PROVE Rooted(b)
      <4>1. StateInv(s) /\ setup \in Setups
        BY <2>2 DEF NetworkInv
      <4>2. b \in s.blocks
        <5> HIDE DEF s, h
        <5> QED
          BY <3>3, <4>1, BlocksOfTree
      <4>3. b = Genesis \/ HeightFits(s.blocks, b)
        BY <4>1, <4>2 DEF StateInv, TreeInv
      <4>4. HeightFits(s.blocks, b) => ParentKnown(s.blocks, b)
        BY DEF HeightFits, ParentKnown, HashesOf
      <4> QED
        BY <2>2, <4>3, <4>4 DEF Rooted
    <3>4. NoReply
      <4>1. BlockMsg(m.to, m.from, b).block = b
        BY DEF BlockMsg
      <4> QED
        BY <3>2, <3>3, <4>1
    <3> QED
      BY <3>1, <3>4
  <2>7. NoOrphan /\ NoReply
    BY <2>1, <2>3, <2>4, <2>5, <2>6 DEF Deliver
  <2> QED
    BY <1>2, <2>2, <2>7, ParentStep
<1>7. CASE \E m \in msgs : Lose(m)
  <2>1. UNCHANGED <<chain, miner>> /\ msgs' \subseteq msgs
    BY <1>7 DEF Lose
  <2> QED
    BY <1>1, <1>2, <2>1, ParentStep
<1>8. CASE \E n \in Node : AttachOrphan(n)
  <2>0. PICK n \in Node : AttachOrphan(n)
    BY <1>8
  <2>1. PICK o \in chain[n].pending :
            chain' = [chain EXCEPT ![n] = WithBlock(@, o)] /\ UNCHANGED <<miner, msgs>>
    BY <2>0 DEF AttachOrphan
  <2>2. o \in Low /\ Rooted(o)
    BY DEF NetworkInv, StateInv, States, ParentInv, Waiting
  <2>3. NoOrphan
    BY <2>1, <2>2, WaitingAfterBlock
  <2> QED
    BY <1>2, <2>1, <2>3, ParentStep
<1>9. CASE \E n \in Node : StartMining(n) \/ AbandonMining(n)
  <2>1. PICK n \in Node : StartMining(n) \/ AbandonMining(n)
    BY <1>9
  <2>2. UNCHANGED <<chain, msgs>>
    BY <2>1 DEF StartMining, AbandonMining
  <2>3. \A p \in Node : miner'[p].mining => miner'[p].on \in chain[p].blocks
    BY <2>1 DEF StartMining, AbandonMining, Working, Idle, NetworkInv, StateInv,
                BestOf, ParentInv
  <2> QED
    BY <1>1, <2>2, <2>3, ParentStep
<1>10. CASE \E n \in Node : FindBlock(n)
  <2>1. PICK n \in Node : FindBlock(n)
    BY <1>10
  <2>2. PICK nonce \in Nonces[n] :
          LET b == MinedBlock(miner[n], nonce) IN
          /\ chain' = [chain EXCEPT ![n] = WithBlock(@, b)]
          /\ msgs' = msgs \cup
                     IF Verdict(chain[n], b) = "valid" THEN GossipBlock(n, b, {}) ELSE {}
    BY <2>1 DEF FindBlock
  <2> DEFINE b == MinedBlock(miner[n], nonce)
             nobody == {}
  <2>3. b \in Low
    BY <2>1, MinedIsLow DEF FindBlock
  <2>4. Rooted(b)
    <3>1. b.prev = miner[n].on.hash /\ miner[n].on \in chain[n].blocks
      BY <2>1 DEF FindBlock, MinedBlock, ParentInv
    <3> HIDE DEF b
    <3> QED
      BY <3>1 DEF Rooted, ParentKnown, HashesOf
  <2>5. /\ chain' = [chain EXCEPT ![n] = WithBlock(@, b)]
        /\ \A k \in msgs' : k \in msgs \/ k \in GossipBlock(n, b, nobody)
    BY <2>2
  <2> HIDE DEF b, nobody
  <2>6. NoOrphan
    BY <2>3, <2>4, <2>5, WaitingAfterBlock
  <2>7. NoReply
    BY <2>4, <2>5 DEF GossipBlock, BlockMsg
  <2>8. \A p \in Node : miner'[p].mining => miner'[p].on \in chain'[p].blocks
    BY <2>1 DEF FindBlock, Idle, NetworkInv, ParentInv, ChainMoves
  <2> QED
    BY <2>6, <2>7, <2>8, ParentStep
<1>11. CASE \E n \in Node : CatchUp(n)
  <2>1. UNCHANGED <<chain, miner>> /\ NoReply
    BY <1>11 DEF CatchUp, StatusRequestMsg
  <2> QED
    BY <1>1, <1>2, <2>1, ParentStep
<1> QED
  BY <1>5, <1>6, <1>7, <1>8, <1>9, <1>10, <1>11 DEF Step

LEMMA WithoutRestarts ==
    ASSUME NoRestarts, NetworkInv, Next
    PROVE  ChainMoves /\ UNCHANGED restarts /\ \A n \in Node : ~Restart(n)
<1>1. restarts = 0 /\ MaxRestarts = 0
  BY DEF NetworkInv, NoRestarts, CountersOK, MaxRestarts
<1>2. \A n \in Node : ~Restart(n)
  BY <1>1 DEF Restart
<1>3. NetworkInv' /\ UNCHANGED setup
  BY NextKeeps DEF Next
<1>4. restarts' = 0
  BY <1>3 DEF NetworkInv, NoRestarts, CountersOK, MaxRestarts
<1> QED
  BY <1>1, <1>2, <1>4, NextKeeps

(* As long as no process is restarted, every block under way or waiting as *)
(* an orphan builds on a block that some node has, so that catching up can *)
(* find it.                                                                *)
THEOREM ParentTheorem == NoRestarts => (Spec => []ParentIsSomewhere)
<1> SUFFICES ASSUME NoRestarts PROVE Spec => []ParentIsSomewhere
  OBVIOUS
<1>1. Init => ParentInv
  BY DEF Init, ParentInv, Idle, EmptyState, Waiting
<1>2. NetworkInv /\ ParentInv /\ [Next]_<<vars, setup>> => ParentInv'
  <2> SUFFICES ASSUME NetworkInv, ParentInv, [Next]_<<vars, setup>> PROVE ParentInv'
    OBVIOUS
  <2>1. CASE UNCHANGED <<vars, setup>>
    BY <2>1 DEF vars, ParentInv, Rooted
  <2>2. CASE Next
    BY <2>2, WithoutRestarts, ParentsKept DEF Next
  <2> QED
    BY <2>1, <2>2
<1>3. ParentInv => ParentIsSomewhere
  BY DEF ParentInv, ParentIsSomewhere, Rooted, Waiting
<1> QED
  BY <1>1, <1>2, <1>3, NetworkInvariance, PTL DEF Spec

--------------------------------------------------------------------------------
(* What gossip owes.  A transaction, or a block on genesis, that p knows   *)
(* and q does not is under way from p to q, unless it is what got lost:    *)
(* who learns it passes it on to everyone but the sender, who knows it.    *)

Grounded(s) ==
    /\ Genesis \in s.blocks
    /\ \A b \in s.blocks \ {Genesis} : b.pow
    /\ \A o \in Waiting(s) : o.prev # Genesis.hash

SenderKnows(m) ==
    /\ m.kind = "Transaction" => m.tx \in chain[m.from].transactions
    /\ m.kind = "Block" => m.block \in chain[m.from].blocks

OnItsWay(lost) ==
    /\ \A p, q \in Node : \A tx \in chain[p].transactions \ chain[q].transactions :
          TransactionMsg(p, q, tx) \in msgs \cup lost
    /\ \A p, q \in Node : \A b \in chain[p].blocks \ chain[q].blocks :
          b.prev = Genesis.hash => BlockMsg(p, q, b) \in msgs \cup lost

GossipInv ==
    /\ \A n \in Node : Grounded(chain[n])
    /\ \A m \in msgs : SenderKnows(m)
    /\ losses = 0 => OnItsWay({})
    /\ losses = 1 => \E m : OnItsWay({m})

(* What add_block changes of what gossip is about. *)
LEMMA WithBlockStores ==
    ASSUME NEW s, StateInv(s), NEW b \in Low
    PROVE  /\ WithBlock(s, b).transactions = s.transactions
           /\ Verdict(s, b) = "valid" => WithBlock(s, b).blocks = s.blocks \cup {b}
           /\ Verdict(s, b) # "valid" =>
                 WithBlock(s, b).blocks = s.blocks /\ WithBlock(s, b).tip = s.tip
           /\ Verdict(s, b) = "unknown_parent" =>
                 Waiting(WithBlock(s, b)) \subseteq Waiting(s) \cup {b}
           /\ Verdict(s, b) # "unknown_parent" =>
                 Waiting(WithBlock(s, b)) \subseteq Waiting(s)
<1> DEFINE waiting == {o \in s.orphans : o.prev = b.hash}
           queue == s.pending \ {b}
           base == [s EXCEPT !.blocks = @ \cup {b}, !.orphans = @ \ waiting,
                             !.pending = queue \cup waiting]
           orphaned == [s EXCEPT !.orphans = @ \cup {b}, !.pending = queue]
           dropped == [s EXCEPT !.pending = queue]
<1>1. s \in States /\ waiting \subseteq s.orphans /\ queue \subseteq s.pending
  BY DEF StateInv
<1>2. CASE Verdict(s, b) = "valid"
  <2>1. WithBlock(s, b) = WithTip(base, b)
    BY <1>2 DEF WithBlock
  <2> HIDE DEF waiting, queue
  <2>2. /\ base.blocks = s.blocks \cup {b} /\ base.transactions = s.transactions
        /\ base.orphans = s.orphans \ waiting /\ base.pending = queue \cup waiting
        /\ base \in [blocks: SUBSET Blocks, tip: Blocks, orphans: SUBSET Low,
                     transactions: SUBSET Txs, mempool: SUBSET Txs, pending: SUBSET Low]
    BY <1>1 DEF States, Low
  <2> HIDE DEF base
  <2>3. /\ WithTip(base, b).blocks = base.blocks
        /\ WithTip(base, b).transactions = base.transactions
        /\ WithTip(base, b).orphans = base.orphans
        /\ WithTip(base, b).pending = base.pending
    BY <2>2 DEF WithTip
  <2> QED
    BY <1>1, <1>2, <2>1, <2>2, <2>3 DEF Waiting
<1>3. CASE Verdict(s, b) = "unknown_parent"
  <2>1. WithBlock(s, b) = orphaned
    BY <1>3 DEF WithBlock
  <2> HIDE DEF waiting, queue
  <2>2. /\ orphaned.blocks = s.blocks /\ orphaned.transactions = s.transactions
        /\ orphaned.tip = s.tip
        /\ orphaned.orphans = s.orphans \cup {b} /\ orphaned.pending = queue
    BY <1>1 DEF States
  <2> QED
    BY <1>1, <1>3, <2>1, <2>2 DEF Waiting
<1>4. CASE Verdict(s, b) \notin {"valid", "unknown_parent"}
  <2>1. WithBlock(s, b) = dropped
    BY <1>4 DEF WithBlock
  <2> HIDE DEF waiting, queue
  <2>2. /\ dropped.blocks = s.blocks /\ dropped.transactions = s.transactions
        /\ dropped.tip = s.tip
        /\ dropped.orphans = s.orphans /\ dropped.pending = queue
    BY <1>1 DEF States
  <2> QED
    BY <1>1, <1>4, <2>1, <2>2 DEF Waiting
<1> QED
  BY <1>2, <1>3, <1>4

LEMMA GroundedGrows ==
    ASSUME NEW s, StateInv(s), Grounded(s), NEW b \in Low
    PROVE  Grounded(WithBlock(s, b))
<1> DEFINE t == WithBlock(s, b)
<1>1. Genesis \in t.blocks
  BY WithBlockStores DEF Grounded
<1>2. \A c \in t.blocks \ {Genesis} : c.pow
  <2>1. Verdict(s, b) = "valid" => b.pow
    BY DEF Verdict, ValidateBlock
  <2> QED
    BY <2>1, WithBlockStores DEF Grounded
<1>3. \A o \in Waiting(t) : o.prev # Genesis.hash
  <2>1. Verdict(s, b) = "unknown_parent" => b.prev # Genesis.hash
    BY DEF Verdict, ValidateBlock, ParentKnown, HashesOf, Grounded
  <2> QED
    BY <2>1, WithBlockStores DEF Grounded
<1> QED
  BY <1>1, <1>2, <1>3 DEF Grounded

(* A block on genesis that one node has is a valid block to each node that *)
(* does not have it.                                                       *)
LEMMA OnGenesisIsValid ==
    ASSUME NEW s, StateInv(s), Grounded(s), NEW t, StateInv(t), Grounded(t),
           NEW b \in s.blocks, b \notin t.blocks, b.prev = Genesis.hash
    PROVE  Verdict(t, b) = "valid"
<1>1. /\ s.blocks \subseteq Blocks /\ t.blocks \subseteq Blocks /\ t.orphans \subseteq Blocks
      /\ TreeInv(s.blocks) /\ TreeInv(t.blocks)
  BY DEF StateInv, States, Low
<1>2. Genesis \in s.blocks /\ Genesis \in t.blocks /\ b # Genesis
  BY DEF Grounded
<1>3. Genesis.height = 0 /\ Genesis \in Blocks
  BY BlocksAssumption
<1>4. ASSUME NEW tree, TreeInv(tree), Genesis \in tree, NEW c \in tree, c # Genesis,
             c.prev = Genesis.hash
      PROVE  c.height = 1
  <2>1. PICK p \in tree : p.hash = c.prev /\ c.height = p.height + 1
    BY <1>4 DEF TreeInv, HeightFits
  <2>2. p = Genesis
    BY <1>4, <2>1 DEF TreeInv
  <2> QED
    BY <1>3, <2>1, <2>2
<1>5. b.height = 1
  BY <1>1, <1>2, <1>4
<1>6. ASSUME NEW c \in t.blocks, c.hash = b.hash PROVE FALSE
  <2>1. c.prev = b.prev /\ c.txs = b.txs /\ c.pow = b.pow /\ c \in BlockRecord /\ b \in BlockRecord
    BY <1>1, <1>6, BlocksAssumption
  <2>2. CASE c = Genesis
    BY <1>1, <1>2, <1>6, <2>2 DEF TreeInv
  <2>3. CASE c # Genesis
    <3>1. c.height = 1
      BY <1>1, <1>2, <1>4, <2>1, <2>3
    <3>2. c = b
      BY <1>5, <1>6, <2>1, <3>1 DEF BlockRecord
    <3> QED
      BY <3>2
  <2> QED
    BY <2>2, <2>3
<1>7. ASSUME NEW c \in t.orphans, c.hash = b.hash PROVE FALSE
  <2>1. c.prev = b.prev
    BY <1>1, <1>7, BlocksAssumption
  <2> QED
    BY <2>1 DEF Grounded, Waiting
<1>8. b.pow
  BY <1>2 DEF Grounded
<1>9. ParentKnown(t.blocks, b) /\ HeightFits(t.blocks, b)
  BY <1>2, <1>3, <1>5 DEF ParentKnown, HashesOf, HeightFits
<1>10. b.hash \notin HashesOf(t.blocks) \cup HashesOf(t.orphans)
  BY <1>6, <1>7 DEF HashesOf
<1> QED
  BY <1>8, <1>9, <1>10 DEF Verdict, ValidateBlock

(* Every node keeps what it knows, and a new datagram tells what its       *)
(* sender knows.                                                           *)
LEMMA SendersStep ==
    ASSUME NetworkInv, GossipInv, ChainMoves,
           \A n \in Node : chain[n].transactions \subseteq chain'[n].transactions,
           \A m \in msgs' :
              \/ m \in msgs
              \/ /\ m.kind = "Transaction" => m.tx \in chain'[m.from].transactions
                 /\ m.kind = "Block" => m.block \in chain'[m.from].blocks
    PROVE  \A m \in msgs' : SenderKnows(m)'
<1>1. ASSUME NEW m \in msgs
      PROVE  /\ m.kind = "Transaction" => m.tx \in chain'[m.from].transactions
             /\ m.kind = "Block" => m.block \in chain'[m.from].blocks
  <2>1. SenderKnows(m) /\ m.from \in Node
    BY DEF GossipInv, NetworkInv, MsgsOK, MsgOK
  <2> QED
    BY <2>1 DEF SenderKnows, ChainMoves
<1> QED
  BY <1>1 DEF SenderKnows

(* Only a datagram that was handled is gone, and what its receiver learnt  *)
(* from it is on its way to the others.                                    *)
LEMMA TransactionPassedOn ==
    ASSUME NetworkInv, NEW n \in Node, NEW tx \in Txs, NEW lost, OnItsWay(lost),
           chain' = [chain EXCEPT ![n] = WithTransaction(@, tx)],
           \A m \in msgs :
              \/ m \in msgs'
              \/ m.kind = "Transaction" /\ m.to = n /\ m.tx = tx,
           \A p \in Node \ {n} :
              \/ tx \in chain[n].transactions \/ tx \in chain[p].transactions
              \/ TransactionMsg(n, p, tx) \in msgs'
    PROVE  OnItsWay(lost)'
<1>1. /\ StateInv(chain[n]) /\ chain'[n] = WithTransaction(chain[n], tx)
      /\ \A p \in Node \ {n} : chain'[p] = chain[p]
  BY DEF NetworkInv
<1>2. /\ chain'[n].blocks = chain[n].blocks
      /\ chain'[n].transactions = chain[n].transactions \cup {tx}
  <2> DEFINE s == chain[n]
             t == chain'[n]
  <2>1. s \in States /\ t = WithTransaction(s, tx)
    BY <1>1 DEF StateInv
  <2> HIDE DEF s, t
  <2>2. t.blocks = s.blocks /\ t.transactions = s.transactions \cup {tx}
    BY <2>1 DEF States, WithTransaction
  <2> QED
    BY <2>2 DEF s, t
<1>3. \A p \in Node : chain'[p].blocks = chain[p].blocks
  BY <1>1, <1>2
<1>4. ASSUME NEW p \in Node, NEW q \in Node,
             NEW t \in chain'[p].transactions \ chain'[q].transactions
      PROVE  TransactionMsg(p, q, t) \in msgs' \cup lost
  <2>1. CASE t \in chain[p].transactions \ chain[q].transactions
    <3>1. TransactionMsg(p, q, t) \in msgs \cup lost
      BY <2>1 DEF OnItsWay
    <3>2. ~(q = n /\ t = tx)
      BY <1>2
    <3> QED
      BY <3>1, <3>2 DEF TransactionMsg
  <2>2. CASE t \notin chain[p].transactions
    <3>1. p = n /\ t = tx /\ q # n /\ t \notin chain[q].transactions
      BY <1>1, <1>2, <2>2
    <3> QED
      BY <2>2, <3>1
  <2> QED
    BY <1>1, <1>2, <2>1, <2>2
<1>5. ASSUME NEW p \in Node, NEW q \in Node, NEW b \in chain'[p].blocks \ chain'[q].blocks,
             b.prev = Genesis.hash
      PROVE  BlockMsg(p, q, b) \in msgs' \cup lost
  <2>1. BlockMsg(p, q, b) \in msgs \cup lost
    BY <1>3, <1>5 DEF OnItsWay
  <2> QED
    BY <2>1 DEF BlockMsg
<1> QED
  BY <1>4, <1>5 DEF OnItsWay

LEMMA BlockPassedOn ==
    ASSUME NetworkInv, NEW n \in Node, NEW b \in Low, NEW lost, OnItsWay(lost),
           chain' = [chain EXCEPT ![n] = WithBlock(@, b)],
           \A m \in msgs :
              \/ m \in msgs'
              \/ /\ m.kind = "Block" /\ m.to = n /\ m.block = b
                 /\ b.prev = Genesis.hash =>
                       b \in chain[n].blocks \/ Verdict(chain[n], b) = "valid",
           b.prev = Genesis.hash /\ Verdict(chain[n], b) = "valid" =>
              \A p \in Node \ {n} : b \in chain[p].blocks \/ BlockMsg(n, p, b) \in msgs'
    PROVE  OnItsWay(lost)'
<1>1. /\ StateInv(chain[n]) /\ chain'[n] = WithBlock(chain[n], b)
      /\ \A p \in Node \ {n} : chain'[p] = chain[p]
  BY DEF NetworkInv
<1>2. /\ chain'[n].transactions = chain[n].transactions
      /\ chain[n].blocks \subseteq chain'[n].blocks
      /\ chain'[n].blocks \subseteq chain[n].blocks \cup {b}
      /\ b \in chain'[n].blocks => b \in chain[n].blocks \/ Verdict(chain[n], b) = "valid"
      /\ Verdict(chain[n], b) = "valid" => b \in chain'[n].blocks
  <2> DEFINE s == chain[n]
  <2>1. StateInv(s)
    BY <1>1
  <2> HIDE DEF s
  <2>2. /\ WithBlock(s, b).transactions = s.transactions
        /\ Verdict(s, b) = "valid" => WithBlock(s, b).blocks = s.blocks \cup {b}
        /\ Verdict(s, b) # "valid" => WithBlock(s, b).blocks = s.blocks
    BY <2>1, WithBlockStores
  <2> QED
    BY <1>1, <2>2 DEF s
<1>3. \A p \in Node : chain'[p].transactions = chain[p].transactions
  BY <1>1, <1>2
<1>4. ASSUME NEW p \in Node, NEW q \in Node,
             NEW t \in chain'[p].transactions \ chain'[q].transactions
      PROVE  TransactionMsg(p, q, t) \in msgs' \cup lost
  <2>1. TransactionMsg(p, q, t) \in msgs \cup lost
    BY <1>3 DEF OnItsWay
  <2> QED
    BY <2>1 DEF TransactionMsg
<1>5. ASSUME NEW p \in Node, NEW q \in Node, NEW c \in chain'[p].blocks \ chain'[q].blocks,
             c.prev = Genesis.hash
      PROVE  BlockMsg(p, q, c) \in msgs' \cup lost
  <2>1. CASE c \in chain[p].blocks
    <3>1. c \notin chain[q].blocks
      BY <1>1, <1>2
    <3>2. BlockMsg(p, q, c) \in msgs \cup lost
      BY <1>5, <2>1, <3>1 DEF OnItsWay
    <3>3. BlockMsg(p, q, c).to = q /\ BlockMsg(p, q, c).block = c
      BY DEF BlockMsg
    <3>4. ~(q = n /\ c = b /\ (b \in chain[n].blocks \/ Verdict(chain[n], b) = "valid"))
      BY <1>2, <1>5
    <3> QED
      BY <1>5, <3>2, <3>3, <3>4
  <2>2. CASE c \notin chain[p].blocks
    <3>1. p = n /\ c = b /\ q # n /\ c \notin chain[q].blocks
      BY <1>1, <1>2, <2>2
    <3> QED
      BY <1>2, <1>5, <2>2, <3>1
  <2> QED
    BY <2>1, <2>2
<1> QED
  BY <1>4, <1>5 DEF OnItsWay

(* A step that touches no node and takes no gossip away. *)
LEMMA NothingPassedOn ==
    ASSUME UNCHANGED chain, NEW lost, OnItsWay(lost),
           \A m \in msgs : m \in msgs' \/ m.kind \notin {"Transaction", "Block"}
    PROVE  OnItsWay(lost)'
<1>1. \A p, q, tx : TransactionMsg(p, q, tx).kind = "Transaction"
  BY DEF TransactionMsg
<1>2. \A p, q, b : BlockMsg(p, q, b).kind = "Block"
  BY DEF BlockMsg
<1> QED
  BY <1>1, <1>2 DEF OnItsWay

LEMMA GossipKept ==
    ASSUME NetworkInv, GossipInv, ChainMoves, Step, \A n \in Node : ~Restart(n)
    PROVE  GossipInv'
<1> DEFINE Passes == \A lost : OnItsWay(lost) => OnItsWay(lost)'
           Tells == \A m \in msgs' : SenderKnows(m)'
           Stands == \A n \in Node : Grounded(chain'[n])
<1>1. Tells /\ Stands /\ Passes /\ UNCHANGED losses => GossipInv'
  <2> SUFFICES ASSUME Tells, Stands, Passes, UNCHANGED losses PROVE GossipInv'
    OBVIOUS
  <2>1. losses = 0 => OnItsWay({})'
    BY DEF GossipInv
  <2>2. losses = 1 => \E m : OnItsWay({m})'
    BY DEF GossipInv
  <2> QED
    BY <2>1, <2>2 DEF GossipInv
<1>2. ASSUME UNCHANGED chain PROVE Stands
  BY <1>2 DEF GossipInv
<1>3. ASSUME NEW n \in Node, NEW tx \in Txs,
             chain' = [chain EXCEPT ![n] = WithTransaction(@, tx)]
      PROVE  /\ Stands /\ tx \in chain'[n].transactions
             /\ \A p \in Node : chain[p].transactions \subseteq chain'[p].transactions
  <2>1. /\ StateInv(chain[n]) /\ chain'[n] = WithTransaction(chain[n], tx)
        /\ \A p \in Node \ {n} : chain'[p] = chain[p]
    BY <1>3 DEF NetworkInv
  <2> DEFINE s == chain[n]
             t == chain'[n]
  <2>2. StateInv(s) /\ t = WithTransaction(s, tx)
    BY <2>1
  <2> HIDE DEF s, t
  <2>3. /\ t.blocks = s.blocks /\ t.orphans = s.orphans /\ t.pending = s.pending
        /\ t.transactions = s.transactions \cup {tx}
    BY <2>2 DEF StateInv, States, WithTransaction
  <2>4. Grounded(s) => Grounded(t)
    BY <2>3 DEF Grounded, Waiting
  <2> QED
    BY <2>1, <2>3, <2>4 DEF GossipInv, s, t
<1>4. ASSUME NEW n \in Node, NEW b \in Low,
             chain' = [chain EXCEPT ![n] = WithBlock(@, b)]
      PROVE  /\ Stands
             /\ Verdict(chain[n], b) = "valid" => b \in chain'[n].blocks
             /\ \A p \in Node : chain[p].transactions \subseteq chain'[p].transactions
  <2>1. /\ StateInv(chain[n]) /\ chain'[n] = WithBlock(chain[n], b)
        /\ \A p \in Node \ {n} : chain'[p] = chain[p]
    BY <1>4 DEF NetworkInv
  <2> DEFINE s == chain[n]
  <2>2. StateInv(s)
    BY <2>1
  <2> HIDE DEF s
  <2>3. /\ Grounded(s) => Grounded(WithBlock(s, b))
        /\ WithBlock(s, b).transactions = s.transactions
        /\ Verdict(s, b) = "valid" => b \in WithBlock(s, b).blocks
    BY <2>2, WithBlockStores, GroundedGrows
  <2> QED
    BY <2>1, <2>3 DEF GossipInv, s
<1>5. CASE \E n \in Node, tx \in Txs : SubmitTransaction(n, tx)
  <2>1. PICK n \in Node, tx \in Txs : SubmitTransaction(n, tx)
    BY <1>5
  <2>2. /\ chain' = [chain EXCEPT ![n] = WithTransaction(@, tx)]
        /\ msgs' = msgs \cup {TransactionMsg(n, p, tx) : p \in Node \ {n}}
        /\ UNCHANGED losses
    BY <2>1 DEF SubmitTransaction, GossipTransaction
  <2>3. Passes
    BY <2>2, TransactionPassedOn
  <2>4. \A m \in msgs' : \/ m \in msgs
                         \/ m.kind = "Transaction" /\ m.from = n /\ m.tx = tx
    BY <2>2 DEF TransactionMsg
  <2>5. Tells
    BY <1>3, <2>2, <2>4, SendersStep
  <2> QED
    BY <1>1, <1>3, <2>2, <2>3, <2>5
<1>6. CASE \E m \in msgs : Deliver(m)
  <2>1. PICK m \in msgs : Deliver(m)
    BY <1>6
  <2>2. /\ MsgOK(m) /\ SenderKnows(m) /\ UNCHANGED losses
        /\ m.to \in Node /\ m.from \in Node
    BY <2>1 DEF NetworkInv, MsgsOK, MsgOK, Deliver, GossipInv
  <2>3. CASE m.kind = "Transaction" /\ OnPeerTransaction(m)
    <3>1. /\ m.tx \in Txs /\ m.tx \in chain[m.from].transactions
          /\ chain' = [chain EXCEPT ![m.to] = WithTransaction(@, m.tx)]
          /\ msgs' = (msgs \ {m}) \cup
                     IF m.tx \in chain[m.to].transactions THEN {}
                     ELSE {TransactionMsg(m.to, p, m.tx) : p \in Node \ {m.to, m.from}}
      BY <2>2, <2>3 DEF OnPeerTransaction, MsgOK, SenderKnows, GossipTransaction
    <3>2. \A k \in msgs : \/ k \in msgs'
                          \/ k.kind = "Transaction" /\ k.to = m.to /\ k.tx = m.tx
      BY <2>3, <3>1
    <3>3. \A p \in Node \ {m.to} :
             \/ m.tx \in chain[m.to].transactions \/ m.tx \in chain[p].transactions
             \/ TransactionMsg(m.to, p, m.tx) \in msgs'
      BY <3>1
    <3>4. Passes
      BY <2>2, <3>1, <3>2, <3>3, TransactionPassedOn
    <3>5. \A k \in msgs' : \/ k \in msgs
                           \/ k.kind = "Transaction" /\ k.from = m.to /\ k.tx = m.tx
      BY <3>1 DEF TransactionMsg
    <3>6. Stands /\ Tells
      BY <1>3, <2>2, <3>1, <3>5, SendersStep
    <3> QED
      BY <1>1, <2>2, <3>4, <3>6
  <2>4. CASE m.kind = "Block" /\ IngestBlock(m)
    <3> DEFINE verdict == Verdict(chain[m.to], m.block)
               gossip == {BlockMsg(m.to, p, m.block) : p \in Node \ {m.to, m.from}}
    <3>0. m.block \in Low /\ m.block \in chain[m.from].blocks
      BY <2>2, <2>4 DEF MsgOK, SenderKnows
    <3>1. /\ chain' = [chain EXCEPT ![m.to] = WithBlock(@, m.block)]
          /\ msgs \ {m} \subseteq msgs'
          /\ verdict = "valid" => gossip \subseteq msgs'
          /\ \A k \in msgs' : \/ k \in msgs
                              \/ k \in gossip /\ verdict = "valid"
                              \/ k = BlockRequestMsg(m.to, m.from, m.block.height - 1)
      <4>1. GossipBlock(m.to, m.block, {m.from}) = gossip
        BY DEF GossipBlock
      <4> HIDE DEF gossip, verdict
      <4> DEFINE replies ==
                   CASE verdict = "valid" -> gossip
                     [] verdict = "unknown_parent" /\ m.block.height > 0 ->
                          {BlockRequestMsg(m.to, m.from, m.block.height - 1)}
                     [] OTHER -> {}
      <4>2. msgs' = (msgs \ {m}) \cup replies
        BY <2>4, <4>1, Zenon DEF IngestBlock, verdict
      <4>3. verdict = "valid" => replies = gossip
        OBVIOUS
      <4>4. verdict # "valid" =>
               replies \subseteq {BlockRequestMsg(m.to, m.from, m.block.height - 1)}
        OBVIOUS
      <4>5. chain' = [chain EXCEPT ![m.to] = WithBlock(@, m.block)]
        BY <2>4 DEF IngestBlock
      <4> HIDE DEF replies
      <4>6. \A k \in msgs' : \/ k \in msgs
                             \/ k \in gossip /\ verdict = "valid"
                             \/ k = BlockRequestMsg(m.to, m.from, m.block.height - 1)
        BY <4>2, <4>3, <4>4
      <4>7. msgs \ {m} \subseteq msgs' /\ (verdict = "valid" => gossip \subseteq msgs')
        BY <4>2, <4>3
      <4> QED
        BY <4>5, <4>6, <4>7
    <3> HIDE DEF verdict, gossip
    <3>2. \A k \in msgs : \/ k \in msgs'
                          \/ k.kind = "Block" /\ k.to = m.to /\ k.block = m.block
      BY <2>4, <3>1
    <3>3. m.block.prev = Genesis.hash =>
             m.block \in chain[m.to].blocks \/ verdict = "valid"
      BY <2>2, <3>0, OnGenesisIsValid DEF NetworkInv, GossipInv, verdict
    <3>4. verdict = "valid" =>
             \A p \in Node \ {m.to} :
                m.block \in chain[p].blocks \/ BlockMsg(m.to, p, m.block) \in msgs'
      BY <3>0, <3>1 DEF gossip
    <3>5. Passes
      <4> DEFINE n == m.to
                 b == m.block
      <4>1. n \in Node /\ b \in Low /\ chain' = [chain EXCEPT ![n] = WithBlock(@, b)]
        BY <2>2, <3>0, <3>1
      <4>2. \A k \in msgs :
               \/ k \in msgs'
               \/ /\ k.kind = "Block" /\ k.to = n /\ k.block = b
                  /\ b.prev = Genesis.hash =>
                        b \in chain[n].blocks \/ Verdict(chain[n], b) = "valid"
        BY <3>2, <3>3 DEF verdict
      <4>3. Verdict(chain[n], b) = "valid" =>
               \A p \in Node \ {n} : b \in chain[p].blocks \/ BlockMsg(n, p, b) \in msgs'
        BY <3>4 DEF verdict
      <4> HIDE DEF n, b
      <4> QED
        BY <4>1, <4>2, <4>3, BlockPassedOn
    <3>6. \A k \in msgs' :
             \/ k \in msgs
             \/ k.kind = "BlockRequest"
             \/ verdict = "valid" /\ k.kind = "Block" /\ k.from = m.to /\ k.block = m.block
      BY <3>1 DEF BlockMsg, BlockRequestMsg, gossip
    <3>7. /\ Stands
          /\ \A p \in Node : chain[p].transactions \subseteq chain'[p].transactions
          /\ verdict = "valid" => m.block \in chain'[m.to].blocks
      BY <1>4, <2>2, <3>0, <3>1 DEF verdict
    <3>8. Tells
      BY <3>6, <3>7, SendersStep
    <3> QED
      BY <1>1, <2>2, <3>5, <3>7, <3>8
  <2>5. CASE \/ m.kind = "StatusRequest" /\ OnPeerStatusRequest(m)
             \/ m.kind = "StatusResponse" /\ OnPeerStatusResponse(m)
    <3>1. UNCHANGED chain /\ msgs \ {m} \subseteq msgs'
      BY <2>5 DEF OnPeerStatusRequest, OnPeerStatusResponse
    <3>2. \A k \in msgs' : k \in msgs \/ k.kind \in {"StatusResponse", "BlockRequest"}
      BY <2>5 DEF OnPeerStatusRequest, OnPeerStatusResponse, StatusResponseMsg,
                  BlockRequestMsg
    <3>3. Passes
      BY <2>5, <3>1, NothingPassedOn
    <3>4. Tells
      BY <3>1, <3>2, SendersStep
    <3> QED
      BY <1>1, <1>2, <2>2, <3>1, <3>3, <3>4
  <2>6. CASE m.kind = "BlockRequest" /\ OnPeerBlockRequest(m)
    <3> DEFINE s == chain[m.to]
               h == m.height
               b == HashByHeight(s)[h]
    <3>1. /\ UNCHANGED chain /\ msgs \ {m} \subseteq msgs'
          /\ \A k \in msgs' : k \in msgs \/ (h \in 0..s.tip.height /\ k = BlockMsg(m.to, m.from, b))
      BY <2>6 DEF OnPeerBlockRequest
    <3>2. h \in 0..s.tip.height => b \in s.blocks
      <4>1. StateInv(s) /\ setup \in Setups
        BY <2>2 DEF NetworkInv
      <4> HIDE DEF s, h
      <4> QED
        BY <4>1, BlocksOfTree
    <3>3. Passes
      BY <2>6, <3>1, NothingPassedOn
    <3> HIDE DEF b, h
    <3>4. \A k \in msgs' : \/ k \in msgs
                           \/ k.kind = "Block" /\ k.from = m.to /\ k.block \in s.blocks
      <4> HIDE DEF s
      <4>1. /\ BlockMsg(m.to, m.from, b).kind = "Block"
            /\ BlockMsg(m.to, m.from, b).from = m.to
            /\ BlockMsg(m.to, m.from, b).block = b
        BY DEF BlockMsg
      <4> QED
        BY <3>1, <3>2, <4>1
    <3>5. Tells
      BY <3>1, <3>4, SendersStep
    <3> QED
      BY <1>1, <1>2, <2>2, <3>1, <3>3, <3>5
  <2> QED
    BY <2>1, <2>3, <2>4, <2>5, <2>6 DEF Deliver
<1>7. CASE \E m \in msgs : Lose(m)
  <2>1. PICK m \in msgs : Lose(m)
    BY <1>7
  <2>2. UNCHANGED chain /\ losses' = losses + 1 /\ msgs' = msgs \ {m} /\ losses \in Nat
    <3>1. losses \in Nat
      BY HeightsAreNatural DEF NetworkInv, CountersOK
    <3> QED
      BY <2>1, <3>1 DEF Lose
  <2>3. Tells /\ Stands
    BY <1>2, <2>2, SendersStep
  <2>4. losses' = 1 => \E k : OnItsWay({k})'
    <3> SUFFICES ASSUME losses' = 1 PROVE OnItsWay({m})'
      OBVIOUS
    <3>1. OnItsWay({})
      BY <2>2 DEF GossipInv
    <3> QED
      BY <2>2, <3>1 DEF OnItsWay
  <2>5. losses' # 0
    BY <2>2
  <2> QED
    BY <2>3, <2>4, <2>5 DEF GossipInv
<1>8. CASE \E n \in Node : AttachOrphan(n)
  <2>0. PICK n \in Node : AttachOrphan(n)
    BY <1>8
  <2>1. PICK o \in chain[n].pending :
            chain' = [chain EXCEPT ![n] = WithBlock(@, o)] /\ UNCHANGED <<msgs, losses>>
    BY <2>0 DEF AttachOrphan
  <2>2. o \in Low /\ o.prev # Genesis.hash
    BY DEF NetworkInv, StateInv, States, GossipInv, Grounded, Waiting
  <2>3. Passes
    BY <2>1, <2>2, BlockPassedOn
  <2>4. /\ Stands
        /\ \A p \in Node : chain[p].transactions \subseteq chain'[p].transactions
    BY <1>4, <2>1, <2>2
  <2>5. Tells
    BY <2>1, <2>4, SendersStep
  <2> QED
    BY <1>1, <2>1, <2>3, <2>4, <2>5
<1>9. CASE \E n \in Node : StartMining(n) \/ AbandonMining(n) \/ CatchUp(n)
  <2>1. /\ UNCHANGED <<chain, losses>> /\ msgs \subseteq msgs'
        /\ \A k \in msgs' : k \in msgs \/ k.kind = "StatusRequest"
    BY <1>9 DEF StartMining, AbandonMining, CatchUp, StatusRequestMsg
  <2>2. Passes
    BY <2>1, NothingPassedOn
  <2>3. Tells
    BY <2>1, SendersStep
  <2> QED
    BY <1>1, <1>2, <2>1, <2>2, <2>3
<1>10. CASE \E n \in Node : FindBlock(n)
  <2>1. PICK n \in Node : FindBlock(n)
    BY <1>10
  <2>2. PICK nonce \in Nonces[n] :
          LET b == MinedBlock(miner[n], nonce) IN
          /\ chain' = [chain EXCEPT ![n] = WithBlock(@, b)]
          /\ msgs' = msgs \cup
                     IF Verdict(chain[n], b) = "valid" THEN GossipBlock(n, b, {}) ELSE {}
    BY <2>1 DEF FindBlock
  <2> DEFINE b == MinedBlock(miner[n], nonce)
             verdict == Verdict(chain[n], b)
             gossip == {BlockMsg(n, p, b) : p \in Node \ {n}}
  <2>3. b \in Low
    BY <2>1, MinedIsLow DEF FindBlock
  <2> HIDE DEF b
  <2>4. gossip = GossipBlock(n, b, {})
    BY DEF GossipBlock
  <2>5. /\ chain' = [chain EXCEPT ![n] = WithBlock(@, b)] /\ UNCHANGED losses
        /\ msgs \subseteq msgs'
        /\ verdict = "valid" => gossip \subseteq msgs'
        /\ \A k \in msgs' : k \in msgs \/ (verdict = "valid" /\ k \in gossip)
    <3> HIDE DEF gossip
    <3> QED
      BY <2>1, <2>2, <2>4 DEF FindBlock, b
  <2>6. Passes
    BY <2>3, <2>5, BlockPassedOn
  <2> HIDE DEF verdict
  <2>7. \A k \in msgs' :
           \/ k \in msgs
           \/ verdict = "valid" /\ k.kind = "Block" /\ k.from = n /\ k.block = b
    BY <2>5 DEF BlockMsg
  <2>8. /\ Stands
        /\ \A p \in Node : chain[p].transactions \subseteq chain'[p].transactions
        /\ verdict = "valid" => b \in chain'[n].blocks
    BY <1>4, <2>3, <2>5 DEF verdict
  <2>9. Tells
    BY <2>7, <2>8, SendersStep
  <2> QED
    BY <1>1, <2>5, <2>6, <2>8, <2>9
<1> QED
  BY <1>5, <1>6, <1>7, <1>8, <1>9, <1>10 DEF Step

ThreeNodes == \E n, p, q \in Node : n # p /\ n # q /\ p # q

(* When nothing is under way and at most one datagram was lost, nothing is *)
(* owed: what one node knew and another did not would be owed a second     *)
(* time, by or to a third.                                                 *)
LEMMA OneLossIsMadeGood == ThreeNodes /\ NetworkInv /\ GossipInv => GossipSurvivesALoss
<1> SUFFICES ASSUME ThreeNodes, NetworkInv, GossipInv, msgs = {}, losses <= 1
             PROVE  \A n, p \in Node :
                       /\ chain[n].transactions = chain[p].transactions
                       /\ \A b \in chain[n].blocks :
                             b.prev = Genesis.hash => b \in chain[p].blocks
  BY DEF GossipSurvivesALoss
<1>1. PICK m : OnItsWay({m})
  <2>1. losses = 0 \/ losses = 1
    BY HeightsAreNatural DEF NetworkInv, CountersOK
  <2>2. losses = 0 => OnItsWay({0})
    BY DEF GossipInv, OnItsWay
  <2> QED
    BY <2>1, <2>2 DEF GossipInv
<1>2. ASSUME NEW n \in Node, NEW p \in Node
      PROVE  n # p => \E q \in Node : q # n /\ q # p
  BY DEF ThreeNodes
<1>3. ASSUME NEW n \in Node, NEW p \in Node,
             NEW tx \in chain[n].transactions \ chain[p].transactions
      PROVE  FALSE
  <2>1. PICK q \in Node : q # n /\ q # p
    BY <1>2
  <2>2. TransactionMsg(n, p, tx) = m
    BY <1>1 DEF OnItsWay
  <2>3. TransactionMsg(q, p, tx) = m \/ TransactionMsg(n, q, tx) = m
    BY <1>1, <2>1 DEF OnItsWay
  <2> QED
    BY <2>1, <2>2, <2>3 DEF TransactionMsg
<1>4. ASSUME NEW n \in Node, NEW p \in Node,
             NEW b \in chain[n].blocks \ chain[p].blocks, b.prev = Genesis.hash
      PROVE  FALSE
  <2>1. PICK q \in Node : q # n /\ q # p
    BY <1>2
  <2>2. BlockMsg(n, p, b) = m
    BY <1>1, <1>4 DEF OnItsWay
  <2>3. BlockMsg(q, p, b) = m \/ BlockMsg(n, q, b) = m
    BY <1>1, <1>4, <2>1 DEF OnItsWay
  <2> QED
    BY <2>1, <2>2, <2>3 DEF BlockMsg
<1>5. \A n, p \in Node : chain[n].transactions \subseteq chain[p].transactions
  BY <1>3
<1> QED
  BY <1>4, <1>5

(* In a team of three or more, whose processes are not restarted, one lost *)
(* datagram keeps no transaction and no block on genesis from a node once  *)
(* nothing is under way, without any catching up.                          *)
THEOREM GossipTheorem == NoRestarts /\ ThreeNodes => (Spec => []GossipSurvivesALoss)
<1> SUFFICES ASSUME NoRestarts, ThreeNodes PROVE Spec => []GossipSurvivesALoss
  OBVIOUS
<1>1. Init => GossipInv
  <2> SUFFICES ASSUME Init PROVE GossipInv
    OBVIOUS
  <2>1. \A n \in Node : chain[n] = EmptyState
    BY DEF Init
  <2>2. Grounded(EmptyState)
    BY DEF Grounded, EmptyState, Waiting
  <2>3. OnItsWay({})
    BY <2>1 DEF OnItsWay
  <2> QED
    BY <2>1, <2>2, <2>3 DEF GossipInv, Init
<1>2. NetworkInv /\ GossipInv /\ [Next]_<<vars, setup>> => GossipInv'
  <2> SUFFICES ASSUME NetworkInv, GossipInv, [Next]_<<vars, setup>> PROVE GossipInv'
    OBVIOUS
  <2>1. CASE UNCHANGED <<vars, setup>>
    BY <2>1 DEF vars, GossipInv, OnItsWay, SenderKnows
  <2>2. CASE Next
    BY <2>2, WithoutRestarts, GossipKept DEF Next
  <2> QED
    BY <2>1, <2>2
<1>3. NetworkInv /\ GossipInv => GossipSurvivesALoss
  BY OneLossIsMadeGood
<1> QED
  BY <1>1, <1>2, <1>3, NetworkInvariance, PTL DEF Spec

--------------------------------------------------------------------------------
(* Each node of the network as one fork choice.                            *)

LEMMA NodeLearns ==
    ASSUME NetworkInv, ChainMoves, NEW n \in Node, NEW b \in Low,
           chain'[n] = WithBlock(chain[n], b)
    PROVE  [NodeChoice(n)!Next]_<<chain[n].blocks, chain[n].tip>>
<1> DEFINE s == chain[n]
           t == chain'[n]
<1>1. StateInv(s) /\ t = WithBlock(s, b) /\ BestOf(t.blocks, t.tip) /\ b \in Blocks
  BY DEF NetworkInv, ChainMoves, StateInv, Low
<1> HIDE DEF s, t
<1>2. CASE Verdict(s, b) = "valid"
  <2>1. t.blocks = s.blocks \cup {b} /\ b.hash \notin HashesOf(s.blocks) /\ b.pow
        /\ HeightFits(s.blocks, b)
    BY <1>1, <1>2, WithBlockStores DEF Verdict, ValidateBlock
  <2>2. t.tip \in t.blocks /\ \A c \in t.blocks : c = t.tip \/ IsBetterTip(t.tip, c)
    BY <1>1 DEF BestOf
  <2> QED
    BY <1>1, <2>1, <2>2
       DEF NodeChoice!Next, NodeChoice!Learn, NodeChoice!HashesOf, NodeChoice!HeightFits,
           NodeChoice!IsBetterTip, HashesOf, HeightFits, IsBetterTip, s, t
<1>3. CASE Verdict(s, b) # "valid"
  <2>1. t.blocks = s.blocks /\ t.tip = s.tip
    BY <1>1, <1>3, WithBlockStores
  <2> QED
    BY <2>1 DEF s, t
<1> QED
  BY <1>2, <1>3

LEMMA NodesLearn ==
    ASSUME NetworkInv, ChainMoves, Step, NEW p \in Node, ~Restart(p)
    PROVE  [NodeChoice(p)!Next]_<<chain[p].blocks, chain[p].tip>>
<1> DEFINE Learns == [NodeChoice(p)!Next]_<<chain[p].blocks, chain[p].tip>>
<1>1. chain'[p] = chain[p] => Learns
  OBVIOUS
<1>2. ASSUME NEW n \in Node, NEW b \in Low, chain' = [chain EXCEPT ![n] = WithBlock(@, b)]
      PROVE  Learns
  <2>1. CASE n = p
    <3>1. chain'[p] = WithBlock(chain[p], b)
      BY <1>2, <2>1 DEF NetworkInv
    <3> QED
      BY <3>1, NodeLearns
  <2>2. CASE n # p
    BY <1>1, <1>2, <2>2 DEF NetworkInv
  <2> QED
    BY <2>1, <2>2
<1>3. ASSUME NEW n \in Node, NEW tx \in Txs,
             chain' = [chain EXCEPT ![n] = WithTransaction(@, tx)]
      PROVE  Learns
  <2>1. CASE n = p
    <3>1. StateInv(chain[p]) /\ chain'[p] = WithTransaction(chain[p], tx)
      BY <1>3, <2>1 DEF NetworkInv
    <3>2. chain'[p].blocks = chain[p].blocks /\ chain'[p].tip = chain[p].tip
      BY <3>1, WithTransactionIsGood
    <3> QED
      BY <3>2
  <2>2. CASE n # p
    BY <1>1, <1>3, <2>2 DEF NetworkInv
  <2> QED
    BY <2>1, <2>2
<1> SUFFICES Learns
  OBVIOUS
<1> HIDE DEF Learns
<1>4. CASE \E n \in Node, tx \in Txs : SubmitTransaction(n, tx)
  BY <1>3, <1>4 DEF SubmitTransaction
<1>5. CASE \E m \in msgs : Deliver(m)
  <2>1. PICK m \in msgs : Deliver(m)
    BY <1>5
  <2>2. MsgOK(m) /\ m.to \in Node
    BY DEF NetworkInv, MsgsOK, MsgOK
  <2>3. CASE m.kind = "Transaction" /\ OnPeerTransaction(m)
    BY <1>3, <2>2, <2>3 DEF OnPeerTransaction, MsgOK
  <2>4. CASE m.kind = "Block" /\ IngestBlock(m)
    BY <1>2, <2>2, <2>4 DEF IngestBlock, MsgOK
  <2>5. CASE OnPeerStatusRequest(m) \/ OnPeerStatusResponse(m) \/ OnPeerBlockRequest(m)
    BY <1>1, <2>5 DEF OnPeerStatusRequest, OnPeerStatusResponse, OnPeerBlockRequest
  <2> QED
    BY <2>1, <2>3, <2>4, <2>5 DEF Deliver
<1>6. CASE \E n \in Node : AttachOrphan(n)
  <2>1. PICK n \in Node : \E o \in chain[n].pending :
             chain' = [chain EXCEPT ![n] = WithBlock(@, o)]
    BY <1>6 DEF AttachOrphan
  <2>2. \A o \in chain[n].pending : o \in Low
    BY DEF NetworkInv, StateInv, States
  <2> QED
    BY <1>2, <2>1, <2>2
<1>7. CASE \E n \in Node : FindBlock(n)
  <2>1. PICK n \in Node : FindBlock(n)
    BY <1>7
  <2>2. \E nonce \in Nonces[n] :
           chain' = [chain EXCEPT ![n] = WithBlock(@, MinedBlock(miner[n], nonce))]
    BY <2>1 DEF FindBlock
  <2>3. \A nonce \in Nonces[n] : MinedBlock(miner[n], nonce) \in Low
    BY <2>1, MinedIsLow DEF FindBlock
  <2> QED
    BY <1>2, <2>2, <2>3
<1>8. CASE \E n \in Node : Restart(n)
  <2>1. PICK n \in Node \ {p} : Restart(n)
    BY <1>8
  <2> QED
    BY <1>1, <2>1 DEF Restart, NetworkInv
<1>9. CASE \/ \E m \in msgs : Lose(m)
           \/ \E n \in Node : StartMining(n) \/ AbandonMining(n) \/ CatchUp(n)
  BY <1>1, <1>9 DEF Lose, StartMining, AbandonMining, CatchUp
<1> QED
  BY <1>4, <1>5, <1>6, <1>7, <1>8, <1>9 DEF Step

(* The tree and the tip of every node of the team, under everything the    *)
(* network and its miner do, implement fork choice over a growing tree,    *)
(* as the state of one node does: a node that is not restarted learns one  *)
(* valid block at a time and always stands on the best it knows.           *)
THEOREM NodesChooseTheorem == NoRestarts => (Spec => NodesChoose)
<1> SUFFICES ASSUME NoRestarts PROVE Spec => NodesChoose
  OBVIOUS
<1>1. Init => \A n \in Node : NodeChoice(n)!Init
  BY DEF Init, EmptyState, NodeChoice!Init
<1>2. NetworkInv /\ [Next]_<<vars, setup>> =>
        [\A n \in Node : UNCHANGED <<chain[n].blocks, chain[n].tip>> \/ NodeChoice(n)!Next]_vars
  <2> SUFFICES ASSUME NetworkInv, Next, NEW n \in Node
               PROVE  [NodeChoice(n)!Next]_<<chain[n].blocks, chain[n].tip>>
    OBVIOUS
  <2>1. ChainMoves /\ ~Restart(n) /\ Step
    BY WithoutRestarts DEF Next
  <2> QED
    BY <2>1, NodesLearn
<1> QED
  BY <1>1, <1>2, NetworkInvariance, PTL DEF Spec, NodesChoose

(* Seen on its own, any one node is a behaviour of the abstract fork choice. *)
COROLLARY NodeImplementsForkChoice ==
    ASSUME NoRestarts, NEW n \in Node
    PROVE  Spec => NodeChoice(n)!Spec
<1>1. Init => NodeChoice(n)!Init
  BY DEF Init, EmptyState, NodeChoice!Init
<1>2. NetworkInv /\ [Next]_<<vars, setup>> =>
        [NodeChoice(n)!Next]_<<chain[n].blocks, chain[n].tip>>
  <2> SUFFICES ASSUME NetworkInv, [Next]_<<vars, setup>>
               PROVE  [NodeChoice(n)!Next]_<<chain[n].blocks, chain[n].tip>>
    OBVIOUS
  <2>1. CASE Next
    <3>1. ChainMoves /\ ~Restart(n) /\ Step
      BY <2>1, WithoutRestarts DEF Next
    <3> QED
      BY <3>1, NodesLearn
  <2>2. CASE UNCHANGED <<vars, setup>>
    BY <2>2 DEF vars
  <2> QED
    BY <2>1, <2>2
<1> QED
  BY <1>1, <1>2, NetworkInvariance, PTL DEF Spec, NodeChoice!Spec
================================================================================
