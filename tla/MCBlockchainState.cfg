SPECIFICATION FairSpec
CONSTANTS
    Txs <- MCTxs
    Blocks <- MCBlocks
    Genesis <- MCGenesis
INVARIANTS
    TypeOK
    TipIsBest
    IndexIsPath
    NoTransactionLost
    TreeIsComplete
    OrphansWait
PROPERTIES
    TipChangeSettlesMempool
    AddBlockReturns
    ImplementsForkChoice
