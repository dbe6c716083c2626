SPECIFICATION FairSpec
CONSTANTS
    n1 = n1
    n2 = n2
    n3 = n3
    Node = {n1, n2}
    Txs <- MCTxs
    Blocks <- MCMoreBlocks
    Genesis <- MCGenesis
    BlockHash <- MCBlockHash
    Setups <- MCRecovery
INVARIANTS
    MiningEndsByItself
PROPERTIES
    TipsConverge
    TransactionsGetConfirmed
