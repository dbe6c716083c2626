SPECIFICATION Spec
CONSTANTS
    n1 = n1
    n2 = n2
    n3 = n3
    Node = {n1, n2, n3}
    Txs <- MCTxs
    Blocks <- MCBlocks
    Genesis <- MCGenesis
    BlockHash <- MCBlockHash
    Setups <- MCGossip
INVARIANTS
    GossipSurvivesALoss
CHECK_DEADLOCK FALSE
