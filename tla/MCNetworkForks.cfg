SPECIFICATION Spec
CONSTANTS
    n1 = n1
    n2 = n2
    n3 = n3
    Node = {n1, n2}
    Txs <- MCTwoTxs
    Blocks <- MCBlocks
    Genesis <- MCGenesis
    BlockHash <- MCBlockHash
    Setups <- MCForks
SYMMETRY MCSymmetry
INVARIANTS
    NoTransactionLost
    ParentIsSomewhere
    SameBlocksSameTip
PROPERTIES
    NodesChoose
