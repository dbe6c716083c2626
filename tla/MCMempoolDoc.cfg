SPECIFICATION Spec
CONSTANTS
    Txs <- MCTxs
    Blocks <- MCBlocks
    Genesis <- MCGenesis
INVARIANT MempoolNotOnMainChain
