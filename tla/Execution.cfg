SPECIFICATION ExecutionSpec
CONSTANTS
    Hash <- MCHash
    ZeroHash = "zero"
    Root <- MCRoot
    NoRoot = "noroot"
    Invalid = "invalid"
    Header <- MCHeader
    Executes <- MCExecutes
    ChainId <- MCChainId
    Bundles <- MCBundles
    MaxBundles = 2
    Addr <- Senders
    \* Both sides of each change: Spurious Dragon, London, Prague, Amsterdam
    Revisions = {3, 9, 13, 15}
    GasLimits = {60000}
    Transactions <- Sent
    Accounts <- MCAccounts
    BaseFee = 1
    BlobGasPrice = 1
    kMaxTxGasLimit = 30000
    MAX_TX_TOTAL_GAS_LIMIT = 60000
    MaxTxns = 3
    MaxBlocks = 2
INVARIANTS
    CommittedChain
    AnchorOfFirst
    HostAgrees
    GasWithinLimit
    CostsCovered
    CommitmentsDecide
CHECK_DEADLOCK FALSE
