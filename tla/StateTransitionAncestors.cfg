SPECIFICATION Spec
CONSTANTS
    Hash <- MCHash
    ZeroHash = "zero"
    Root <- MCRoot
    NoRoot = "noroot"
    Invalid = "invalid"
    Header <- MCHeader
    Executes <- MCExecutes
    ChainId <- MCChainId
    Bundles <- MCBundles
    MaxBundles = 2
INVARIANT
    AncestorsAnchor
CHECK_DEADLOCK FALSE
