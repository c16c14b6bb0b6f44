CONSTANTS
  MaxBlock = 3
  None = None
  Configs <- AllConfigs
  PROVER_QUEUE_CAPACITY = 1
  MAX_FETCH_ATTEMPTS = 2
  RpcLag = 2
SPECIFICATION Spec
INVARIANTS NothingLostSilently QueuedPostOnce KeptProofsChecked RetriedNearTip
PROPERTIES NeverEnqueuedTwice StatusMovesForward
