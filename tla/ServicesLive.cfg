CONSTANTS
  MaxBlock = 3
  None = None
  PROVER_QUEUE_CAPACITY = 1
  MAX_FETCH_ATTEMPTS = 2
  Configs <- Live
  RpcLag = 1
SPECIFICATION LiveSpec
PROPERTIES
  BoundedRunEnds EveryBlockHandled
  HypercubeRunEnds
  Delivered
  CallsReturn
CHECK_DEADLOCK FALSE
