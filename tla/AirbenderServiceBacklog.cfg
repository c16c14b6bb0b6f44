CONSTANTS
  MaxBlock = 3
  None = None
  PROVER_QUEUE_CAPACITY = 1
  MAX_FETCH_ATTEMPTS = 2
  Configs <- Backlog
  RpcLag = 0
SPECIFICATION Spec
INVARIANT BacklogFirst
