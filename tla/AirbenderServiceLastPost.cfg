CONSTANTS
  MaxBlock = 1
  None = None
  PROVER_QUEUE_CAPACITY = 1
  MAX_FETCH_ATTEMPTS = 2
  Configs <- BoundedPosting
  RpcLag = 0
SPECIFICATION Spec
INVARIANT ProvedPostedBeforeReturn
