SPECIFICATION SumSpec
CONSTANTS
  MaxBlock = 3
  Configs <- MCConfigs
  Results = {"gas", "zero", "failure", "error"}
  PROVED_ATTEMPTS = 4
  MAX_RETRY_WAIT = 120
  ERROR_WAIT = 10
  RATE_WAIT = 30
  ServerWaits = {0, 600}
  MaxPostFaults = 5
  MaxRuns = 2
  Procs = {"service"}
  MAX_RETRIES = 2
  MaxFetches = 3
  MaxFetchFaults = 2
  FetchRequests <- MCRequests
  MaxProofs = 4
INVARIANTS
  NothingSkipped
  ReportedIsStored
  BundleWhole ForcedIsFresh
  OneProver
  EveryKeyFound
  ReadAsWritten
CHECK_DEADLOCK FALSE
