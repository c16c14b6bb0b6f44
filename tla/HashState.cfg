SPECIFICATION SumSpec
CONSTANTS
  Addr = {a}
  Key = {k1, k2}
  MaxValue = 1
  MaxBalance = 1
  PreStates <- MCPreStates
  CodeStores = {{}, {"deployed"}}
  MaxDiffs = 3
INVARIANTS
  AcceptedIsRight
  HonestAccepted
  SweepExact
  ConfirmedIsAbsent
  DirectAnswersAsWalk
  HashAnswersBound
  IndexIsMap
CHECK_DEADLOCK FALSE
