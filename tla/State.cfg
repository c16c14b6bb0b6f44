SPECIFICATION SumSpec
CONSTANTS
  Addr = {a}
  Key = {k1, k2}
  MaxValue = 1
  MaxBalance = 1
  Scenarios <- MCScenarios
  MaxDiffs = 2
  Nibbles = {0, 1, 2}
  KeyLength = 4
  Keys <- MCKeys
  PreValues = {"a"}
  Written = {"b"}
  Embedded = {"b"}
  kMaxLines = 255
  MaxKeys = 4
  MaxUpdates = 3
  MaxSize = 5
  Slots <- MCSlots
  Lengths = {0, 1, 2, 16, 17, 127, 128, 129, 130}
  Feeds <- MCFeeds
  Short = {1, 129}
INVARIANTS
  AcceptedIsRight
  HonestAccepted
  UpdatesDistinct
  CachesFresh
  RootRight
  ClaimsBound
  HonestWalkSucceeds
  BuilderRootRight
CHECK_DEADLOCK FALSE
