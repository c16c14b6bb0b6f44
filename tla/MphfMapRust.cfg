CONSTANTS
  Keys = {"a", "b", "c", "d"}
  Key8 <- ShortKeys
  Encoders = {"rust"}
  kLambda = 2
  kMaxDisplacement = 0
  kMaxSeedRetries = 2
  MaxAdds = 3
SPECIFICATION Spec
INVARIANT SidecarInvariant
CHECK_DEADLOCK FALSE
