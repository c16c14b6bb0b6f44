SPECIFICATION Spec
CONSTANTS
  Width = 4
  GasValues = {0, 1, 7}
  MaxBundles = 2
  MaxFiles = 2
  Limits = {0, 2}
INVARIANT VerdictIsRight
CHECK_DEADLOCK FALSE
