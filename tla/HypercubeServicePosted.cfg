SPECIFICATION Spec
CONSTANTS
  MaxBlock = 2
  Configs <- MCProving
  Results = {"gas", "zero", "failure", "error"}
INVARIANT PostedProofWhole
CHECK_DEADLOCK FALSE
