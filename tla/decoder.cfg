SPECIFICATION Spec
CHECK_DEADLOCK FALSE
CONSTANTS
  Prefixes = {102, 243}
  MaxPrefixesTried = 2
  RexBytes = {65, 72}
  Digits = {0, 1, 3, 7}
  RMs = {0, 4, 5}
  SIBs = {4, 5, 36, 253}
INVARIANTS Measured DecodedAlike BranchesFound
