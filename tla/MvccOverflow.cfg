SPECIFICATION Spec
CONSTANTS
  N = 2
  IntMax = 5
  MaxUpdates = 6
  A_PLUS_B = 4
  InitialA = {0}
  NULL = NULL
INVARIANTS AssertionsHold
CHECK_DEADLOCK FALSE
