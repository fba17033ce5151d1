SPECIFICATION Spec
CONSTANTS
  Threads = {t1, t2, t3}
  MaxVectors = 4
  MaxHeld = 2
INVARIANT AllocReturnsVector
CHECK_DEADLOCK FALSE
