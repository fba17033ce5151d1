SPECIFICATION Spec
CONSTANTS
  Connections = {c1, c2}
  Background = {b}
  MAX_CALLBACKS = 1
  MaxLsn = 2
INVARIANT CalledIsDurable
CHECK_DEADLOCK FALSE
