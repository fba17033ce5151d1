SPECIFICATION Spec
CONSTANTS
  Connections = {c1, c2}
  Background = {b}
  MAX_CALLBACKS = 1
  MaxLsn = 2
INVARIANTS TypeOK OneWriter ReturnedIsDurable EarlyOnlyWhileFlushing
PROPERTY EveryCallbackRuns
CHECK_DEADLOCK FALSE
