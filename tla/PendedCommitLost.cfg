CONSTANTS
  Connections = {c1, c2}
  max_threads = 2
  oversubscribe = 1
  NULL = NULL
  MaxRequests = 2
SPECIFICATION Spec
INVARIANT PendedHasCallback
