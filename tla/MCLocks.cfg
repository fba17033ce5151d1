SPECIFICATION SpecLocks
CONSTANTS
  Threads = {t0, t1, t2}
  EMPTY = EMPTY
  Patience = 1
  Nodes = {n1, n2, n3, n4}
  Readers = {r1, r2}
  CounterEnd = 4
INVARIANTS IInv MutualExclusion LabLocksExclude
PROPERTIES LocksImplementMutex WaitersEnter
