SPECIFICATION Spec
CONSTANTS
  N = 2
  IntMax = 6
  MaxUpdates = 4
  A_PLUS_B = 4
  InitialA = {3}
  NULL = NULL
INVARIANTS TypeOK AssertionsHold NoFreedRead WantedIsLive NewestFirst RefMinBelowReaders SumUnchanged
PROPERTIES ReadsFromSnapshot Terminates
CHECK_DEADLOCK FALSE
