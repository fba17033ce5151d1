SPECIFICATION MCSpec
CONSTANTS
  MaxSize = 12
  num_workers = 3
  num_vertices = 7
  houses <- FourHouses
  roads <- TenRoads
  INT_MAX = 100
  Threads = {t1, t2, t3}
  MaxVectors = 4
  MaxHeld = 2
  MeetingHouses <- ThreeHouses
  MAX_VERTICES = 10
  DepthEnd = 16
  Callers = {w1, w2}
  Keys = {1, 2}
  MaxWork = 4
  NULL = NULL
INVARIANT MinMaxExact
CHECK_DEADLOCK FALSE
