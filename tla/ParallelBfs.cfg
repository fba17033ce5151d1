SPECIFICATION Spec
CONSTANTS
  num_vertices = 10
  houses <- TreeHouses
  roads <- TreeRoads
  start_house = 1
  num_threads = 3
  INT_MAX = 100
  LoadOrders = {"full", "done"}
INVARIANTS FreeCountRight FoundAtTrueDistance ResultRightDoneFirst EveryHouseVisited
PROPERTY Terminates
CHECK_DEADLOCK FALSE
