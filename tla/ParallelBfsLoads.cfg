SPECIFICATION Spec
CONSTANTS
  num_vertices = 6
  houses <- DiamondHouses
  roads <- DiamondRoads
  start_house = 1
  num_threads = 3
  INT_MAX = 100
  LoadOrders = {"full"}
CHECK_DEADLOCK FALSE
INVARIANT ResultRight
