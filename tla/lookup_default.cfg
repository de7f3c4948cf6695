\* A table whose only route for some destinations is the default one.
SPECIFICATION TableSpec
CONSTANTS
  near = near
  far = far
  ADDR_BITS = 2
  INF_COST = 3
  MAX_DEST = 2
  Neighbors = {near, far}
  NextHopNone = none
  Networks <- NestedNetworks
  NbCost <- NearAndFar
INVARIANTS LookupBest
CHECK_DEADLOCK FALSE
