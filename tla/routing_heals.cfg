SPECIFICATION DVFair
CONSTANTS
  Router = {1, 2, 3}
  Net = {30}
  Direct = 0
  LinkCost <- TriangleCost
  Config <- TriangleConfig
  Dist <- TriangleDist
  INF_COST = 6
  QueueLen = 1
  MaxCrashes = 0
  MaxOutages = 1
  MaxFaults = 2
  Fragile <- TriangleLinks
PROPERTIES ReachableIsAlive
CHECK_DEADLOCK FALSE
