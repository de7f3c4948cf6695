SPECIFICATION DVFair
CONSTANTS
  Router = {1, 2, 3, 4}
  Net = {40}
  Direct = 0
  LinkCost <- RingCost
  Config <- RingConfig
  Dist <- RingDist
  INF_COST = 4
  QueueLen = 1
  MaxCrashes = 1
  MaxOutages = 1
  MaxFaults = 1
  Fragile <- RingTail
PROPERTY Settles
CHECK_DEADLOCK FALSE
