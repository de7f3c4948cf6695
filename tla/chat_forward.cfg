\* The chat server with three connections for two slots, and one packet at a
\* time through a triangle of routers where a router may crash and the link on the best ways fail.
SPECIFICATION BothSpec
CONSTANTS
  Workers = {w1, w2}
  max_clients = 2
  Cells = {x1, x2}
  Names = {ann}
  Quit = quit
  MaxConns = 3
  MaxLines = 2
  MaxSignals = 1
  Null = null
  NoName = noname
  Junk = junk
  Router = {1, 2, 3}
  Net = {30}
  Direct = 0
  LinkCost <- TriangleCost
  Config <- TriangleConfig
  Dist <- TriangleDist
  INF_COST = 4
  QueueLen = 1
  MaxCrashes = 1
  MaxOutages = 1
  MaxFaults = 2
  Fragile <- BestLink
  Targets = {30, 3}
  MaxTTL = 2
  NoPacket = NoPacket
SYMMETRY Symmetry
INVARIANTS RecvNeverBlocks CountMatches DescriptorsOwned NamesUnique CostSound NoRouteThroughDead
PROPERTIES RightSender ConvergedNearer
