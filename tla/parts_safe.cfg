\* Parts that share nothing, in one run: a behaviour is one of them.
SPECIFICATION PartsSpec
CONSTANTS
  Files = {f, g}
  start_port = 10
  end_port = 12
  MaxChildren = 3
  NumBlocks = 4
  BlockMod = 3
  MaxLife = 2
  MaxRetries = 2
  ClientRetries = 1
  MaxDups = 1
  near = near
  far = far
  ADDR_BITS = 2
  INF_COST = 3
  MAX_DEST = 2
  Neighbors = {near, far}
  NextHopNone = none
  Networks <- NestedNetworks
  NbCost <- NearAndFar
  MAX_CLIENTS = 2
  BOARD_SIZE = 2
  MaxConns = 3
  MaxSends = 2
  MaxTyped = 2
  Clients = {a, b}
  num_threads = 3
  MaxN = 4
  Recorders = {r1, r2}
  Readers = {q}
  Others = {o}
  max_workers = 2
  MaxPoints = 2
  Ids = {0, 1}
INVARIANTS LossNeedsSharedFile PrefixWritten AckedIsStored AbortOnlyAfterWrap LookupSpecific SlotsCounted BoardRecent PostsReachAll RangesPartition FibSumRight RetrievedWhole
PROPERTIES DropNeedsRival OldFilesKept UploadIsTransfer ChildEnds TableIsFunction LinesRead FibAnswered
CHECK_DEADLOCK FALSE
