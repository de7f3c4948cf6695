SPECIFICATION DownloadSpec
CONSTANTS
  NumBlocks = 3
  BlockMod = 16
  MaxLife = 16
  EmptyTail = TRUE
  MaxRetries = 2
  ClientRetries = 1
  MaxDups = 0
INVARIANTS CompleteReachesClient
CHECK_DEADLOCK FALSE
