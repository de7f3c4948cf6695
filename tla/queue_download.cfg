\* The queue with main and one other thread pushing to two workers, and a
\* download of five blocks with four block numbers over a network that loses,
\* repeats and reorders; a datagram is not delivered three blocks after it
\* was sent.
SPECIFICATION BothSpec
CONSTANTS
  Main = main
  Producers = {main, p}
  Workers = {w1, w2}
  Jobs = {j1, j2}
  Null = null
  NumBlocks = 5
  BlockMod = 4
  MaxLife = 3
  EmptyTail = FALSE
  MaxRetries = 2
  ClientRetries = 1
  MaxDups = 1
INVARIANTS Linked NoneStranded StopAndWait CompleteReachesClient
PROPERTIES QueueIsFifo JobsTaken CloseEndsPool InterruptEndsPool DownloadIsTransfer ChildEnds
