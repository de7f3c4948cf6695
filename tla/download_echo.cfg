\* A client that never repeats an ACK unasked, and a network that may repeat
\* one datagram.
SPECIFICATION EchoSpec
CONSTANTS
  NumBlocks = 4
  BlockMod = 16
  MaxLife = 16
  EmptyTail = FALSE
  MaxRetries = 2
  ClientRetries = 0
  MaxDups = 1
INVARIANTS EchoDiesOut
CHECK_DEADLOCK FALSE
