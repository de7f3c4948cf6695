\* Two connections for two slots.
SPECIFICATION FairSpec
CONSTANTS
  Workers = {w1, w2}
  max_clients = 2
  Cells = {x1, x2}
  Names = {ann}
  Quit = quit
  MaxConns = 2
  MaxLines = 2
  MaxSignals = 1
  Null = null
  NoName = noname
  Junk = junk
PROPERTIES LinesFlow ShutdownEnds
