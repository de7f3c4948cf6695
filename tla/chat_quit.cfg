SPECIFICATION Spec
CONSTANTS
  Workers = {w1, w2}
  max_clients = 2
  Cells = {x1, x2}
  Names = {ann}
  Quit = quit
  MaxConns = 3
  MaxLines = 2
  MaxSignals = 0
  Null = null
  NoName = noname
  Junk = junk
INVARIANT ServerKeepsServing
