\* Connections one after the other on prompt sockets, and a round that outlasts the token.
CONSTANTS
  Null = Null
  Conns <- Conns3
  First = 1
  Grace = 2
  Overlap = FALSE
  SlowSockets = FALSE
SPECIFICATION SideBySide
CHECK_DEADLOCK FALSE
INVARIANTS TokenOutlivesGrace
