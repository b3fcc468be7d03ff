\* Players leave, drop and return on slow sockets.
CONSTANTS
  None = None
  Seats <- Seats3
  Humans <- Two
  Registered <- One
  HandSize = 1
  GameOverScore = 1
  SlowSockets = TRUE
  Leavers <- One
  Droppers <- Two
  Slots = 2
SPECIFICATION Spec
CHECK_DEADLOCK FALSE
INVARIANTS SelectionsBelongToTurn GraceCovers
