CONSTANTS
  None = None
  Seats <- Seats3
  Humans <- Two
  Registered <- One
  HandSize = 1
  GameOverScore = 2
  SlowSockets = FALSE
  Leavers <- Two
  Droppers <- Two
  Slots = 2
SPECIFICATION Spec
CHECK_DEADLOCK FALSE
INVARIANTS CommitOnce
