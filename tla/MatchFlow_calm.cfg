\* Three humans who leave, drop and return, two turns a round; beside it the same three, none lost.
CONSTANTS
  None = None
  Seats <- Seats3
  Humans <- Three
  Registered <- Two
  HandSize = 2
  GameOverScore = 2
  SlowSockets = FALSE
  Leavers <- Three
  Droppers <- Three
  Slots = 2
SPECIFICATION SideBySide
CHECK_DEADLOCK FALSE
INVARIANTS CommittedOnce TakenSeatsPlayOn
PROPERTIES CalmMatchEnds PlaysRounds
