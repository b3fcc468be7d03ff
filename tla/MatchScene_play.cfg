SPECIFICATION FairSpec
CONSTANTS
  Rounds = 2
  Turns = 2
  Placements = 1
  Limit = 2
  Settle = 3
  Tears = 1
  Taken = {1}
  None = None
INVARIANTS InStep CountsRight
PROPERTIES MatchLeft
CHECK_DEADLOCK FALSE
