SPECIFICATION FairSpec
CONSTANTS
  Conns = {1, 2}
  Matches = {1}
  Seats = {0, 1}
  Tokens = 2
  Faults = 1
  Logins = {"registered"}
  Namesakes = TRUE
  None = None
INVARIANTS SeatIsMine TokenKept OnePlace
PROPERTIES AnswerComes
CHECK_DEADLOCK FALSE
