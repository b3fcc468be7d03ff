\* Three players over many rounds of one turn: scoring, leaving, elimination, winning; beside
\* it three connections of a seat, overlapping over slow sockets or one after the other.
CONSTANTS
  None = None  Null = Null
  Players <- MCPlayers3
  Card <- MCCards5
  NumRows = 2
  MaxCardsPerRow = 1
  CardsPerPlayer = 1
  GameOverScore = 2
  HumanSeat = None
  Conns <- Conns3
  First = 1
  Grace = 2
  Overlap = TRUE
  SlowSockets = TRUE
SPECIFICATION RulesOrSeat
CHECK_DEADLOCK FALSE
INVARIANTS EliminationsRecorded WinnerJustified OwnerIsOpen WayBack
PROPERTIES EliminationIsFinal PlayedGameEnds BotKeepsSeat LossIsResolved GraceIsGranted
