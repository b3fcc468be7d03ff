\* A game of two, two rows of two cards, two turns: every deal, every selection, every scene.
CONSTANTS
  None = None
  Players <- MCPlayers2
  Card <- MCCards6
  NumRows = 2
  MaxCardsPerRow = 2
  CardsPerPlayer = 2
  GameOverScore = 3
  HumanSeat = 0
  Difficulties <- MCDifficulties
  Collections <- MCCollections
  Prestige = 0
SPECIFICATION LocalSpec
INVARIANTS BoardKept RoundAccounted SceneInStep
PROPERTIES RoundsFinish PlaysRoundsLocally
CHECK_DEADLOCK FALSE
