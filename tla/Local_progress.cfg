\* A game of two on two rows of the capacity of config.py, three turns: rows that fill up and
\* are taken; beside it two soldiers, one of them of the coup, two games and two runs of the
\* program.
CONSTANTS
  None = None
  Players <- MCPlayers2
  Card <- MCCards8
  NumRows = 2
  MaxCardsPerRow = 5
  CardsPerPlayer = 3
  GameOverScore = 1
  HumanSeat = 0
  Difficulties <- MCEasy
  Collections <- MCNoCollections
  Prestige = 0
  s1 = s1
  s2 = s2
  Soldiers = {s1, s2}
  CoupSoldiers = {s1}
  Broken = Broken
  Cost = 1
  Rewards <- MCRewards
  Gift = 1
  Mixing = FALSE
  Games = 2
  Launches = 2
SPECIFICATION GameOrProgress
INVARIANTS BotsSeeTheCharge ProgressEarned SavedIsShown
CHECK_DEADLOCK FALSE
