\* Two soldiers, one of them of the coup, two games and two runs of the program.
CONSTANTS
  s1 = s1
  s2 = s2
  Soldiers = {s1, s2}
  CoupSoldiers = {s1}
  Broken = Broken
  Cost = 1
  Rewards <- MCRewards
  Gift = 1
  Mixing = FALSE
  Games = 2
  Launches = 2
SPECIFICATION ProgressSpec
PROPERTIES InterviewPaid
CHECK_DEADLOCK FALSE
