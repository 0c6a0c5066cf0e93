\* Times 1..3; three ports, two rounds, two looks.
CONSTANTS
  MaxDelay = 3
  FirstDelay = 2
  Needs = {1, 2, 3}
  MaxCuts = 1
  PromptKill = TRUE
  NPorts = 3
  Rounds = 2
  Checks = 2
  MaxTouches = 1
SPECIFICATION FairSpec
INVARIANTS TypeOK RightPorts FoundStays CaughtWithoutBoard
PROPERTIES NoneSkipped TriesInTurn ComesUp
\* The start is over when both searches are.
CHECK_DEADLOCK FALSE
