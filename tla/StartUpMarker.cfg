\* The program gets on after reboot() until the restart kills it.
CONSTANTS
  MaxDelay = 3
  FirstDelay = 2
  Needs = {1, 2, 3}
  MaxCuts = 0
  PromptKill = FALSE
  NPorts = 3
  Rounds = 2
  Checks = 2
  MaxTouches = 1
SPECIFICATION Spec
INVARIANTS MarkerTells
\* The start is over when both searches are.
CHECK_DEADLOCK FALSE
