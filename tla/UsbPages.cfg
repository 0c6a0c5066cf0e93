\* Pages of two; two plug events, three commands.
CONSTANTS
  Sticks <- TwoSticks
  Local = "local"
  Order <- Found
  Place <- Where
  PageSize = 2
  MaxPlugs = 2
  MaxCmds = 3
SPECIFICATION FairSpec
INVARIANTS TypeOK PageInRange
PROPERTIES TapOpensShown PrintKeepsMounts Settles
\* The threads wait when nothing changes and no command comes.
CHECK_DEADLOCK FALSE
