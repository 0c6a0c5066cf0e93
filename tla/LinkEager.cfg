\* The board may take longer than a resend period; nothing is lost.
CONSTANTS
  Layers <- OneLayer
  Lossy = FALSE
  Paced = FALSE
  MaxFlight <- TwoCopies
SPECIFICATION FairSpec
INVARIANTS NotSkipped
PROPERTIES ReachesLast
\* The print ends, and a print is all this model has.
CHECK_DEADLOCK FALSE
