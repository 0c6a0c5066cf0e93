\* A base layer and two contour layers; start, pause and continue, or stop and start again, or
\* another file, or the stick pulled out.
CONSTANTS
  Layers = 2
  Images = 3
  Bottom = 1
  MaxPresses = 3
SPECIFICATION FairSpec
INVARIANTS TypeOK ImageMatches OneRemover
PROPERTIES StopQuiets RunsThrough
\* The printer is at rest when the user presses no more.
CHECK_DEADLOCK FALSE
