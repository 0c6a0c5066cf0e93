\* Four files, four acts of the user, one request without an answer; three presses.
CONSTANTS
  Order <- Folder
  Printable <- Gcodes
  Long <- LongOne
  MaxActs = 4
  MaxFails = 1
  Clients <- Presses
SPECIFICATION FairSpec
INVARIANTS TypeOK IndexInRange OwnToggle
PROPERTIES CancelStops EveryFileRuns Served
