\* The link as the host is written for it: the board answers within a resend period,
\* and tcflush loses and cuts lines.
CONSTANTS
  Layers <- TwoLayers
  Lossy = TRUE
  Paced = TRUE
  MaxFlight <- OneComplaint
SPECIFICATION FairSpec
INVARIANTS TypeOK AckedIsDone ImageBeforeExposure
PROPERTIES DeliversInStep ReachesLast
