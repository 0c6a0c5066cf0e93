\* Does a print end by itself?
CONSTANTS
  Layers <- OneLayer
  Lossy = FALSE
  Paced = TRUE
  MaxFlight <- OneComplaint
SPECIFICATION FairSpec
PROPERTIES PrintEnds
