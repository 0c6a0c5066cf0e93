\* Two CGI processes that may overlap and give up.
CONSTANTS
  c1 = c1
  c2 = c2
  Clients <- TwoRequests
  TotalLayers = 2
SPECIFICATION FairSpec
INVARIANTS TypeOK NoExtraImage ImageStays OwnAnswer
PROPERTIES Answered
\* The service ends with its file, and a CGI process after its answer.
CHECK_DEADLOCK FALSE
