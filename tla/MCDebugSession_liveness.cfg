SPECIFICATION FairSpec
CONSTANTS
  DataSize = 4
  DmiRequests <- Live
  MaxRequests = 3
  Programs <- Both
  Handler = 2
  FetchErrors = FALSE
  DataErrors = FALSE
  Interrupts = FALSE
  SlaveDepth = 1
  Orderly = TRUE
PROPERTIES HaltTakesEffect CommandEnds ResumeAcknowledged
