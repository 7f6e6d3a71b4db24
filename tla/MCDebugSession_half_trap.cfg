SPECIFICATION Spec
CONSTANTS
  DataSize = 4
  DmiRequests <- RunControl
  MaxRequests = 6
  Programs <- Both
  Handler = 2
  FetchErrors = TRUE
  DataErrors = TRUE
  Interrupts = TRUE
  SlaveDepth = 1
  Orderly = TRUE
PROPERTY HaltsAtBoundary
