SPECIFICATION Spec
CONSTANTS
  DataSize = 4
  DmiRequests <- AllRequests
  MaxRequests = 4
  Programs <- AllPrograms
  Handler = 2
  FetchErrors = TRUE
  DataErrors = TRUE
  Interrupts = TRUE
  SlaveDepth = 1
  Orderly = TRUE
ACTION_CONSTRAINT Session
INVARIANTS TypeOK CommandsReachHart
PROPERTIES PortKept ImplementsProgram AnswerIsOfThisCommand
