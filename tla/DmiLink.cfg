SPECIFICATION FairSpec
CONSTANTS
  Addr = {0, 1}
  ShiftOps = {0, 1}
INVARIANTS TypeOK LinkConsistent
PROPERTIES PerformsOnce ErrorsHold ImplementsDmi RequestAnswered LinkSettles
