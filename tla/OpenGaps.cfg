SPECIFICATION OrderlySpec
CHECK_DEADLOCK FALSE
CONSTANT AuditedGaps = {"external_iss"}
INVARIANT ClosedAgrees
