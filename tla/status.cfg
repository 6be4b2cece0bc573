SPECIFICATION Spec
CONSTANTS
  c1 = c1
  Callers = {c1}
  CallSet <- RejectedCalls
  MaxCalls = 1
  ServerMayClose = FALSE
INVARIANTS
  StatusPassedOn
CHECK_DEADLOCK FALSE
