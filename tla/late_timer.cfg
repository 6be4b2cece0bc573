SPECIFICATION Spec
CONSTANTS
  c1 = c1
  Callers = {c1}
  CallSet <- ServedCalls
  MaxCalls = 2
  ServerMayClose = FALSE
INVARIANTS
  TimerIsOwn
CHECK_DEADLOCK FALSE
