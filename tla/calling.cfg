SPECIFICATION FairSpec
CONSTANTS
  c1 = c1
  c2 = c2
  Callers = {c1, c2}
  CallSet <- EveryCall
  MaxCalls = 2
  ServerMayClose = TRUE
INVARIANTS
  NoCrossTalk
PROPERTIES
  TimedCallsReturn
CHECK_DEADLOCK FALSE
