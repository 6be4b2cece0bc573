SPECIFICATION FairSpec
CONSTANTS
  w1 = w1
  Workers = {w1}
  HeaderLen = 1
  BlockLen = 2
  RecvMax = 5
  SendMax = 2
  RejectLen = 0
  TimeOuts = {0, 1}
  Pipelined <- ClosingInputs
  PeerMayFail = TRUE
  Inputs <- ClosingInputs
INVARIANTS
  NoLostWakeup
  OneReadChain
  GivenUpIsClosed
PROPERTIES
  Flushed
  Released
CHECK_DEADLOCK FALSE
