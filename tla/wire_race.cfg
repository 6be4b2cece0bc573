SPECIFICATION Spec
CONSTANTS
  w1 = w1
  w2 = w2
  Workers = {w1, w2}
  HeaderLen = 1
  BlockLen = 3
  RecvMax = 5
  SendMax = 0
  RejectLen = 1
  TimeOuts = {0}
  Pipelined = {}
  PeerMayFail = FALSE
  Inputs <- TwoBlockInputs
INVARIANTS
  WireIntact
CHECK_DEADLOCK FALSE
