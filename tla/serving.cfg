SPECIFICATION FairSpec
CONSTANTS
  w1 = w1
  w2 = w2
  Workers = {w1, w2}
  HeaderLen = 2
  BlockLen = 3
  RecvMax = 5
  SendMax = 0
  RejectLen = 1
  TimeOuts = {0}
  PeerMayFail = FALSE
  Inputs <- ServingInputs
  Pipelined <- FramingInputs
INVARIANTS
  TypeOK
  FramingCorrect
  CloseJustified
  WireIntact
PROPERTIES
  AllDelivered
  AllAnswered
CHECK_DEADLOCK FALSE
