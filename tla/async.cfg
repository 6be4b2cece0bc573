SPECIFICATION FairSpec
CONSTANTS
  HeaderLen = 1
  BlockLen = 2
  SendMax = 1
  RecvMax = 3
  Scripts <- AsyncScripts
  MaxCalls = 3
  ServerMayClose = TRUE
INVARIANTS
  TypeOK
  HandlerCorrect
  OneReadChain
  NoLostWakeup
  LetGoIsClosed
PROPERTIES
  AcceptedSettles
CHECK_DEADLOCK FALSE
