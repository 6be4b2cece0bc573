SPECIFICATION FairSpec
CONSTANTS
  HeaderLen = 1
  BlockLen = 2
  SendMax = 1
  RecvMax = 3
  Scripts <- SilentScripts
  MaxCalls = 1
  ServerMayClose = FALSE
PROPERTIES
  AcceptedIsHandled
CHECK_DEADLOCK FALSE
