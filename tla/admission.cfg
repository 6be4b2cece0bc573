SPECIFICATION FairSpec
CONSTANTS
  home = home
  away = away
  Blank = Blank
  f1 = f1
  f2 = f2
  Ips = {home, away}
  Feeders = {f1, f2}
  InitConfs <- AdmissionInit
  NewConfs <- AdmissionNew
  MaxUpdates = 1
  MaxFeeds = 3
  MaxConns = 4
INVARIANTS
  TypeOK
  TokenInRange
  ExcessAtMostOne
  SpeedLimit
  NullTimerJustified
  OneFeedChain
PROPERTIES
  TokensReturn
CHECK_DEADLOCK FALSE
