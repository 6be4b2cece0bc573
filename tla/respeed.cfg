SPECIFICATION Spec
CONSTANTS
  home = home
  away = away
  Blank = Blank
  f1 = f1
  Ips = {home, away}
  Feeders = {f1}
  InitConfs <- RespeedInit
  NewConfs <- RespeedNew
  MaxUpdates = 1
  MaxFeeds = 6
  MaxConns = 4
INVARIANTS
  SpeedLimit
CHECK_DEADLOCK FALSE
