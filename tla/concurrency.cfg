SPECIFICATION Spec
CONSTANTS
  home = home
  away = away
  Blank = Blank
  f1 = f1
  Ips = {home, away}
  Feeders = {f1}
  InitConfs <- ConcurrencyInit
  NewConfs = {}
  MaxUpdates = 0
  MaxFeeds = 1
  MaxConns = 4
INVARIANTS
  ConcurrencyLimit
CHECK_DEADLOCK FALSE
