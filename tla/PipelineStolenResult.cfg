CONSTANTS
  good = good
  poor = poor
  None = None
  Orchestrators = {o1, o2}
  Consumers = {c1}
  Sources <- MCSources
  Backtests <- FewBacktests
  Limits <- OneLimit
  Prefetch = 1
  MaxDrawdown = 1
  MaxLatency = 1
  MinSharpe = 1
  MaxRuns = 1
  MaxCrashes = 0
SPECIFICATION Safe
PROPERTY ResultReachesItsRun
CHECK_DEADLOCK FALSE
