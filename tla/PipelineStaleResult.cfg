CONSTANTS
  good = good
  poor = poor
  None = None
  Orchestrators = {o1}
  Consumers = {c1}
  Sources <- MCSources
  Backtests <- FewBacktests
  Limits <- LimitOfTwo
  Prefetch = 1
  MaxDrawdown = 1
  MaxLatency = 1
  MinSharpe = 1
  MaxRuns = 1
  MaxCrashes = 0
SPECIFICATION Safe
INVARIANT CatalogPairsSourceWithItsMetrics
CHECK_DEADLOCK FALSE
