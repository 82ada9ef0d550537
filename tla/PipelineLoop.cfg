CONSTANTS
  good = good
  poor = poor
  None = None
  Orchestrators = {o1}
  Consumers = {c1, c2}
  Sources <- MCSources
  Backtests <- SomeBacktests
  Limits <- TwoLimits
  Prefetch = 1
  MaxDrawdown = 1
  MaxLatency = 1
  MinSharpe = 1
  MaxRuns = 1
  MaxCrashes = 1
SPECIFICATION ClusterSpec
INVARIANTS TypeOK NoTaskLost CatalogSound OneEntryPerRun FreshUnlessLate MemoriesAgree LoopBounded
PROPERTIES ImplementsGraph ApprovalEndsRun RunsEnd EventuallySettled
CHECK_DEADLOCK FALSE
