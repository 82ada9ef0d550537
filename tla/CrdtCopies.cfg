SPECIFICATION Spec
CONSTANTS
    Values = {v}
    Fields = {strategy_source}
    Uids <- MCUids
    Payloads = {coded}
    None = None
    Nodes <- MCNodes
    MaxTime = 2
    MaxUpdates = 3
    MaxSent = 3
    Skewed = FALSE
INVARIANTS Convergence LatestWriteWins LogAndCounterExact
CHECK_DEADLOCK FALSE
