SPECIFICATION Spec
CONSTANTS
    Procs = {p1}
    Jobs <- EverySource
    Samples <- MCSamples
    Width = 64
    Second = 8
    Threshold = 10
    Sample = 2
    Shown = 1
    None = None
    Torn = Torn
    MaxCrashes = 0
INVARIANT TimestampsAreNanoseconds
CHECK_DEADLOCK FALSE
