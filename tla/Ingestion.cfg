SPECIFICATION Spec
CONSTANTS
    Procs = {p1, p2, p3}
    Jobs <- MCJobs
    Samples <- MCSamples
    Width = 64
    Second = 8
    Threshold = 10
    Sample = 2
    Shown = 1
    None = None
    Torn = Torn
    MaxCrashes = 1
SYMMETRY Symmetry
INVARIANTS TypeOK IndexDescribesFiles IndexNamesSource IndexKeepsEntries TimeOrderKept
CHECK_DEADLOCK FALSE
