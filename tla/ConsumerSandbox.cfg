SPECIFICATION ConsumerSpec
CONSTANTS
    ExitCodes <- MCExitCodes
    Killed = Killed
    None = None
    MaxRuns = 3
    MaxFailures = 2
    Strategies = {"wild", "broken"}
    Compiles = {"wild"}
    ExitsWith <- MCExitsWith
    Tasks <- MCTasks
    Prefetch = 1
    MaxCrashes = 2
INVARIANTS TypeOK DirectoriesRemoved NothingRunsUnattended ReportIsTrue
PROPERTIES WorkerPhaseEnds ImplementsConsumer
CHECK_DEADLOCK FALSE
