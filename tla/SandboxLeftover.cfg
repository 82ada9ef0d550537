SPECIFICATION Spec
CONSTANTS
    ExitCodes <- MCExitCodes
    Killed = Killed
    None = None
    MaxRuns = 1
    MaxFailures = 0
INVARIANT EphemeralContainers
CHECK_DEADLOCK FALSE
