SPECIFICATION Spec
CONSTANTS
    Nodes <- MCNodes
    Values = {v}
    Fields <- MCFields
    Uids = {}
    Payloads = {entry}
    None = None
    Procs = {1, 2}
    Tasks = {1, 2}
    Deployments <- MCDeployments
    Iterations = 2
    Window = 2
    MaxAborts = 1
INVARIANTS TypeOK SoleWriterExact LogCoversCounter LogsKeptApart CacheIsWindow PromptTellsHistory
CHECK_DEADLOCK FALSE
