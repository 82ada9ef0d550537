SPECIFICATION Spec
CONSTANTS
    Nodes <- MCNodes
    Values = {v}
    Fields <- MCFields
    Uids = {}
    Payloads = {entry}
    None = None
    Procs = {1, 2}
    Tasks = {1, 2}
    Deployments <- Cluster
    Iterations = 2
    Window = 2
    MaxAborts = 0
PROPERTY RunsEnd
CHECK_DEADLOCK FALSE
