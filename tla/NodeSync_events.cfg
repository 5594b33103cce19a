SPECIFICATION Spec
CONSTANTS
    Procs = {p1, p2}
    Ops <- SyncOnly
    MaxCalls = 2
    MaxGen = 0
    AgentStart = 0
SYMMETRY ProcSymmetry
PROPERTIES
    SyncFailureIsRecorded
CHECK_DEADLOCK FALSE
