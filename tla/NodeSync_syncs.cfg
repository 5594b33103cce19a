SPECIFICATION Spec
CONSTANTS
    Procs = {p1, p2}
    Ops <- SyncOnly
    MaxCalls = 3
    MaxGen = 1
    AgentStart = 0
SYMMETRY ProcSymmetry
VIEW WithoutEvents
INVARIANTS
    VersionNamesOneConfig
    VersionBudget
    ConfirmedNotUndone
CHECK_DEADLOCK FALSE
