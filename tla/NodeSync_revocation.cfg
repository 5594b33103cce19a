SPECIFICATION Spec
CONSTANTS
    Procs = {p1, p2}
    Ops <- SyncOnly
    MaxCalls = 2
    MaxGen = 1
    AgentStart = 0
SYMMETRY ProcSymmetry
VIEW WithoutEvents
INVARIANTS
    RevocationHolds
CHECK_DEADLOCK FALSE
