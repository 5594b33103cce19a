SPECIFICATION Spec
CONSTANTS
    Procs = {p1, p2}
    Ops <- EveryHandler
    MaxCalls = 2
    MaxGen = 2
    AgentStart = 1
SYMMETRY ProcSymmetry
VIEW WithoutEvents
INVARIANTS
    TypeOK
    AppliedLeDesired
    PanelNeverOverclaims
    UnreachableNotOnline
    IInv
PROPERTIES
    AppliedRegressesOnlyByLateAck
    KeepsPromise
CHECK_DEADLOCK FALSE
