SPECIFICATION Spec
CONSTANTS
    Procs = {p1, p2}
    Ops <- EveryHandler
    MaxCalls = 1
    MaxGen = 0
    AgentStart = 0
SYMMETRY ProcSymmetry
VIEW WithoutEvents
INVARIANTS
    DisabledNodeIsShownDisabled
CHECK_DEADLOCK FALSE
