SPECIFICATION FairSpec
CONSTANTS
    Procs = {p1, p2}
    Ops <- EveryHandler
    MaxCalls = 2
    MaxGen = 0
    AgentStart = 0
PROPERTIES
    HandlersReturn
CHECK_DEADLOCK FALSE
