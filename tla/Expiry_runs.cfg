SPECIFICATION Spec
CONSTANTS
    Users = {u1, u2}
    Nodes = {n1, n2}
    MaxTime = 2
    Ticker = ticker
    Requests = {r1}
    Hidden = {n1}
    Planned = {}
    MaxChanges = 1
    MaxRequests = 1
SYMMETRY UserSymmetry
INVARIANTS
    TypeOK
    OneRunAtATime
    
    
CHECK_DEADLOCK FALSE
