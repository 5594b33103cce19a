SPECIFICATION Spec
CONSTANTS
    Users = {u1}
    Nodes = {n1, n2}
    MaxTime = 1
    Soon = 1
    Naive = {n2}
    Requests = {r1, r2}
    Hidden = {}
    Planned = {}
    MaxRequests = 2
    MaxEdits = 1
SYMMETRY RequestSymmetry
INVARIANTS
    TypeOK
    
    
    FormatsAgree
    LinksWork
    
    
CHECK_DEADLOCK FALSE
