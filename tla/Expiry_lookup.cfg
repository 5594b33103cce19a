SPECIFICATION Spec
CONSTANTS
    Users = {u1, u2}
    Nodes = {n1, n2}
    MaxTime = 1
    Ticker = ticker
    Requests = {r1}
    Hidden = {}
    Planned = {n2}
    MaxChanges = 0
    MaxRequests = 0
INVARIANTS
    RevocationIsComplete
CHECK_DEADLOCK FALSE
