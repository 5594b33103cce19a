SPECIFICATION Spec
CONSTANTS
    Users = {u1, u2}
    Nodes = {n1, n2}
    Names = {x}
    Concurrency = 1
    Ready = {n1}
    Busy = {n1}
    MaxChanges = 1
INVARIANTS
    TypeOK
    SessionsAttributed
    IssuesExplained
    FilterFindsAll
    TelemetryInv
PROPERTIES
    PagePromise
    PageEnds
CHECK_DEADLOCK FALSE
