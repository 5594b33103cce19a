SPECIFICATION Spec
CONSTANTS
    Panels = {p1}
    Jobs = {j1}
    Last = 4
    MaxFaults = 1
    MaxRestores = 1
INVARIANTS
    TypeOK
    SchemaAsRecorded
    LockPreventsClashes
    MigrationInv

    
CHECK_DEADLOCK FALSE
