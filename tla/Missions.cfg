SPECIFICATION Spec
CONSTANTS
    Items = {i1}
    Tasks = {t1, t2}
    Sync = sync
    Dues = {3}
    NoDue = noDue
    UrgentWithin = 0
    HighWithin = 1
    Offset = 1
    MaxTime = 3
INVARIANTS
    MissionsInv
PROPERTIES
    CompletedStays
    PrioritySettles
