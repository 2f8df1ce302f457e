SPECIFICATION Spec
CONSTANTS
    Reads = {r1}
    Named = {r1}
    Fetches = {d1}
    Plays = {p1}
    Syncs = {s1}
    MaxCalls = 3
    SyncLength = 2
    MaxFaults = 1
    Free = Free
CHECK_DEADLOCK FALSE
INVARIANTS
    SessionInv
    WholeUnlessClash
    AuthMeansRefused
PROPERTIES
    Answered
