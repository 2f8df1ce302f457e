SPECIFICATION LiveSpec
CONSTANTS
    Workers = {w1, w2}
    Users = {u1}
    Servers = {s1, s2, s3, s4}
    NoServer = noServer
    NoOne = noOne
    Closer = closer
INVARIANTS
    Reachable
    NoHalfOpen
    ClosedMeansGone
PROPERTIES
    StepEnds
    QuitEnds
