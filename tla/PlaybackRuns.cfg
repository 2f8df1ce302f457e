SPECIFICATION LiveSpec
CONSTANTS
    Ids = {p1, p2}
    NoId = NoId
INVARIANTS
    TimersMatchRuns
    NoOrphanBrowser
    StopMeansClosed
PROPERTIES
    OutcomeIsFinal
    WindowsClose
    CallAnswered
