SPECIFICATION Spec
CONSTANTS
    Entities = {e1}
    Values = {v1, v2}
    NoValue = noValue
    Free = free
    PendingLimit = 1
    Workers = {w1, w2}
    Assignments = {}
    Lectures = {}
    Thresholds = 1
SYMMETRY Symmetry
INVARIANTS
    ProcessedWasHandled
    OneBaseline
    PausedMeansNoHeartbeat
PROPERTIES
    NoSpuriousEvent
    ImplementsOutbox
