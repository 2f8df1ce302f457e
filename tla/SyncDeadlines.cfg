SPECIFICATION Spec
CONSTANTS
    Entities = {}
    Values = {v1}
    NoValue = noValue
    Free = free
    PendingLimit = 1
    Workers = {w1, w2}
    Assignments = {a1}
    Lectures = {l1}
    Thresholds = 1
SYMMETRY Symmetry
INVARIANTS
    NoSecondWarning
