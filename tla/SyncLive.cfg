SPECIFICATION LiveSpec
CONSTANTS
    Entities = {e1, e2}
    Values = {v1}
    NoValue = noValue
    Free = free
    PendingLimit = 1
    Workers = {w1}
    Assignments = {}
    Lectures = {}
    Thresholds = 1
PROPERTIES
    QuitCompletes
    EveryChangeSettled
