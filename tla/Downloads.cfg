SPECIFICATION Spec
CONSTANTS
    Ids = {d1, d2, d3}
    Converters = {k1}
    Retention = 1
    MaxTime = 3
    MaxCrash = 1
    Nothing = Nothing
CHECK_DEADLOCK FALSE
INVARIANTS
    DownloadsInv
    ServedUntilExpiry
PROPERTIES
    RemovalIsComplete
