SPECIFICATION Spec
CONSTANTS
    Files <- ThreeFiles
    Listings <- SomeListings
    MaxBatch = 2
    MaxCalls = 3
INVARIANTS
    EclassStepInv
    StatusIsEarned
    BatchIsWhole
PROPERTIES
    IsOneAnswer
