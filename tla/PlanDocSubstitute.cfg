SPECIFICATION RuntimeSpec
CONSTANTS
    Lists <- SmallLists
    Parent <- SmallParent
    Utterances <- SmallUtterances
    Plans <- SmallPlans
    MaxBatch = 2
    MaxSteps = 2
    MaxRefs = 4
    MaxRequests <- Budget
INVARIANTS
    NoSubstitute
