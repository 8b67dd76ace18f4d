SPECIFICATION Spec
CONSTANTS
    MaxRevision = 2
    Searches = {s1}
    MaxAttempts = 2
    MaxTrouble = 1
    MaxWaiting = 1
    MaxLeft = 1
INVARIANTS
    NothingKept
    LaterKept
PROPERTIES
    FoundNoMore
CHECK_DEADLOCK FALSE
