SPECIFICATION FairSpec
CONSTANTS
    Chats = {c1}
    Seeds = {c1}
    MaxRequests = 3
    MaxCrashes = 1
INVARIANTS
    LiveIsNewest
    PendingAnswered
    ActivationComing
PROPERTIES
    Settles
CHECK_DEADLOCK FALSE
