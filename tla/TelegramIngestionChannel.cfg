SPECIFICATION FairSpec
CONSTANTS
    Groups = {}
    Channels = {c}
    Messages = {1}
    PageSize = 3
    MaxEvents = 3
    MaxPauses = 1
    MaxFailures = 0
    MaxEnds = 2
INVARIANTS GapNotBackfilled
PROPERTIES EventuallyIngested
CHECK_DEADLOCK FALSE
