SPECIFICATION Spec
CONSTANTS
    Groups = {g}
    Channels = {}
    Messages = {1, 2}
    PageSize = 3
    MaxEvents = 3
    MaxPauses = 1
    MaxFailures = 1
    MaxEnds = 1
INVARIANTS NothingPassed ScrubbedStays
CHECK_DEADLOCK FALSE
