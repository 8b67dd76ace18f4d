SPECIFICATION FairSpec
CONSTANTS
    Channel = TRUE
    MaxRevision = 3
    Commands = {"paused", "removed"}
    MaxCommands = 1
    MaxTargetEdits = 1
    MaxDecisions = 0
    Crashing = {"classification", "recommendation"}
    MaxCrashes = 1
INVARIANTS
    SearchConverges
PROPERTIES
    ActiveBecomesSearchable
    EventuallyHandled
CHECK_DEADLOCK FALSE
