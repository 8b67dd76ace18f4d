SPECIFICATION Spec
CONSTANTS
    Channel = FALSE
    MaxRevision = 3
    Commands = {"enabled", "paused"}
    MaxCommands = 3
    MaxTargetEdits = 0
    MaxDecisions = 1
    Crashing = {"application"}
    MaxCrashes = 1
INVARIANTS
    LiveIsCurrent
    DeletionHonoured
PROPERTIES
    NeverGoesBack
    SuppressionStands
CHECK_DEADLOCK FALSE
