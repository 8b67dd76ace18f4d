SPECIFICATION FairSpec
CONSTANTS
    MaxRows = 5
    MaxReminders = 1
    MaxFaults = 1
INVARIANTS
    SentOnce
    CurrentKept
    ControlsAnswer
PROPERTIES
    Settles
