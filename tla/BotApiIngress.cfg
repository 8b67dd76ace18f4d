SPECIFICATION FairSpec
CONSTANTS
    Pollers = {p1, p2}
    NoPoller = NoPoller
    MaxUpdate = 3
    BatchSize = 3
    MaxCrashes = 2
    MaxTrouble = 2
    MaxOutages = 1
INVARIANTS AlertShownOnce LossAlerted
PROPERTIES OffsetWaits EventuallyHandled AlertsSettle
CHECK_DEADLOCK FALSE
