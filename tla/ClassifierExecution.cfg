SPECIFICATION FairSpec
CONSTANTS
    Commands = {1}
    Candidates = {a, b}
    NoCandidate = NoCandidate
    MaxAttempts = 2
    MaxCrashes = 1
INVARIANTS BudgetKept ProofsOfTheOutput
PROPERTIES EverySettled
CHECK_DEADLOCK FALSE
