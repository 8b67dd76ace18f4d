SPECIFICATION FairSpec
CONSTANTS
    Intents = {"game", "player", "coach"}
    Cities <- ThreeCities
    MaxSearches = 2
INVARIANTS SearchesAgree PresentationHasState
 
CHECK_DEADLOCK FALSE
