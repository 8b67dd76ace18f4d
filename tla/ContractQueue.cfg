SPECIFICATION FairSpec
CONSTANTS
    Messages <- PairMessages
    NoMessage = NoMessage
    Workers = {w1, w2}
    Consumed <- PairConsumed
    Emitting <- PairEmitting
    Answered <- PairAnswered
    Malformed <- PairMalformed
    Conditional <- PairConditional
    Newer <- PairNewer
    MaxCrashes = 1
PROPERTIES HandoffSpec OneAnswerUnderLease EventuallySettled
CHECK_DEADLOCK FALSE
