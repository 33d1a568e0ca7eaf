SPECIFICATION FairSpec
CONSTANTS
    m1 = m1
    m2 = m2
    Msgs <- OneMsg
    Conv <- OneConversation
    Control <- NoControl
    MaxAttempts = 2
    AckMax = 3
    AckWait <- LongAckWait
    AckGiveUp = 4
    AppWait = 3
    Archive = 5
    Backoff <- LongBackoff
    Cap = 6
    Window = 2
    Limit = 1
    MaxQueue = 1
    MaxCopies = 1
INVARIANTS
    AckMeansStored
    WithinBudget
PROPERTIES
    GivenUpIsFinal
    AnswersAreKept
    Settles
    
