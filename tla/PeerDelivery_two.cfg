SPECIFICATION Spec
CONSTANTS
    m1 = m1
    m2 = m2
    Msgs <- TwoMsgs
    Conv <- OneConversation
    Control <- ControlM2
    MaxAttempts = 1
    AckMax = 1
    AckWait <- ShortAckWait
    AckGiveUp = 0
    AppWait = 0
    Archive = 0
    Backoff <- ShortBackoff
    Cap = 1
    Window = 0
    Limit = 1
    MaxQueue = 1
    MaxCopies = 1


    
PROPERTIES
    KeepsPromise
