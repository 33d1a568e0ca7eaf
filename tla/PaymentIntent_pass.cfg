SPECIFICATION Spec
CONSTANTS
    i1 = i1
    i2 = i2
    c1 = c1
    c2 = c2
    Intents <- MCIntents
    Callers <- MCCallers
    MaxSent = 3
SYMMETRY Interchangeable
INVARIANTS SentWasSigned RecordedIsOurs
PROPERTIES ForwardOnly
CHECK_DEADLOCK FALSE
