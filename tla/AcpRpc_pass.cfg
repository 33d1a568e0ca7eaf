SPECIFICATION FairRpc
CONSTANTS
    MaxIds = 4
    MaxUpdates = 1
    MaxGarbled = 1
CHECK_DEADLOCK FALSE
INVARIANTS UpdatesCollected AnswerIsOwn
PROPERTIES ParkedEnd
