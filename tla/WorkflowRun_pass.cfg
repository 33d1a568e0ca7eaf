SPECIFICATION FairSpec
CONSTANTS
    s1 = s1
    s2 = s2
    s3 = s3
    h1 = h1
    h2 = h2
    Steps <- MCSteps
    Missing = Missing
    Handlers <- MCHandlers
    Cron = Cron
    NoGate = NoGate
    NoWorkflow = NoWorkflow
    Definitions <- MCDefinitions
    MaxRuns = 2
    MaxFirings = 1
    MaxEdits = 1
    MaxApprovals = 2
CHECK_DEADLOCK FALSE
INVARIANTS GateHolds OneEngine CronOnce 
 
