SPECIFICATION FairSpec
CONSTANTS
    s1 = s1
    s2 = s2
    s3 = s3
    h1 = h1
    h2 = h2
    Steps <- OrderSteps
    Missing = Missing
    Handlers <- OneHandler
    Cron = Cron
    NoGate = NoGate
    NoWorkflow = NoWorkflow
    Definitions <- AnyDependencies
    MaxRuns = 1
    MaxFirings = 0
    MaxEdits = 0
    MaxApprovals = 0
CHECK_DEADLOCK FALSE
INVARIANTS OrderIsRight
 
