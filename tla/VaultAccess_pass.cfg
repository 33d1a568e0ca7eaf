SPECIFICATION Spec
CONSTANTS
    p1 = p1
    p2 = p2
    k1 = k1
    a1 = a1
    get = get
    set = set
    Anyone = Anyone
    NoAcl = NoAcl
    Processes <- MCProcesses
    Keys <- MCKeys
    Agents <- MCAgents
    Actions <- MCActions
    Entries <- MCEntries
    InitialAcls <- MCInitialAcls
    MaxCalls = 3
    MaxEdits = 1
SYMMETRY Interchangeable
INVARIANTS ApprovalBacksAccess ApprovalUsesBounded LimitNearlyKept
PROPERTIES DecisionsStay
CHECK_DEADLOCK FALSE
