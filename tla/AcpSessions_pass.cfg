SPECIFICATION Spec
CONSTANTS
    r1 = r1
    r2 = r2
    l1 = l1
    Requests <- MCRequests
    Labels <- MCLabels
    None = None
    ClientsLeave = TRUE
    MaxSessions = 2
    MaxAgents = 2
    MaxDeaths = 1
    MaxAsks = 1
SYMMETRY Symmetric
CHECK_DEADLOCK FALSE
INVARIANTS LiveAgentsOwned NoStuckBusy TurnOnRegistered
 
