SPECIFICATION Spec
CONSTANTS
    operator = operator
    Processes <- MCProcesses
    MaxRows = 6
    MaxCheckpoints = 3
INVARIANTS ChainIsTheLog CheckpointSignsItsRows
PROPERTIES ChainIsAppendOnly
CHECK_DEADLOCK FALSE
