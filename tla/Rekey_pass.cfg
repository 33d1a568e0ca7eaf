SPECIFICATION Spec
CONSTANTS
    k1 = k1
    e1 = e1
    e2 = e2
    p1 = p1
    p2 = p2
    p3 = p3
    mcp = mcp
    gui = gui
    cli = cli
    Absent = Absent
    Torn = Torn
    Daemon = Daemon
    Keyfiles <- MCKeyfiles
    Entries <- MCEntries
    Passwords <- MCPasswords
    Clients <- MCClients
    GuiCalls <- MCGuiCalls
    CliCalls <- MCCliCalls
    Keys0 <- MCKeys0
    MaxWrites = 1
SYMMETRY Interchangeable
INVARIANTS SuccessMeansNew NothingLost
