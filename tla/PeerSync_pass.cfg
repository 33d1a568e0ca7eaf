SPECIFICATION FairSpec
CONSTANTS
    m1 = m1
    m2 = m2
    m3 = m3
    a1 = a1
    Unknown = Unknown
    NoRow = NoRow
    Machines <- MCMachines
    Agents <- MCAgents
    Home <- MCHome
    Bootstrap <- MCBootstrap
    PublicUrl <- MCMachines
    HintLess = {}
    Registered <- MCAgents
    Names <- MCNames
    Named <- MCAgents
    Senders <- MCSenders
    MaxChanges = 2
 
PROPERTIES OwnRowsKept PullHeals Learns Forgets
