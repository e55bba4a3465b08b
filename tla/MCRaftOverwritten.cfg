\* Three nodes with a majority quorum: a deposed leader leads again while its clients wait.
SPECIFICATION DivergedSpec
CONSTANTS
    n1 = n1
    n2 = n2
    n3 = n3
    Node = {n1, n2, n3}
    None = None
    Peers <- OtherNodes
    MaxTerm = 3
    MaxLog = 3
    MaxCommand = 0
    MaxInFlight = 1
    MaxCrashes = 0
PROPERTIES
    ResolvedIsOwnEntry
CHECK_DEADLOCK FALSE
