\* Three nodes with a majority quorum: a vote is forgotten within its term.
SPECIFICATION Spec
CONSTANTS
    n1 = n1
    n2 = n2
    n3 = n3
    Node = {n1, n2, n3}
    None = None
    Peers <- OtherNodes
    MaxTerm = 3
    MaxLog = 2
    MaxCommand = 0
    MaxInFlight = 1
    MaxCrashes = 0
SYMMETRY Symmetry
INVARIANTS
    ElectionSafety
CHECK_DEADLOCK FALSE
