\* Two nodes, each may restart once; what returns and catches up without help of the network.
SPECIFICATION FairSpec
CONSTANTS
    n1 = n1
    n2 = n2
    n3 = n3
    Node = {n1, n2}
    None = None
    Peers <- OtherNodes
    MaxTerm = 2
    MaxLog = 2
    MaxCommand = 2
    MaxInFlight = 1
    MaxCrashes = 1
INVARIANTS
    ElectionInvariant
PROPERTIES
    ProposalsReturn
    LeaderHeartbeats
    CommittedIsApplied
CHECK_DEADLOCK FALSE
