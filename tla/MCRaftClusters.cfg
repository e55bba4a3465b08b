\* Two nodes that exclude themselves and three that list themselves (MCRaftClusters.tla).
SPECIFICATION Spec
CONSTANTS
    n1 = n1
    n2 = n2
    n3 = n3
    None = None
SYMMETRY Symmetry
INVARIANTS
    TypeOK
    ElectionSafety
    VotersFollow
    StateMachineSafety
    LeaderCompleteness
PROPERTIES
    ProvidesLog
    CommitNeedsMajority
CHECK_DEADLOCK FALSE
