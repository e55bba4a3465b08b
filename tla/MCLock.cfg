SPECIFICATION Spec
CONSTANTS
    Client = {c1, c2}
    Resource = {r1}
    Request = {q1, q2, q3}
    MaxBacklog = 1
SYMMETRY Symmetry
CONSTRAINTS
    OneElsewhere
    OneTask
INVARIANTS
    TypeOK
    MutualExclusion
    ClientLocksAgree
    EdgesPointAtHolders
    WaitingIsQueued
    QueuedOnce
PROPERTIES
    KeepsPromise
    LogOnlyCommits
