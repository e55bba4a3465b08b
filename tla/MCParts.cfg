SPECIFICATION Spec
CONSTANTS
    Key = {k1, k2, k3}
    Capacity = 2
    MaxCount = 3
    m1 = m1
    m2 = m2
    m3 = m3
    Member = {m1, m2, m3}
    Size = 8
    Points <- ThreeMembers
    NoMember = NoMember
    Peer = {p1, p2}
    Watched = {p1, a2}
    MaxCrashes = 2
    MaxFlying = 2
    Client = {c1, c2}
    Resource = {r1}
    Request = {q1, q2}
    MaxBacklog = 1
INVARIANTS
    Findable
    NearestMember
    ToldIsKnown
PROPERTIES
    PutIsLFU
    MinimalMovement
    CrashIsReported
    MistakeIsCorrected
    AcquireReturns
