SPECIFICATION Spec
CONSTANTS
    Node = {n1, n2}
    Key = {k1, k2}
    CallId = {w1, w2, w3}
    NoValue = NoValue
    Peers <- AllNodes
    Capacity = 1
    IdsAreAddresses = FALSE
    CallsFail = FALSE
SYMMETRY Symmetry
PROPERTIES
    WriteTakesEffect
CHECK_DEADLOCK FALSE
