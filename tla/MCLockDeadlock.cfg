SPECIFICATION Spec
CONSTANTS
    Client = {c1, c2}
    Resource = {r1, r2}
    Request = {q1, q2, q3, q4}
    MaxBacklog = 1
SYMMETRY Symmetry
INVARIANTS
    DeadlockIsCycle
