SPECIFICATION Spec
CONSTANTS
    r1 = r1
    r2 = r2
    r3 = r3
    r4 = r4
    c1 = c1
    c2 = c2
    Request <- FourRequests
    Container <- TwoContainers
    Limit = 2
    LastMinute = 1
SYMMETRY Symmetry
INVARIANTS
    TypeOK
    SharedLimit
    MemoryLimit
    RefusedOnlyOverLimit
