SPECIFICATION Spec
CONSTANTS
    h1 = h1
    h2 = h2
    c1 = c1
    c2 = c2
    q1 = q1
    q2 = q2
    NoHost = NoHost
    Host <- OneHost
    Probeable <- OneHost
    Container <- OneContainer
    Request <- TwoRequests
    Skew <- NoSkew
    Window = 20
    MaxNow = 0
    MaxFaults = 1
    MaxFlips = 3
    MaxAllows = 1
SYMMETRY
    AnyOrder
VIEW
    NoStreak
INVARIANTS
    RemovalLoggedOnce
    AllowSpentOnceEach
