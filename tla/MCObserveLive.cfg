SPECIFICATION FairSpec
CONSTANTS
    h1 = h1
    h2 = h2
    c1 = c1
    c2 = c2
    q1 = q1
    q2 = q2
    NoHost = NoHost
    Host <- OneHost
    Probeable <- OneHost
    Container <- TwoContainers
    Request <- NoRequests
    Skew <- SecondAhead
    Window = 20
    MaxNow = 0
    MaxFaults = 1
    MaxFlips = 2
    MaxAllows = 1
INVARIANTS
    TypeOK
    RemovalLoggedOnce
PROPERTIES
    BackIsSeen
    DownIsFlagged
