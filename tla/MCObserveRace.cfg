SPECIFICATION Spec
CONSTANTS
    h1 = h1
    h2 = h2
    c1 = c1
    c2 = c2
    q1 = q1
    q2 = q2
    NoHost = NoHost
    Host <- OneHost
    Probeable <- OneHost
    Container <- TwoContainers
    Request <- NoRequests
    Skew <- NoSkew
    Window = 20
    MaxNow = 0
    MaxFaults = 0
    MaxFlips = 3
    MaxAllows = 1
INVARIANTS
    AuditsAreSingleUse
