SPECIFICATION Spec
CONSTANTS
    h1 = h1
    h2 = h2
    c1 = c1
    c2 = c2
    q1 = q1
    q2 = q2
    NoHost = NoHost
    Host <- TwoHosts
    Probeable <- TwoHosts
    Container <- OneContainer
    Request <- NoRequests
    Skew <- NoSkew
    Window = 20
    MaxNow = 60
    MaxFaults = 0
    MaxFlips = 3
    MaxAllows = 2
INVARIANTS
    AuditsAreSingleUse
    AllowCoversOneRemoval
    StatusIsExplained
PROPERTIES
    RemovedAfterThreeFailures
