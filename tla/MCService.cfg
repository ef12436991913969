SPECIFICATION FairSpec
CONSTANTS
    c1 = c1
    c2 = c2
    a1 = a1
    a2 = a2
    w1 = w1
    p1 = p1
    p2 = p2
    h1 = h1
    h2 = h2
    decision = decision
    drift = drift
    NoSession = NoSession
    DeadSession = DeadSession
    Container <- TwoContainers
    Appender <- TwoAppenders
    Reader <- OneReader
    Policy <- OnePolicy
    Seed <- TwoHosts
    Kind <- TwoKinds
    Kinds <- DriftList
    PoolSize = 1
    Limit = 1
    MaxFaults = 1
    MaxEdits = 1
CHECK_DEADLOCK FALSE
INVARIANTS
    TypeOK
    ServesCompleteSchema
    PageFitsTotal
    WalkSkipsNothing
PROPERTIES
    EditsSurvive
    InitsDoNotCollide
    EveryContainerServes
    EveryRequestAnswered
