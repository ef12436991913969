SPECIFICATION FairSpec
CONSTANTS
    r1 = r1
    r2 = r2
    c1 = c1
    c2 = c2
    Target = oldworker
    NoHost = NoHost
    Host <- OneHost
    Probeable <- OneHost
    Container <- OneContainer
    Order <- TwoRuns
    Skew <- NoSkew
    Window = 20
    MaxNow = 0
    MaxFaults = 1
    TickSeconds = 3
    MaxListenErrors = 1
    MinSleep = 5
    MaxSleep = 6
    ProbeTicks = 1
    Spare = 1
INVARIANTS
    TypeOK
PROPERTIES
    KnockIsNoticed
    ApprovedIsNotDrift
    FiledAsAnnouncedAlone
    DemoLeavesNoTrace
