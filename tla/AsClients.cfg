SPECIFICATION Spec
CONSTANTS
    None = None
    c1 = c1
    c2 = c2
    c3 = c3
    Call <- MCCall
    Asks <- MCAsks
    Backends <- MCBackends
    Rvps <- MCBackends
    PoolSize <- MCPoolSize
    MaxWrites = 2
    MaxCrashes = 1
INVARIANTS
    GuardsMatchTasks
    AppliedAtMostOnce
    AcknowledgedIsSeen
PROPERTIES
    EveryCallEnds
