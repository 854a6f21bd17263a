SPECIFICATION AroundSpec
CONSTANTS
    t = t
    b = b
    h = h
    k = k
    Turns = {t}
    Batches = {b}
    Handoffs = {h}
    Keepers = {k}
    Nobody = Nobody
    MaxFailures = 1
    Interval = 3
    ForceEvery = 2
    MaxRuns = 2
    PendingTtl = 2
    NightLength = 2
    MaxLate = 4
    MaxWaiting = 2
    MaxEvents = 2
INVARIANTS
    ContainerServes
    WokenSparingly
PROPERTIES
    ServicesKept
    WorkComesUp
CHECK_DEADLOCK FALSE
