SPECIFICATION FairSpec
CONSTANTS
    b = b
    c = c
    Batch = {b, c}
    Schedule <- Schedules
    None = None
    Sweeper = {v, w}
    Outcome = {"success"}
    v = v
    w = w
    MaxConcurrent = 2
    PerDay = 2
    Last = 2
    GiveUp = 1
    MaxRuns = 2
    MaxLives = 2
    MaxMishaps = 1
INVARIANTS
    RunsRecorded
    PushedMeansShown
PROPERTIES
    PendingPosted
CHECK_DEADLOCK FALSE
