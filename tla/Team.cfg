SPECIFICATION PartSpec
CONSTANTS
    t = t
    a = a
    b = b
    Turns = {t}
    Members = {a, b}
    Lead = Lead
    Slots = 2
    Permits = 1
    MaxRounds = 1
    MaxLives = 2
    MaxStops = 1
    NoStop = NoStop
    Elsewhere = Elsewhere
    s1 = s1
    e1 = e1
    e2 = e2
    Summoned = {s1}
    Experts = {e1, e2}
    SummonRounds = 3
    MaxSummonFaults = 2
    MaxSummonStops = 1
    launchd = launchd
    hand = hand
    Procs = {launchd, hand}
    Service = launchd
    MaxStarts = 1
    MaxCommits = 1
    MaxFailures = 2
    MaxShellFaults = 3
    Nobody = Nobody
INVARIANTS
    RoundsTrue
    CancelHeeded
PROPERTIES
    TurnEnds
    SummonEnds
    UpdateServed
CHECK_DEADLOCK FALSE
