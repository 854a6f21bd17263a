SPECIFICATION SessionsSpec
CONSTANTS
    p = p
    m = m
    Key = {p, m}
    TeamKey = {m}
    Hygiene = Hygiene
    Main = Main
    Checker = Checker
    None = None
    Empty = Empty
    Mixed = Mixed
    NoFile = NoFile
    Left <- EarlierSessions
    Stale = 1
    MaxMsgs = 2
    MaxFailures = 2
    PerCycle = 1
    MaxSids = 3
    MaxTurns = 1
    MaxRequested = 1
    MaxPreSaves = 1
    MaxMishaps = 2
INVARIANTS
    SessionsKept
PROPERTIES
    OversizedGoes
CHECK_DEADLOCK FALSE
