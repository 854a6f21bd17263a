SPECIFICATION PortalSpec
CONSTANTS
    u = u
    v = v
    FailThreshold = 2
    KickMax = 2
    KickWindow = 6
    OpenAfter = 5
    HalfOpenEvery = 3
    ChatAfter = 3
    ChatCooldown = 4
    ReportEvery = 5
    MayLose = TRUE
    Chunks = 3
    MaxAttempts = 2
    MaxFaults = 2
    NoFile = NoFile
    Torn = Torn
    Roster <- TwoUsers
    MaxTries = 2
    DueRounds = 2
    Steady = {v}
INVARIANTS
    MeetingKept
    PressHeard
PROPERTIES
    HealedOrTold
    MinutesInTheEnd
    BannerSettles
CHECK_DEADLOCK FALSE
