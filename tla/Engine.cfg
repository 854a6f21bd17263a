SPECIFICATION TurnSpec
CONSTANTS
    p = p
    q = q
    x = x
    y = y
    Engines <- AllEngines
    MaxResets = 1
    MaxOverloads = 1
    Hard = 1
    HardTools = 2
    Quiet = 0
    Drain = 1
    Grace = 0
    MaxEvents = 3
    MaxFaults = 1
    Project = {p, q}
    Account = {x, y}
    Unread = Unread
    ProbeGap = 2
    DefaultCooldown = 2
    MaxCooldown = 3
    MaxReset = 3
    LoginThread = {p, q}
    MaxLogins = 3
INVARIANTS
    AllSaid
    ProcessBounded
    TurnedAwayFairly
    LoginInHand
CHECK_DEADLOCK FALSE
