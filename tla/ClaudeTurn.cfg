SPECIFICATION FairSpec
CONSTANTS
    Turns = {t1, t2}
    Seats = {a, b}
    NoSeat = NoSeat
    NoStop = NoStop
    EveryTurn = EveryTurn
    Permits = 1
    MaxContextRetries = 1
    MaxOverloadRetries = 1
    MaxSpawns = 5
    MaxStops = 1
INVARIANTS
    PermitsExact
PROPERTIES
    WaitersServed
CHECK_DEADLOCK FALSE
