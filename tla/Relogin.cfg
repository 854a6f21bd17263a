SPECIFICATION ReloginFairSpec
CONSTANTS
    MaxAsks = 1
    MaxRequests = 1
    MaxFaults = 1
INVARIANTS
    OneWhileFresh
PROPERTIES
    SessionsServed
CHECK_DEADLOCK FALSE
