SPECIFICATION FairSpec
CONSTANTS
    n = n
    live = live
    p = p
    NoMsg = NoMsg
    Projects = {p}
    ProjectOf <- MCProjectOf
    Lanes = 1
    LiveLanes = 1
    Msgs = {n, live}
    LiveMsgs = {live}
    EmptyMsgs = {n}
    Chunks = 2
    MaxJobs = 2
    MaxFaults = 1
PROPERTIES
    KeepsCustody
    EachServed
CHECK_DEADLOCK FALSE
