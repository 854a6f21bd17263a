SPECIFICATION FairSpec
CONSTANTS
    c1 = c1
    c2 = c2
    d1 = d1
    chat = chat
    desk = desk
    owner = owner
    NoMsg = NoMsg
    Msgs = {c1, c2}
    Keys <- MCKeys
    KeyOf <- MCKeyOf
    Users = {owner}
    OwnerOf <- MCOwnerOf
    PriorityMsgs = {c2}
    TextlessMsgs = {c2}
    Workers = 2
    MaxFaults = 2
    MaxStops = 1
INVARIANTS
    MessagesKept
    OneProcess
PROPERTIES
    EventuallyTold
CHECK_DEADLOCK FALSE
