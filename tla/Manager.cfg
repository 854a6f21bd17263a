SPECIFICATION ManagerFairSpec
CONSTANTS
    d = d
    Tasks = {d}
    None = None
    MaxTurns = 3
    Checkpoint = 2
    ExecTurns = 2
    MaxStreak = 2
    MaxCommands = 1
    MaxLives = 2
    MaxRaises = 1
INVARIANTS
    TasksAccounted
PROPERTIES
    ManagerServes
CHECK_DEADLOCK FALSE
