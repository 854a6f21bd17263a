SPECIFICATION MacSpec
CONSTANTS
    h1 = h1
    h2 = h2
    a1 = a1
    a2 = a2
    p = p
    q = q
    r = r
    Msgs <- MCMsgs
    Projects <- MCProjects
    ProjectOf <- MCProjectOf
    AutoMsgs <- MCAutoMsgs
    MaxWorkersCfg = 2
    ReserveCfg = 5
    blog = blog
    shop = shop
    i = i
    j = j
    Site = {blog, shop}
    NextSite = {blog}
    Command = {i, j}
    Port = {1, 2}
    Instance = {1, 2, 3}
    Before <- PublishedBefore
    MaxCommands = 2
    MaxKilled = 1
    MaxRefused = 1
    NoEntry = NoEntry
    Emptied = Emptied
INVARIANTS
    OldServersGone
    RegistryTrue
PROPERTIES
    AcceptedRuns
    ImplementsPromise
    SiteComesUp
CHECK_DEADLOCK FALSE
