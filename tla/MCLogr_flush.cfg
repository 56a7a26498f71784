SPECIFICATION MCSpec
CONSTANTS
    a = a
    b = b
    h1 = h1
    h2 = h2
    Debug = Debug
    Info = Info
    nil = nil
    readLoop = readLoop
    ACalls = {"log", "flush", "shutdown"}
    BCalls = {"add", "remove"}
    MaxRecords = 2
    MaxFlushes = 2
    Threads <- TwoThreads
    Hosts <- TwoHosts
    Feeders <- Loop
    Levels <- TwoLevels
    Filter <- Filters
    Stamps <- Numbers
    InitialHosts <- StartWithH1
    MaxQueueSize = 1
    MaxTargetQueue <- OneAndNone
    OnQueueFull = {"block"}
    OnTargetQueueFull = {"block"}
    Faults = {"initError"}
INVARIANTS
    FedHostAlive
    FlushDelivers
PROPERTIES
    ShutdownCloses
CHECK_DEADLOCK FALSE
