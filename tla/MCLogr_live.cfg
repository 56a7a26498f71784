SPECIFICATION MCFairSpec
CONSTANTS
    a = a
    b = b
    h1 = h1
    h2 = h2
    Debug = Debug
    Info = Info
    nil = nil
    readLoop = readLoop
    ACalls = {"log", "flush", "shutdown", "remove"}
    BCalls = {"log", "flush", "shutdown", "remove"}
    MaxRecords = 2
    MaxFlushes = 2
    Threads <- TwoThreads
    Hosts <- OneHost
    Feeders <- Loop
    Levels <- OneLevel
    Filter <- Filters
    Stamps <- Numbers
    InitialHosts <- StartWithH1
    MaxQueueSize = 1
    MaxTargetQueue <- OneEach
    OnQueueFull = {"block"}
    OnTargetQueueFull = {"block"}
    Faults = {}
PROPERTIES
    CallsReturn
CHECK_DEADLOCK FALSE
