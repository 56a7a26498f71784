SPECIFICATION MCSpec
CONSTANTS
    a = a
    b = b
    h1 = h1
    h2 = h2
    Debug = Debug
    Info = Info
    nil = nil
    readLoop = readLoop
    ACalls = {"shutdown"}
    BCalls = {"log"}
    MaxRecords = 1
    MaxFlushes = 1
    Threads <- TwoThreads
    Hosts <- OneHost
    Feeders <- Loop
    Levels <- OneLevel
    Filter <- Filters
    Stamps <- Numbers
    InitialHosts <- StartWithH1
    MaxQueueSize = 1
    MaxTargetQueue <- OneEach
    OnQueueFull = {"block"}
    OnTargetQueueFull = {"block"}
    Faults = {}
PROPERTIES
    NothingEnqueuedAfterShutdown
CHECK_DEADLOCK FALSE
