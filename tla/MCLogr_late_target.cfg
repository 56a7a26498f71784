SPECIFICATION MCSpec
CONSTANTS
    a = a
    b = b
    h1 = h1
    h2 = h2
    Debug = Debug
    Info = Info
    nil = nil
    readLoop = readLoop
    ACalls = {"shutdown"}
    BCalls = {"add"}
    MaxRecords = 0
    MaxFlushes = 1
    Threads <- TwoThreads
    Hosts <- TwoHosts
    Feeders <- Loop
    Levels <- OneLevel
    Filter <- Filters
    Stamps <- Numbers
    InitialHosts <- StartWithH1
    MaxQueueSize = 1
    MaxTargetQueue <- OneEach
    OnQueueFull = {"block"}
    OnTargetQueueFull = {"block"}
    Faults = {}
PROPERTIES
    NoTargetAddedAfterShutdown
CHECK_DEADLOCK FALSE
