SPECIFICATION MCSpec
CONSTANTS
    a = a
    b = b
    h1 = h1
    h2 = h2
    Debug = Debug
    Info = Info
    nil = nil
    readLoop = readLoop
    ACalls = {"log", "flush"}
    BCalls = {"shutdown"}
    MaxRecords = 2
    MaxFlushes = 2
    Threads <- TwoThreads
    Hosts <- OneHost
    Feeders <- Loop
    Levels <- OneLevel
    Filter <- Filters
    Stamps <- Numbers
    InitialHosts <- StartWithH1
    MaxQueueSize = 0
    MaxTargetQueue <- OneEach
    OnQueueFull = {"drop", "block"}
    OnTargetQueueFull = {"drop", "block"}
    Faults = {"writeError", "writePanic", "handlerPanic", "targetTimeout", "ctxTimeout", "enqueueTimeout", "filterPanic"}
INVARIANTS
    LogrTypeOK
    LoggedCounted
PROPERTIES
    DeliverySpec
    HostSpec
CHECK_DEADLOCK FALSE
