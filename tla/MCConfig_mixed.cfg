SPECIFICATION ConfigSpec
CONSTANTS
    a = a
    b = b
    n1 = n1
    n2 = n2
    nil = nil
    Threads <- TwoThreads
    Names <- TwoNames
    Configs <- GoodConfigs
    TargetFactory = "ok"
    FormatterFactory = "error"
    DefaultMaxQueueSize = 3
    MaxCalls = 2
    ConfigFaults = {}
INVARIANTS
    Replaces
CHECK_DEADLOCK FALSE
