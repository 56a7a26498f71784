SPECIFICATION ConfigSpec
CONSTANTS
    a = a
    b = b
    n1 = n1
    n2 = n2
    nil = nil
    Threads <- TwoThreads
    Names <- TwoNames
    Configs <- HalfConfigs
    TargetFactory = "ok"
    FormatterFactory = "error"
    DefaultMaxQueueSize = 3
    MaxCalls = 1
    ConfigFaults = {}
INVARIANTS
    AllOrNothing
CHECK_DEADLOCK FALSE
