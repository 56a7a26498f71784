SPECIFICATION ConfigSpec
CONSTANTS
    a = a
    b = b
    n1 = n1
    n2 = n2
    nil = nil
    Threads <- TwoThreads
    Names <- TwoNames
    Configs <- AllConfigs
    TargetFactory = "ok"
    FormatterFactory = "error"
    DefaultMaxQueueSize = 3
    MaxCalls = 3
    ConfigFaults = {"initError", "closeError"}
SYMMETRY ThreadSymmetry
INVARIANTS
    ConfigTypeOK
    NoOrphan
    OldTargetsClosed
    ListedAreOpen
    SuccessIsComplete
    OnlyLateTargetsLeft
CHECK_DEADLOCK FALSE
