SPECIFICATION MCHostFairSpec
CONSTANTS
    h1 = h1
    h2 = h2
    f1 = f1
    f2 = f2
    Debug = Debug
    Info = Info
    nil = nil
    MaxCalls = 4
    Hosts <- TwoHosts
    Feeders <- TwoFeeders
    Levels <- TwoLevels
    Filter <- InfoOnly
    MaxTargetQueue <- TwoAndNone
    OnTargetQueueFull <- DropOrBlock
    Faults <- AllFaults
    Stamps <- OneStamp
INVARIANTS
    HostTypeOK
    ClosedOnce
    FlushHandshake
    NothingVanishes
PROPERTIES
    SilentAfterClose
    ShutdownCompletes
CHECK_DEADLOCK FALSE
