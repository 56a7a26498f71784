SPECIFICATION CacheSpec
CONSTANTS
    t1 = t1
    t2 = t2
    t3 = t3
    h1 = h1
    h2 = h2
    nil = nil
    Threads <- TwoThreads
    Targets <- TwoTargets
    LevelIDs = {0, 1, 2}
    MaxLevelID = 1
    CacheKinds = {"array", "syncMap"}
    Custom <- OnlyH2
    InitFilter <- Filters
    Calls = {"check", "add", "remove", "shutdown", "reset", "filterAdd", "filterReset"}
SYMMETRY ThreadSymmetry
INVARIANTS
    CacheTypeOK
    Coherent
    FreshAnswer
    NoFalseEnable
    OnlyLastPanics
CHECK_DEADLOCK FALSE
