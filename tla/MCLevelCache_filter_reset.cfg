SPECIFICATION CacheSpec
CONSTANTS
    t1 = t1
    t2 = t2
    t3 = t3
    h1 = h1
    h2 = h2
    nil = nil
    Threads <- TwoThreads
    Targets <- OneTarget
    LevelIDs = {0}
    MaxLevelID = 2
    CacheKinds = {"array"}
    Custom <- OnlyH1
    InitFilter <- Nothing
    Calls = {"check", "add", "filterReset"}
INVARIANTS
    AddEnables
CHECK_DEADLOCK FALSE
