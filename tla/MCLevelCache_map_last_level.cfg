SPECIFICATION CacheSpec
CONSTANTS
    t1 = t1
    t2 = t2
    t3 = t3
    h1 = h1
    h2 = h2
    nil = nil
    Threads <- TwoThreads
    Targets <- OneTarget
    LevelIDs = {0, 2}
    MaxLevelID = 2
    CacheKinds = {"syncMap"}
    Custom <- OnlyH1
    InitFilter <- Nothing
    Calls = {"check"}
INVARIANTS
    NoPanic
CHECK_DEADLOCK FALSE
