SPECIFICATION MetricsFairSpec
CONSTANTS
    a = a
    b = b
    m1 = m1
    m2 = m2
    m3 = m3
    h1 = h1
    nil = nil
    Threads <- TwoThreads
    Structs <- TwoStructs
    first = m1
    Collectors <- Failing
    Resets = TRUE
    Hosts <- OneHost
INVARIANTS
    MetricsTypeOK
    DoneClosedOnce
    DeathExplained
PROPERTIES
    KeepsPolling
    HostPolledWhileOpen
CHECK_DEADLOCK FALSE
