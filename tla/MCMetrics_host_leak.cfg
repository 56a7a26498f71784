SPECIFICATION MetricsFairSpec
CONSTANTS
    a = a
    b = b
    m1 = m1
    m2 = m2
    m3 = m3
    h1 = h1
    nil = nil
    Threads <- TwoThreads
    Structs <- OneStruct
    first = m1
    Collectors <- Complete
    Resets = FALSE
    Hosts <- OneHost
PROPERTIES
    HostUpdatersEnd
CHECK_DEADLOCK FALSE
