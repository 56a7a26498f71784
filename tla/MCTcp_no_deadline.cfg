SPECIFICATION TcpFairSpec
CONSTANTS
    d1 = d1
    d2 = d2
    d3 = d3
    nil = nil
    Dials <- TwoDials
    TLS = FALSE
    RetryBackoffMillis = 2
    MaxRetryBackoffMillis = 4
    MaxWrites = 1
    MaxFailures = 0
    TcpFaults = {"serverDown"}
PROPERTIES
    ShutdownStopsWrite
CHECK_DEADLOCK FALSE
