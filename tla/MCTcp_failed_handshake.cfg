SPECIFICATION TcpFairSpec
CONSTANTS
    d1 = d1
    d2 = d2
    d3 = d3
    nil = nil
    Dials <- TwoDials
    TLS = TRUE
    RetryBackoffMillis = 2
    MaxRetryBackoffMillis = 4
    MaxWrites = 1
    MaxFailures = 1
    TcpFaults = {"handshakeError"}
PROPERTIES
    ResourcesFreed
CHECK_DEADLOCK FALSE
