SPECIFICATION TcpSpec
CONSTANTS
    d1 = d1
    d2 = d2
    d3 = d3
    nil = nil
    Dials <- TwoDials
    TLS = FALSE
    RetryBackoffMillis = 2
    MaxRetryBackoffMillis = 4
    MaxWrites = 1
    MaxFailures = 1
    TcpFaults = {"peerData"}
PROPERTIES
    MonitorClosesOnError
CHECK_DEADLOCK FALSE
