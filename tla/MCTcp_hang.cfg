SPECIFICATION TcpFairSpec
CONSTANTS
    d1 = d1
    d2 = d2
    d3 = d3
    nil = nil
    Dials <- TwoDials
    TLS = TRUE
    RetryBackoffMillis = 2
    MaxRetryBackoffMillis = 4
    MaxWrites = 1
    MaxFailures = 0
    TcpFaults = {"handshakeHang", "ctxTimeout"}
PROPERTIES
    ShutdownStopsDial
CHECK_DEADLOCK FALSE
