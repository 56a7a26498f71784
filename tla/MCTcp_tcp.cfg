SPECIFICATION TcpFairSpec
CONSTANTS
    d1 = d1
    d2 = d2
    d3 = d3
    nil = nil
    Dials <- TwoDials
    TLS = TRUE
    RetryBackoffMillis = 2
    MaxRetryBackoffMillis = 4
    MaxWrites = 2
    MaxFailures = 1
    TcpFaults = {"dialError", "handshakeError", "handshakeHang", "writeError", "peerClose", "serverDown", "peerData", "ctxTimeout"}
INVARIANTS
    TcpTypeOK
    NoDoubleClose
    ConnectionsOwned
PROPERTIES
    WriteEnds
    TcpShutdownEnds
    WriterReleased
CHECK_DEADLOCK FALSE
