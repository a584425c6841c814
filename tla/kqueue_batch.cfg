\* Two listeners become ready in one poll; the first accepts a connection.
CONSTANTS
    Fd = {1, 2}
    Sock = {s1, s2, s3}
    NoSock = NoSock
    Permits <- AcceptPermits
    RegFlags <- Servers
    MaxSend = 0
    MaxBatch = 2
SPECIFICATION Spec
SYMMETRY Socks
CHECK_DEADLOCK FALSE
INVARIANTS NeverPanics
