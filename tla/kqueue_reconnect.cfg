\* An end callback opens the next connection.
CONSTANTS
    Fd = {1, 2}
    Sock = {s1, s2, s3}
    NoSock = NoSock
    Permits <- ReconnectPermits
    RegFlags <- Readers
    MaxSend = 0
    MaxBatch = 2
SPECIFICATION Spec
SYMMETRY Socks
CHECK_DEADLOCK FALSE
INVARIANTS AskedIsWatched
