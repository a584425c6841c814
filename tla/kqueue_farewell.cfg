\* An end callback sends to another socket.
CONSTANTS
    Fd = {1, 2}
    Sock = {s1, s2, s3}
    NoSock = NoSock
    Permits <- FarewellPermits
    RegFlags <- Readers
    MaxSend = 1
    MaxBatch = 2
SPECIFICATION Spec
SYMMETRY Socks
CHECK_DEADLOCK FALSE
INVARIANTS PendingIsArmed
