\* A read callback unregisters its socket, opens another, and returns OVER: for
\* MCEpoll and for MCKqueue.
CONSTANTS
    Fd = {1}
    Sock = {s1, s2}
    NoSock = NoSock
    Permits <- OverPermits
    RegFlags <- Readers
    MaxSend = 0
    MaxBatch = 1
SPECIFICATION Spec
SYMMETRY Socks
PROPERTIES ImplementsSocketService
CHECK_DEADLOCK FALSE
