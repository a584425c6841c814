\* Every method from every callback; three sockets share two descriptors.
CONSTANTS
    Fd = {1, 2}
    Sock = {s1, s2, s3}
    NoSock = NoSock
    Permits <- AllPermits
    RegFlags <- Servers
    MaxSend = 1
    MaxBatch = 2
SPECIFICATION Spec
SYMMETRY Socks
INVARIANTS WatchedIsRegistered LiveGetsItsEvent
PROPERTIES ImplementsSocketService
