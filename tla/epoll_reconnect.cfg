\* An end callback opens the next connection.
CONSTANTS
    Fd = {1}
    Sock = {s1, s2}
    NoSock = NoSock
    Permits <- ReconnectPermits
    RegFlags <- Servers
    MaxSend = 0
    MaxBatch = 1
SPECIFICATION Spec
SYMMETRY Socks
INVARIANTS RegisteredIsWatched
