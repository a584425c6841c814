\* Every method but modify_socket, re-entrant; three sockets share two
\* descriptors.  No symmetry, which liveness does not allow.
CONSTANTS
    Fd = {1, 2}
    Sock = {s1, s2, s3}
    NoSock = NoSock
    Permits <- AnyPermits
    RegFlags <- Mixed
    MaxSend = 2
    MaxBatch = 2
SPECIFICATION LiveSpec
INVARIANTS TypeOK RegisteredIsWatched PendingIsArmed
PROPERTIES PendingFlushed
