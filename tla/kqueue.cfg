\* Every method, re-entrant, but sends and registrations from end callbacks;
\* three sockets share two descriptors.  The code stops where it panics.
CONSTANTS
    Fd = {1, 2}
    Sock = {s1, s2, s3}
    NoSock = NoSock
    Permits <- AnyPermits
    RegFlags <- Mixed
    MaxSend = 2
    MaxBatch = 2
SPECIFICATION Spec
SYMMETRY Socks
CHECK_DEADLOCK FALSE
INVARIANTS TypeOK AskedIsWatched PendingIsArmed WatchedIsRegistered DispatchIsCurrent
PROPERTIES ImplementsSocketService
