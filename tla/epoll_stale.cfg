\* A callback ends another socket and opens a new one, which takes the descriptor of an event still in the batch.
CONSTANTS
    Fd = {1, 2}
    Sock = {s1, s2, s3}
    NoSock = NoSock
    Permits <- ReplacePermits
    RegFlags <- Servers
    MaxSend = 0
    MaxBatch = 2
SPECIFICATION Spec
SYMMETRY Socks
INVARIANTS DispatchIsCurrent
