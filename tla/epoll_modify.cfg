\* The program changes the flags of a socket with modify_socket.
CONSTANTS
    Fd = {1}
    Sock = {s1}
    NoSock = NoSock
    Permits <- ModifyPermits
    RegFlags <- Readers
    MaxSend = 0
    MaxBatch = 1
SPECIFICATION Spec
SYMMETRY Socks
INVARIANTS RegisteredIsWatched
