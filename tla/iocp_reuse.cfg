\* The number of a socket that was unregistered is handed out again while its
\* ENDED packet is still in the port.
CONSTANTS
    Sock = {s1, s2}
    Num = {1}
    Reuse = TRUE
    PostFails = FALSE
    IoPollTimeout = 1
    U32Max = 5000
    U64Max = 9000
    Byte = 4
    Peers <- NoPeers
    RegFlags <- Streams
    ModFlags <- NoFlags
    MayPend = FALSE
    MaxSend = 0
    Prefill = 0
    MaxOps = 1
SPECIFICATION Spec
INVARIANTS DroppedIsQuiet
