\* PostQueuedCompletionStatus fails in unregister_socket, after the socket has
\* been closed.
CONSTANTS
    Sock = {s1}
    Num = {1}
    Reuse = FALSE
    PostFails = TRUE
    IoPollTimeout = 1
    U32Max = 5000
    U64Max = 9000
    Byte = 4
    Peers <- NoPeers
    RegFlags <- Streams
    ModFlags <- NoFlags
    MayPend = FALSE
    MaxSend = 0
    Prefill = 0
    MaxOps = 1
SPECIFICATION LiveSpec
PROPERTIES UnregisterEnds
