\* A stream is registered with data to send; its read is posted, its write fails.
CONSTANTS
    Sock = {s1}
    Num = {1}
    Reuse = FALSE
    PostFails = FALSE
    IoPollTimeout = 1
    U32Max = 5000
    U64Max = 9000
    Byte = 4
    Peers <- NoPeers
    RegFlags <- Duplex
    ModFlags <- NoFlags
    MayPend = FALSE
    MaxSend = 1
    Prefill = 1
    MaxOps = 1
SPECIFICATION Spec
INVARIANTS DroppedIsQuiet
