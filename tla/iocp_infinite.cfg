\* io_poll_timeout_ms is u32::MAX.
CONSTANTS
    Sock = {s1}
    Num = {1}
    Reuse = FALSE
    PostFails = FALSE
    IoPollTimeout = 5000
    U32Max = 5000
    U64Max = 9000
    Byte = 4
    Peers <- NoPeers
    RegFlags <- Streams
    ModFlags <- NoFlags
    MayPend = FALSE
    MaxSend = 0
    Prefill = 0
    MaxOps = 1
SPECIFICATION Spec
INVARIANTS SelectTimesOut
