\* A pending send is neither drained nor marked.
CONSTANTS
    Sock = {s1}
    Num = {1}
    Reuse = FALSE
    PostFails = FALSE
    IoPollTimeout = 1
    U32Max = 5000
    U64Max = 9000
    Byte = 4
    Peers <- NoPeers
    RegFlags <- Streams
    ModFlags <- NoFlags
    MayPend = TRUE
    MaxSend = 1
    Prefill = 0
    MaxOps = 1
SPECIFICATION Spec
INVARIANTS NothingSentTwice
