\* A listener is unregistered.
CONSTANTS
    Sock = {s1}
    Num = {1}
    Reuse = FALSE
    PostFails = FALSE
    IoPollTimeout = 1
    U32Max = 5000
    U64Max = 9000
    Byte = 4
    Peers <- NoPeers
    RegFlags <- Listeners
    ModFlags <- NoFlags
    MayPend = FALSE
    MaxSend = 0
    Prefill = 0
    MaxOps = 1
SPECIFICATION Spec
INVARIANTS NeverPanics
