\* modify_socket posts a read next to the one in flight.
CONSTANTS
    Sock = {s1}
    Num = {1}
    Reuse = FALSE
    PostFails = FALSE
    IoPollTimeout = 1
    U32Max = 5000
    U64Max = 9000
    Byte = 4
    Peers <- NoPeers
    RegFlags <- Streams
    ModFlags <- Changes
    MayPend = FALSE
    MaxSend = 0
    Prefill = 0
    MaxOps = 3
SPECIFICATION Spec
INVARIANTS OneRead
