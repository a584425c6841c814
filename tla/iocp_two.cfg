\* Two sockets that have the same number, one after the other.
CONSTANTS
    Sock = {s1, s2}
    Num = {1}
    Reuse = FALSE
    PostFails = FALSE
    IoPollTimeout = 1
    U32Max = 5000
    U64Max = 9000
    Byte = 4
    Peers <- TwoPeers
    RegFlags <- Both
    ModFlags <- Changes
    MayPend = TRUE
    MaxSend = 2
    Prefill = 0
    MaxOps = 1
SPECIFICATION LiveSpec
INVARIANTS TypeOK OneReadUntilModified SentOnceUntilPending AcceptedPeer ReadArmed WriteProgress DroppedIsQuiet
PROPERTIES UnregisterEnds ImplementsSocketService
CHECK_DEADLOCK FALSE
