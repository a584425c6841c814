----------------------------- MODULE ByteQueue -----------------------------
(***************************************************************************)
(* What the users of a td_revent Buffer rely on, told without positions:   *)
(* bytes come out of read() in the order write() was given them, each      *)
(* once; the drains and clear() throw bytes away from the front only.      *)
(***************************************************************************)
EXTENDS Naturals, Sequences

CONSTANT Byte

VARIABLES
    unread,   \* bytes written that neither read() nor a drain has passed
    got       \* the bytes the last read() returned

Init == unread = <<>> /\ got = <<>>

Front(n) == SubSeq(unread, 1, n)
Rest(n)  == SubSeq(unread, n + 1, Len(unread))

Put ==
    /\ unread' \in Seq(Byte)
    /\ Len(unread') >= Len(unread)
    /\ SubSeq(unread', 1, Len(unread)) = unread
    /\ UNCHANGED got
Get == \E n \in 0 .. Len(unread) : got' = Front(n) /\ unread' = Rest(n)
Drop == \E n \in 0 .. Len(unread) : unread' = Rest(n) /\ UNCHANGED got

Next == Put \/ Get \/ Drop
Spec == Init /\ [][Next]_<<unread, got>>
=============================================================================
