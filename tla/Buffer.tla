------------------------------- MODULE Buffer -------------------------------
(***************************************************************************)
(* The byte buffer of td_revent (struct Buffer of src/src/event_buffer.rs):*)
(* a vector with a read position and a write position.  One buffer of each *)
(* socket holds what was received until the program takes it, the other    *)
(* what send_socket was given until the kernel takes it.                   *)
(*                                                                         *)
(* Each action is one method call; the buffer belongs to one thread.       *)
(***************************************************************************)
EXTENDS Naturals, Sequences

CONSTANTS
    Byte,        \* the byte values that are written
    Zero,        \* the byte Vec::resize fills with
    MaxLen,      \* bound: the length of the vector
    MaxArg       \* bound: the length of an argument, and the largest count

ASSUME BoundAssumption == MaxLen \in Nat /\ MaxArg \in Nat
ASSUME ByteAssumption  == Zero \in Byte

VARIABLES
    val,       \* the vector
    rpos,      \* where read() goes on
    wpos,      \* where write() goes on
    got,       \* the bytes the last read() returned
    panicked,  \* a method panicked
    moved      \* history: set_rpos or set_wpos was called since the last clear()

vars == <<val, rpos, wpos, got, panicked, moved>>

TypeOK ==
    /\ val \in Seq(Byte)
    /\ rpos \in Nat
    /\ wpos \in Nat
    /\ got \in Seq(Byte)
    /\ panicked \in BOOLEAN
    /\ moved \in BOOLEAN

Init ==
    /\ val = <<>> /\ rpos = 0 /\ wpos = 0
    /\ got = <<>> /\ panicked = FALSE /\ moved = FALSE

-----------------------------------------------------------------------------
Least(m, n) == IF m <= n THEN m ELSE n
Most(m, n)  == IF m <= n THEN n ELSE m
Strings     == UNION {[1 .. n -> Byte] : n \in 0 .. MaxArg}

(* Definitions named ..._mut_... are wrong on purpose, each the way a slip in
   the code would be: the README lists the property that tells each from the
   definition after it.  No specification uses them. *)
(* The vector after write(data): longer if it has to be, and overwritten from
   wpos on. *)
Written(data) ==
    [i \in 1 .. Most(Len(val), wpos + Len(data)) |->
        IF i > wpos /\ i <= wpos + Len(data) THEN data[i - wpos]
        ELSE IF i <= Len(val) THEN val[i] ELSE Zero]

write_mut_at_start(data) ==
    /\ wpos + Len(data) <= MaxLen
    /\ val' = Written(data)
    /\ wpos' = Len(data)
    /\ UNCHANGED <<rpos, got, panicked, moved>>

write(data) ==
    /\ wpos + Len(data) <= MaxLen
    /\ val' = Written(data)
    /\ wpos' = wpos + Len(data)
    /\ UNCHANGED <<rpos, got, panicked, moved>>

(* read into a slice of n bytes.  A read position behind the end makes the
   subtraction underflow: a panic, at once or at the index. *)
read(n) ==
    IF rpos > Len(val)
    THEN panicked' = TRUE /\ UNCHANGED <<val, rpos, wpos, got, moved>>
    ELSE LET count == Least(Len(val) - rpos, n) IN
         /\ got' = SubSeq(val, rpos + 1, rpos + count)
         /\ rpos' = rpos + count
         /\ UNCHANGED <<val, wpos, panicked, moved>>

drain_mut_unbounded(n) ==
    /\ rpos' = rpos - n
    /\ wpos' = wpos - n
    /\ val' = SubSeq(val, Least(Len(val), n) + 1, Len(val))
    /\ UNCHANGED <<got, panicked, moved>>

drain_mut_keeps_rpos(n) ==
    /\ wpos' = wpos - Least(wpos, n)
    /\ val' = SubSeq(val, Least(Len(val), n) + 1, Len(val))
    /\ UNCHANGED <<rpos, got, panicked, moved>>

drain_mut_keeps_wpos(n) ==
    /\ rpos' = rpos - Least(rpos, n)
    /\ val' = SubSeq(val, Least(Len(val), n) + 1, Len(val))
    /\ UNCHANGED <<wpos, got, panicked, moved>>

(* drain and drain_collect. *)
drain(n) ==
    /\ rpos' = rpos - Least(rpos, n)
    /\ wpos' = wpos - Least(wpos, n)
    /\ val' = SubSeq(val, Least(Len(val), n) + 1, Len(val))
    /\ UNCHANGED <<got, panicked, moved>>

(* drain_all, drain_all_collect and clear. *)
clear ==
    /\ val' = <<>> /\ rpos' = 0 /\ wpos' = 0 /\ moved' = FALSE
    /\ UNCHANGED <<got, panicked>>

(* A program that sets the read position keeps it inside the data; the write
   position may leave a hole, which the next write fills with zeros. *)
set_rpos(pos) ==
    /\ pos <= Len(val)
    /\ rpos' = pos /\ moved' = TRUE
    /\ UNCHANGED <<val, wpos, got, panicked>>

set_wpos(pos) ==
    /\ wpos' = pos /\ moved' = TRUE
    /\ UNCHANGED <<val, rpos, got, panicked>>

-----------------------------------------------------------------------------
Next ==
    /\ ~panicked
    /\ \/ \E data \in Strings : write(data)
       \/ \E n \in 0 .. MaxArg : read(n) \/ drain(n)
       \/ clear
       \/ \E pos \in 0 .. MaxLen : set_rpos(pos) \/ set_wpos(pos)

Spec == Init /\ [][Next]_vars

-----------------------------------------------------------------------------
(* As long as the program sets no position, the write position is the end of
   the data: write_done, which sends the whole vector and drains what the
   kernel took, sends what was written and nothing else. *)
WriteAtEnd == ~moved => wpos = Len(val)

(* read() never starts behind the data, so that no subtraction underflows,
   whatever was drained between two reads. *)
ReadInside == rpos <= Len(val)

NeverPanics == ~panicked

(* The buffer is a queue, with the part of the vector behind the read position
   as the bytes still to come: refinement, in every step that leaves it with
   no position set by the program. *)
Unread == SubSeq(val, rpos + 1, Len(val))
Queue  == INSTANCE ByteQueue WITH unread <- Unread

ImplementsByteQueue == Queue!Init /\ [][moved' \/ Queue!Next]_<<Unread, got>>
=============================================================================
