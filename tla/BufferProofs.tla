---------------------------- MODULE BufferProofs ----------------------------
(***************************************************************************)
(* Theorems about Buffer, for every alphabet and every bound.              *)
(*                                                                         *)
(* IInv holds whatever positions the program sets; with it WriteAtEnd is   *)
(* inductive, and so every step that leaves no position set by the program *)
(* is a step of ByteQueue.                                                 *)
(***************************************************************************)
EXTENDS Buffer, SequenceTheorems, TLAPS

(* The inductive invariant: the types, and the fact that read() relies on. *)
IInv == TypeOK /\ ReadInside /\ NeverPanics

LEMMA StringsAreSequences == \A data \in Strings : data \in Seq(Byte)
  BY BoundAssumption, SMT DEF Strings

(* The part of a sequence behind its first m elements, up to the n-th. *)
LEMMA Cut ==
    ASSUME NEW S, NEW s \in Seq(S), NEW n \in 0 .. Len(s), NEW m \in 0 .. n
    PROVE  /\ SubSeq(s, m + 1, n) \in Seq(S)
           /\ Len(SubSeq(s, m + 1, n)) = n - m
           /\ \A i \in 1 .. n - m : SubSeq(s, m + 1, n)[i] = s[m + i]
  <1>1. SubSeq(s, m + 1, n) = [i \in 1 .. n - m |-> s[m + i]]
    BY SMT
  <1>2. \A i \in 1 .. n - m : s[m + i] \in S
    OBVIOUS
  <1> QED
    BY <1>1, <1>2

(* What write makes of the vector is a vector, as long as the old one at
   least. *)
LEMMA WrittenIsVector ==
    ASSUME TypeOK, NEW data \in Strings
    PROVE  /\ Written(data) \in Seq(Byte)
           /\ Len(Written(data)) = Most(Len(val), wpos + Len(data))
  <1> DEFINE n == Most(Len(val), wpos + Len(data))
  <1>1. data \in Seq(Byte)
    BY StringsAreSequences
  <1>2. n \in Nat
    BY <1>1 DEF TypeOK, Most
  <1>3. \A i \in 1 .. n : Written(data)[i] \in Byte
    BY <1>1, <1>2, ByteAssumption DEF Written, TypeOK, Most
  <1>4. Written(data) = [i \in 1 .. n |-> Written(data)[i]]
    BY DEF Written
  <1> QED
    BY <1>2, <1>3, <1>4 DEF Written

(* What drain leaves: the vector without its first elements, with positions
   that still point at the same bytes, or at the front. *)
LEMMA DrainShape ==
    ASSUME TypeOK, NEW n \in Nat, drain(n)
    PROVE  /\ val' \in Seq(Byte)
           /\ Len(val') = Len(val) - Least(Len(val), n)
           /\ \A i \in 1 .. Len(val') : val'[i] = val[Least(Len(val), n) + i]
           /\ rpos' = rpos - Least(rpos, n) /\ rpos' \in Nat
           /\ wpos' = wpos - Least(wpos, n) /\ wpos' \in Nat
           /\ got' = got /\ panicked' = panicked /\ moved' = moved
  <1> DEFINE m == Least(Len(val), n)
  <1>1. Len(val) \in 0 .. Len(val) /\ m \in 0 .. Len(val)
    BY DEF TypeOK, Least
  <1>2. val' = SubSeq(val, m + 1, Len(val))
    BY DEF drain
  <1>3. /\ val' \in Seq(Byte)
        /\ Len(val') = Len(val) - m
        /\ \A i \in 1 .. Len(val) - m : val'[i] = val[m + i]
    BY <1>1, <1>2, Cut, Zenon DEF TypeOK
  <1>4. /\ rpos' = rpos - Least(rpos, n) /\ rpos' \in Nat
        /\ wpos' = wpos - Least(wpos, n) /\ wpos' \in Nat
    BY DEF TypeOK, Least, drain
  <1> QED
    BY <1>3, <1>4 DEF drain

(* A read inside the data returns the bytes it passes, and does not panic. *)
LEMMA ReadShape ==
    ASSUME TypeOK, ReadInside, NEW n \in Nat, read(n)
    PROVE  \E count \in 0 .. Len(val) - rpos :
              /\ got' = SubSeq(val, rpos + 1, rpos + count) /\ got' \in Seq(Byte)
              /\ rpos' = rpos + count
              /\ val' = val /\ wpos' = wpos /\ panicked' = panicked /\ moved' = moved
  <1> DEFINE count == Least(Len(val) - rpos, n)
  <1>1. ~ (rpos > Len(val))
    BY DEF TypeOK, ReadInside
  <1>2. /\ got' = SubSeq(val, rpos + 1, rpos + count)
        /\ rpos' = rpos + count
        /\ val' = val /\ wpos' = wpos /\ panicked' = panicked /\ moved' = moved
    BY <1>1, Zenon DEF read
  <1>3. /\ count \in 0 .. Len(val) - rpos
        /\ rpos + count \in 0 .. Len(val) /\ rpos \in 0 .. rpos + count
    BY DEF TypeOK, ReadInside, Least
  <1>4. got' \in Seq(Byte)
    BY <1>2, <1>3, Cut, Zenon DEF TypeOK
  <1> QED
    BY <1>2, <1>3, <1>4

(* A call of any method keeps the invariant. *)
LEMMA IInvStep == IInv /\ [Next]_vars => IInv'
  <1> SUFFICES ASSUME IInv, [Next]_vars PROVE IInv'
    OBVIOUS
  <1> USE DEF IInv, TypeOK, ReadInside, NeverPanics
  <1>1. ASSUME NEW data \in Strings, write(data) PROVE IInv'
    <2>1. /\ Written(data) \in Seq(Byte)
          /\ Len(Written(data)) = Most(Len(val), wpos + Len(data))
      BY WrittenIsVector
    <2>2. data \in Seq(Byte)
      BY StringsAreSequences
    <2>3. val' \in Seq(Byte) /\ wpos' \in Nat /\ Len(val') >= Len(val)
      BY <1>1, <2>1, <2>2 DEF write, Most
    <2>4. rpos' = rpos /\ got' = got /\ panicked' = panicked /\ moved' = moved
      BY <1>1 DEF write
    <2>5. rpos' \in Nat /\ rpos' <= Len(val')
      BY <2>3, <2>4
    <2> QED
      BY <2>3, <2>4, <2>5, Zenon
  <1>2. ASSUME NEW n \in 0 .. MaxArg, read(n) PROVE IInv'
    <2>1. n \in Nat
      BY BoundAssumption
    <2>2. PICK count \in 0 .. Len(val) - rpos :
              /\ got' = SubSeq(val, rpos + 1, rpos + count) /\ got' \in Seq(Byte)
              /\ rpos' = rpos + count
              /\ val' = val /\ wpos' = wpos /\ panicked' = panicked /\ moved' = moved
      BY <1>2, <2>1, ReadShape
    <2>3. rpos' \in Nat /\ rpos' <= Len(val')
      BY <2>2
    <2> QED
      BY <2>2, <2>3, Zenon
  <1>3. ASSUME NEW n \in 0 .. MaxArg, drain(n) PROVE IInv'
    <2>1. n \in Nat
      BY BoundAssumption
    <2>2. /\ val' \in Seq(Byte)
          /\ Len(val') = Len(val) - Least(Len(val), n)
          /\ rpos' = rpos - Least(rpos, n) /\ rpos' \in Nat
          /\ wpos' \in Nat
          /\ got' = got /\ panicked' = panicked /\ moved' = moved
      BY <1>3, <2>1, DrainShape
    <2>3. rpos' <= Len(val')
      BY <2>1, <2>2 DEF Least
    <2> QED
      BY <2>2, <2>3, Zenon
  <1>4. CASE clear
    <2>1. /\ val' = <<>> /\ rpos' = 0 /\ wpos' = 0
          /\ got' = got /\ panicked' = panicked /\ moved' = FALSE
      BY <1>4, Zenon DEF clear
    <2>2. val' \in Seq(Byte) /\ rpos' \in Nat /\ wpos' \in Nat /\ rpos' <= Len(val')
      BY <2>1
    <2> QED
      BY <2>1, <2>2, Zenon
  <1>5. ASSUME NEW pos \in 0 .. MaxLen, set_rpos(pos) \/ set_wpos(pos) PROVE IInv'
    <2>1. val' = val /\ got' = got /\ panicked' = panicked /\ moved' = TRUE
      BY <1>5, Zenon DEF set_rpos, set_wpos
    <2>2. rpos' \in Nat /\ wpos' \in Nat /\ rpos' <= Len(val')
      BY <1>5, BoundAssumption DEF set_rpos, set_wpos
    <2> QED
      BY <2>1, <2>2, Zenon
  <1>6. CASE UNCHANGED vars
    BY <1>6, Zenon DEF vars
  <1> QED
    BY <1>1, <1>2, <1>3, <1>4, <1>5, <1>6 DEF Next

LEMMA IInvInit == Init => IInv
  <1> SUFFICES ASSUME Init PROVE IInv
    OBVIOUS
  <1>1. val \in Seq(Byte) /\ rpos \in Nat /\ wpos \in Nat /\ got \in Seq(Byte) /\ ReadInside
    BY DEF Init, ReadInside
  <1>2. panicked \in BOOLEAN /\ moved \in BOOLEAN /\ NeverPanics
    BY Zenon DEF Init, NeverPanics
  <1> QED
    BY <1>1, <1>2, Zenon DEF IInv, TypeOK

(* The variables keep their types. *)
THEOREM BufferTypeCorrect == Spec => []TypeOK
  BY IInvInit, IInvStep, PTL DEF Spec, IInv

(* read() never panics: no drain, however much it takes, leaves the read
   position behind the end of the data. *)
THEOREM BufferNeverPanics == Spec => []NeverPanics
  BY IInvInit, IInvStep, PTL DEF Spec, IInv

-----------------------------------------------------------------------------
(* A step without a position set by the program keeps the write position at
   the end; clear() puts it back there. *)
LEMMA WriteAtEndStep ==
    ASSUME IInv, WriteAtEnd, [Next]_vars
    PROVE  WriteAtEnd'
  <1> USE DEF IInv, TypeOK
  <1> SUFFICES ASSUME ~ moved' PROVE wpos' = Len(val')
    BY DEF WriteAtEnd
  <1>1. ASSUME NEW data \in Strings, write(data) PROVE wpos' = Len(val')
    <2>1. wpos = Len(val)
      BY <1>1, Zenon DEF write, WriteAtEnd
    <2> QED
      BY <1>1, <2>1, WrittenIsVector, StringsAreSequences DEF write, Most
  <1>2. ASSUME NEW n \in 0 .. MaxArg, read(n) PROVE wpos' = Len(val')
    <2>1. wpos = Len(val)
      BY <1>2, Zenon DEF read, WriteAtEnd
    <2> QED
      BY <1>2, <2>1 DEF read
  <1>3. ASSUME NEW n \in 0 .. MaxArg, drain(n) PROVE wpos' = Len(val')
    <2>1. n \in Nat
      BY BoundAssumption
    <2>2. /\ Len(val') = Len(val) - Least(Len(val), n)
          /\ wpos' = wpos - Least(wpos, n)
      BY <1>3, <2>1, DrainShape
    <2>3. wpos = Len(val)
      BY <1>3, Zenon DEF drain, WriteAtEnd
    <2> QED
      BY <2>2, <2>3
  <1>4. CASE clear
    BY <1>4 DEF clear
  <1>5. ASSUME NEW pos \in 0 .. MaxLen, set_rpos(pos) \/ set_wpos(pos) PROVE FALSE
    BY <1>5, Zenon DEF set_rpos, set_wpos
  <1>6. CASE UNCHANGED vars
    BY <1>6, Zenon DEF vars, WriteAtEnd
  <1> QED
    BY <1>1, <1>2, <1>3, <1>4, <1>5, <1>6 DEF Next

(* write_done may send the whole vector: as long as the program sets no
   position, it is what was written. *)
THEOREM BufferWriteAtEnd == Spec => []WriteAtEnd
  <1>1. Init => IInv /\ WriteAtEnd
    BY IInvInit DEF Init, WriteAtEnd
  <1>2. IInv /\ WriteAtEnd /\ [Next]_vars => IInv' /\ WriteAtEnd'
    BY IInvStep, WriteAtEndStep
  <1> QED
    BY <1>1, <1>2, PTL DEF Spec

-----------------------------------------------------------------------------
(* What is unread, as a sequence. *)
LEMMA UnreadShape ==
    ASSUME IInv
    PROVE  /\ Unread \in Seq(Byte)
           /\ Len(Unread) = Len(val) - rpos
           /\ \A i \in 1 .. Len(val) - rpos : Unread[i] = val[rpos + i]
  <1>1. Len(val) \in 0 .. Len(val) /\ rpos \in 0 .. Len(val)
    BY DEF IInv, TypeOK, ReadInside
  <1> QED
    BY <1>1, Cut, Zenon DEF IInv, TypeOK, Unread

LEMMA UnreadShapeNext ==
    ASSUME IInv'
    PROVE  /\ Unread' \in Seq(Byte)
           /\ Len(Unread') = Len(val') - rpos'
           /\ \A i \in 1 .. Len(val') - rpos' : Unread'[i] = val'[rpos' + i]
  <1>1. Len(val') \in 0 .. Len(val') /\ rpos' \in 0 .. Len(val')
    BY DEF IInv, TypeOK, ReadInside
  <1> QED
    BY <1>1, Cut, Zenon DEF IInv, TypeOK, Unread

(* What follows the first n unread bytes, n elements on. *)
LEMMA RestShape ==
    ASSUME IInv, IInv', NEW n \in 0 .. Len(val) - rpos,
           Len(val') - rpos' = Len(val) - rpos - n,
           \A i \in 1 .. Len(val') - rpos' : val'[rpos' + i] = val[rpos + n + i]
    PROVE  Unread' = SubSeq(Unread, n + 1, Len(Unread))
  <1> DEFINE rest == SubSeq(Unread, n + 1, Len(Unread))
  <1>1. Len(val) \in Nat /\ rpos \in Nat /\ Len(val') \in Nat /\ rpos' \in Nat
    BY DEF IInv, TypeOK
  <1>2. Len(Unread) \in 0 .. Len(Unread) /\ n \in 0 .. Len(Unread)
    BY <1>1, UnreadShape
  <1>3. /\ rest \in Seq(Byte)
        /\ Len(rest) = Len(Unread) - n
        /\ \A i \in 1 .. Len(Unread) - n : rest[i] = Unread[n + i]
    <2>1. Unread \in Seq(Byte)
      BY UnreadShape
    <2>2. n \in 0 .. Len(Unread)
      BY <1>2
    <2> QED
      BY <1>2, <2>1, <2>2, Cut, Zenon
  <1> HIDE DEF rest
  <1>4. Len(Unread') = Len(rest)
    BY <1>1, <1>3, UnreadShape, UnreadShapeNext
  <1>5. ASSUME NEW i \in 1 .. Len(Unread')
        PROVE  Unread'[i] = rest[i]
    <2>1. Unread'[i] = val[rpos + n + i]
      BY UnreadShapeNext
    <2>2. i \in 1 .. Len(Unread) - n /\ n + i \in 1 .. Len(val) - rpos
      BY <1>1, <1>3, <1>4, UnreadShape
    <2>3. rest[i] = val[rpos + (n + i)]
      BY <1>3, <2>2, UnreadShape
    <2> QED
      BY <1>1, <2>1, <2>3
  <1>6. Unread' = rest
    BY <1>3, <1>4, <1>5, UnreadShapeNext, SeqEqual
  <1> QED
    BY <1>6 DEF rest

(* Written data joins the unread bytes at their end. *)
LEMMA WriteIsPut ==
    ASSUME IInv, IInv', WriteAtEnd, ~ moved', NEW data \in Strings, write(data)
    PROVE  Queue!Put
  <1>1. data \in Seq(Byte)
    BY StringsAreSequences
  <1>0. wpos = Len(val)
    BY Zenon DEF write, WriteAtEnd
  <1>2. /\ val \in Seq(Byte) /\ val' \in Seq(Byte) /\ rpos \in Nat /\ wpos = Len(val)
        /\ rpos <= Len(val)
    BY <1>0 DEF IInv, TypeOK, ReadInside
  <1>3. rpos' = rpos /\ got' = got /\ val' = Written(data)
    BY DEF write
  <1>4. Len(val') = Len(val) + Len(data)
    BY <1>1, <1>2, <1>3, WrittenIsVector DEF IInv, Most
  <1>5. ASSUME NEW i \in 1 .. Len(val) PROVE val'[i] = val[i]
    BY <1>1, <1>2, <1>3 DEF Written, Most
  <1>6. Len(Unread') >= Len(Unread) /\ Len(Unread) \in 0 .. Len(Unread')
    BY <1>1, <1>2, <1>3, <1>4, UnreadShape, UnreadShapeNext
  <1>7. \A i \in 1 .. Len(Unread) : Unread'[i] = Unread[i]
    BY <1>1, <1>2, <1>3, <1>4, <1>5, UnreadShape, UnreadShapeNext
  <1>8. SubSeq(Unread', 1, Len(Unread)) = Unread
    <2> DEFINE front == SubSeq(Unread', 0 + 1, Len(Unread))
    <2>1. 0 \in 0 .. Len(Unread)
      BY <1>6
    <2>2. /\ front \in Seq(Byte)
          /\ Len(front) = Len(Unread) - 0
          /\ \A i \in 1 .. Len(Unread) - 0 : front[i] = Unread'[0 + i]
      BY <1>6, <2>1, UnreadShapeNext, Cut, Zenon
    <2>3. Len(front) = Len(Unread) /\ \A i \in 1 .. Len(front) : front[i] = Unread[i]
      BY <1>6, <1>7, <2>2
    <2>4. front = Unread
      BY <2>2, <2>3, UnreadShape, SeqEqual
    <2> QED
      BY <2>4
  <1> QED
    BY <1>3, <1>6, <1>8, UnreadShapeNext, Zenon DEF Queue!Put, Unread

(* A read takes the first unread bytes. *)
LEMMA ReadIsGet ==
    ASSUME IInv, IInv', NEW n \in Nat, read(n)
    PROVE  Queue!Get
  <1>1. PICK count \in 0 .. Len(val) - rpos :
            /\ got' = SubSeq(val, rpos + 1, rpos + count) /\ got' \in Seq(Byte)
            /\ rpos' = rpos + count
            /\ val' = val /\ wpos' = wpos /\ panicked' = panicked /\ moved' = moved
    BY ReadShape DEF IInv
  <1>2. val \in Seq(Byte) /\ rpos \in Nat /\ rpos <= Len(val)
    BY DEF IInv, TypeOK, ReadInside
  <1>3. Unread' = SubSeq(Unread, count + 1, Len(Unread))
    <2>1. Len(val') - rpos' = Len(val) - rpos - count
      BY <1>1, <1>2
    <2>2. \A i \in 1 .. Len(val') - rpos' : val'[rpos' + i] = val[rpos + count + i]
      BY <1>1, <1>2
    <2> QED
      BY <2>1, <2>2, RestShape
  <1>4. got' = SubSeq(Unread, 1, count)
    <2> DEFINE front == SubSeq(Unread, 0 + 1, count)
    <2>1. /\ count \in 0 .. Len(Unread) /\ 0 \in 0 .. count
          /\ rpos + count \in 0 .. Len(val) /\ rpos \in 0 .. rpos + count
      BY <1>1, <1>2, UnreadShape
    <2>0. Unread \in Seq(Byte)
      BY UnreadShape
    <2>2. /\ front \in Seq(Byte)
          /\ Len(front) = count - 0
          /\ \A i \in 1 .. count - 0 : front[i] = Unread[0 + i]
      BY <2>0, <2>1, Cut, Zenon
    <2> HIDE DEF front
    <2>3. /\ Len(got') = (rpos + count) - rpos
          /\ \A i \in 1 .. (rpos + count) - rpos : got'[i] = val[rpos + i]
      BY <1>1, <1>2, <2>1, Cut, Zenon
    <2>4. Len(got') = count /\ \A i \in 1 .. count : got'[i] = val[rpos + i]
      <3>1. (rpos + count) - rpos = count
        BY <1>2, <2>1
      <3> QED
        BY <2>3, <3>1
    <2>5. Len(front) = count /\ \A i \in 1 .. count : front[i] = val[rpos + i]
      <3>1. count \in Nat /\ count <= Len(val) - rpos /\ Len(val) \in Nat
        BY <1>1, <1>2
      <3>2. ASSUME NEW i \in 1 .. count PROVE front[i] = val[rpos + i]
        <4>1. i \in 1 .. count - 0 /\ i \in 1 .. Len(val) - rpos /\ 0 + i = i
          BY <1>2, <3>1
        <4>2. front[i] = Unread[0 + i] /\ Unread[i] = val[rpos + i]
          BY <2>2, <4>1, UnreadShape
        <4> QED
          BY <4>1, <4>2
      <3> QED
        BY <2>2, <3>1, <3>2
    <2>6. got' = front
      BY <1>1, <2>2, <2>4, <2>5, SeqEqual
    <2> QED
      BY <2>6 DEF front
  <1>5. count \in 0 .. Len(Unread)
    BY <1>1, <1>2, UnreadShape
  <1> QED
    BY <1>3, <1>4, <1>5 DEF Queue!Get, Queue!Front, Queue!Rest, Unread

(* A drain drops what it reaches of the unread bytes. *)
LEMMA DrainIsDrop ==
    ASSUME IInv, IInv', NEW n \in Nat, drain(n)
    PROVE  Queue!Drop
  <1> DEFINE gone == Least(Len(val), n)
             dropped == IF gone <= rpos THEN 0 ELSE gone - rpos
  <1>1. val \in Seq(Byte) /\ rpos \in Nat /\ rpos <= Len(val)
    BY DEF IInv, TypeOK, ReadInside
  <1>2. /\ val' \in Seq(Byte)
        /\ Len(val') = Len(val) - gone
        /\ \A i \in 1 .. Len(val') : val'[i] = val[gone + i]
        /\ rpos' = rpos - Least(rpos, n) /\ rpos' \in Nat
        /\ got' = got
    BY DrainShape DEF IInv
  <1>3. gone \in 0 .. Len(val) /\ dropped \in 0 .. Len(val) - rpos
    BY <1>1 DEF Least
  <1>4. rpos' + gone = rpos + dropped
    <2>1. rpos' = rpos - Least(rpos, n)
      BY <1>2
    <2>2. Len(val) \in Nat
      BY <1>1
    <2>3. CASE n <= rpos
      <3>1. gone = n /\ Least(rpos, n) = n
        BY <1>1, <2>2, <2>3 DEF Least
      <3>2. dropped = 0
        BY <2>3, <3>1
      <3> HIDE DEF gone, dropped
      <3> QED
        BY <1>1, <2>1, <3>1, <3>2
    <2>4. CASE ~ n <= rpos
      <3>1. Least(rpos, n) = rpos /\ rpos <= gone /\ gone \in Nat
        BY <1>1, <2>2, <2>4 DEF Least
      <3>2. dropped = gone - rpos
        <4> HIDE DEF gone
        <4> QED
          BY <1>1, <3>1
      <3> HIDE DEF gone, dropped
      <3> QED
        BY <1>1, <2>1, <3>1, <3>2
    <2> QED
      BY <2>3, <2>4
  <1>5. Len(val') - rpos' = Len(val) - rpos - dropped
    BY <1>1, <1>2, <1>3, <1>4
  <1>6. ASSUME NEW i \in 1 .. Len(val') - rpos'
        PROVE  val'[rpos' + i] = val[rpos + dropped + i]
    <2>1. rpos' + i \in 1 .. Len(val')
      BY <1>1, <1>2, <1>3
    <2>2. gone + (rpos' + i) = rpos + dropped + i
      <3>1. gone \in Nat /\ dropped \in Nat /\ rpos' \in Nat /\ i \in Nat
        BY <1>1, <1>2, <1>3
      <3>3. PICK a, b, c, d, e \in Nat :
                a = rpos' /\ b = gone /\ c = rpos /\ d = dropped /\ e = i
        BY <1>1, <3>1, Zenon
      <3>4. a + b = c + d
        BY <1>4, <3>3, Zenon
      <3>5. b + (a + e) = c + d + e
        BY <3>4
      <3> QED
        BY <3>3, <3>5, Zenon
    <2> QED
      BY <1>2, <2>1, <2>2
  <1>7. Unread' = SubSeq(Unread, dropped + 1, Len(Unread))
    BY <1>3, <1>5, <1>6, RestShape
  <1>8. dropped \in 0 .. Len(Unread)
    BY <1>3, UnreadShape
  <1> HIDE DEF dropped
  <1> QED
    BY <1>2, <1>7, <1>8 DEF Queue!Drop, Queue!Rest, Unread

(* clear drops all of them. *)
LEMMA ClearIsDrop ==
    ASSUME IInv, IInv', clear
    PROVE  Queue!Drop
  <1>1. val' = <<>> /\ rpos' = 0 /\ got' = got
    BY DEF clear
  <1>2. Len(Unread) \in 0 .. Len(Unread) /\ Len(Unread) = Len(val) - rpos
    BY UnreadShape DEF IInv, TypeOK, ReadInside
  <1>3. /\ Len(val) - rpos \in 0 .. Len(val) - rpos
        /\ Len(val') - rpos' = Len(val) - rpos - (Len(val) - rpos)
        /\ \A i \in 1 .. Len(val') - rpos' : val'[rpos' + i] = val[rpos + (Len(val) - rpos) + i]
    BY <1>1 DEF IInv, TypeOK, ReadInside
  <1>4. Unread' = SubSeq(Unread, Len(val) - rpos + 1, Len(Unread))
    BY <1>3, RestShape
  <1>5. Unread' = SubSeq(Unread, Len(Unread) + 1, Len(Unread))
    BY <1>2, <1>4
  <1> QED
    BY <1>1, <1>2, <1>5 DEF Queue!Drop, Queue!Rest, Unread

(* The buffer is a queue of bytes: what read() returns, call after call, is what
   was written, in order, without the bytes that were drained before they were
   read, as long as the program sets no position. *)
THEOREM BufferIsQueue == Spec => ImplementsByteQueue
  <1>1. Init => Queue!Init
    BY DEF Init, Queue!Init, Unread
  <1>2. IInv /\ IInv' /\ WriteAtEnd /\ [Next]_vars
            => [moved' \/ Queue!Next]_<<Unread, got>>
    <2> SUFFICES ASSUME IInv, IInv', WriteAtEnd, [Next]_vars, ~ moved'
                 PROVE  Queue!Next \/ UNCHANGED <<Unread, got>>
      OBVIOUS
    <2>1. ASSUME NEW data \in Strings, write(data) PROVE Queue!Put
      BY <2>1, WriteIsPut
    <2>2. ASSUME NEW n \in 0 .. MaxArg, read(n) PROVE Queue!Get
      BY <2>2, ReadIsGet, BoundAssumption
    <2>3. ASSUME NEW n \in 0 .. MaxArg, drain(n) PROVE Queue!Drop
      BY <2>3, DrainIsDrop, BoundAssumption
    <2>4. CASE clear
      BY <2>4, ClearIsDrop DEF Queue!Next
    <2>5. ASSUME NEW pos \in 0 .. MaxLen, set_rpos(pos) \/ set_wpos(pos) PROVE FALSE
      BY <2>5, Zenon DEF set_rpos, set_wpos
    <2>6. CASE UNCHANGED vars
      BY <2>6 DEF vars, Unread
    <2> QED
      BY <2>1, <2>2, <2>3, <2>4, <2>5, <2>6 DEF Next, Queue!Next
  <1>3. Init => IInv /\ WriteAtEnd
    BY IInvInit DEF Init, WriteAtEnd
  <1>4. IInv /\ WriteAtEnd /\ [Next]_vars => IInv' /\ WriteAtEnd'
    BY IInvStep, WriteAtEndStep
  <1> QED
    BY <1>1, <1>2, <1>3, <1>4, PTL DEF Spec, ImplementsByteQueue
=============================================================================
