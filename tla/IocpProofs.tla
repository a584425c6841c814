----------------------------- MODULE IocpProofs -----------------------------
(***************************************************************************)
(* Theorems about the completion-port selector, for every set of sockets   *)
(* and numbers, every behaviour of the program and every answer of the     *)
(* kernel.  IocpInv relates the three places where a socket is, its Event, *)
(* the kernel's side and the packets in the port.  What a post_* function  *)
(* does to one socket is stated by lemmas on that socket alone, and        *)
(* BecomesKeeps carries it over to the state.  Alive says what is under    *)
(* way for the sockets that are left, PeersHeld what is in the buffers     *)
(* AcceptEx fills; both are shown over IocpInv.                            *)
(***************************************************************************)
EXTENDS IocpSelector, SequenceTheorems, FiniteSetTheorems, TLAPS

Port == Seq(PacketFields)

(* Event e and kernel side k of one socket: once it is unregistered the kernel
   has nothing of it, and until a send is pending it was never handed the same
   data twice. *)
SideOK(e, k) ==
    /\ e.is_end => ~k.open /\ k.reads = 0 /\ k.writes = 0
    /\ k.pended \/ (k.given <= e.drained /\ ~k.resent)

(* The packets p, as socket s sees them: its ENDED packet comes when it is
   unregistered, and no packet of it comes later. *)
EndedLast(s, e, p) ==
    \A i \in 1 .. Len(p) : p[i].sock = s /\ p[i].kind = "ENDED" =>
        e.is_end /\ \A j \in 1 .. Len(p) : p[j].sock = s => j <= i

IsRead(s, packet) == packet.sock = s /\ packet.kind = "read"

(* One read at most is with the kernel or in the port; none is. *)
OneReadAt(s, k, p) ==
    /\ k.reads <= 1
    /\ \A i \in 1 .. Len(p) : IsRead(s, p[i]) =>
           k.reads = 0 /\ \A j \in 1 .. Len(p) : IsRead(s, p[j]) => j = i

IdleAt(s, k, p) ==
    k.modified \/ (k.reads = 0 /\ \A i \in 1 .. Len(p) : ~IsRead(s, p[i]))

Good(s, e, k, p) ==
    /\ e \in EventFields /\ e.drained <= e.submitted /\ k \in IoFields
    /\ SideOK(e, k)
    /\ EndedLast(s, e, p)
    /\ k.modified \/ OneReadAt(s, k, p)

Shape ==
    /\ role \in [Sock -> {"none", "stream", "listener"}]
    /\ num \in [Sock -> Num \cup {0}]
    /\ DOMAIN event_maps \subseteq Num /\ event_maps \in [DOMAIN event_maps -> Sock]
    /\ ev \in [Sock -> EventFields]
    /\ io \in [Sock -> IoFields]
    /\ port \in Port
    /\ running = <<>> \/ \E kind \in {"accept", "read", "write", "end"}, s \in Sock :
                            running = <<[kind |-> kind, sock |-> s]>>
    /\ panicked \in BOOLEAN
    /\ ended \subseteq Sock

(* The map leads to sockets by their own number, and they have not ended. *)
MapOK ==
    \A n \in DOMAIN event_maps :
        /\ num[event_maps[n]] = n
        /\ role[event_maps[n]] # "none"
        /\ event_maps[n] \notin ended

(* A socket that is not in the map has nothing under way; one that never was is
   as it came. *)
Quiet ==
    \A s \in Sock : ~InMap(s) =>
        /\ io[s].reads = 0 /\ io[s].writes = 0
        /\ \A i \in 1 .. Len(port) : port[i].sock # s

Fresh ==
    \A s \in Sock : role[s] = "none" => ev[s] = NoEvent /\ io[s] = NoIo /\ s \notin ended

(* An end callback is for a socket that ended, another for one in the map; a
   read or accept callback, for one whose read is over. *)
CallOK ==
    running # <<>> =>
        /\ role[Self] # "none"
        /\ IF running[1].kind = "end" THEN Self \in ended ELSE InMap(Self)
        /\ running[1].kind \in {"read", "accept"} => IdleAt(Self, io[Self], port)

IocpInv ==
    /\ Shape
    /\ \A s \in Sock : Good(s, ev[s], io[s], port)
    /\ MapOK /\ Quiet /\ Fresh /\ CallOK

-----------------------------------------------------------------------------
(* Sequences of packets. *)

LEMMA ConcatShape ==
    ASSUME NEW p \in Port, NEW w \in Port
    PROVE  /\ p \o w \in Port /\ Len(p) \in Nat /\ Len(w) \in Nat
           /\ Len(p \o w) = Len(p) + Len(w)
           /\ \A i \in 1 .. Len(p) : i \in 1 .. Len(p \o w) /\ (p \o w)[i] = p[i]
           /\ \A i \in 1 .. Len(p \o w) :
                  \/ i \in 1 .. Len(p) /\ (p \o w)[i] = p[i]
                  \/ /\ i > Len(p) /\ i - Len(p) \in 1 .. Len(w)
                     /\ (p \o w)[i] = w[i - Len(p)]
  <1>1. /\ p \o w \in Port
        /\ Len(p \o w) = Len(p) + Len(w)
        /\ \A i \in 1 .. Len(p) + Len(w) :
               (p \o w)[i] = IF i <= Len(p) THEN p[i] ELSE w[i - Len(p)]
    BY ConcatProperties DEF Port
  <1>2. Len(p) \in Nat /\ Len(w) \in Nat
    BY LenProperties DEF Port
  <1> QED
    BY <1>1, <1>2

LEMMA TailShape ==
    ASSUME NEW p \in Port, p # <<>>
    PROVE  /\ Tail(p) \in Port /\ Len(p) \in Nat \ {0} /\ 1 \in 1 .. Len(p)
           /\ Len(Tail(p)) = Len(p) - 1
           /\ \A i \in 1 .. Len(Tail(p)) : i + 1 \in 1 .. Len(p) /\ Tail(p)[i] = p[i + 1]
           /\ Head(p) = p[1] /\ Head(p) \in PacketFields
  <1>1. /\ Tail(p) \in Port /\ Len(Tail(p)) = Len(p) - 1
        /\ \A i \in 1 .. Len(Tail(p)) : Tail(p)[i] = p[i + 1]
        /\ Head(p) \in PacketFields
    BY HeadTailProperties DEF Port
  <1>2. Len(p) \in Nat \ {0}
    BY EmptySeq DEF Port
  <1>3. Head(p) = p[1]
    BY DEF Port
  <1> QED
    BY <1>1, <1>2, <1>3

(* Packets of other sockets do not change what socket s sees. *)
LEMMA OthersAppend ==
    ASSUME NEW s, NEW e, NEW k, NEW p \in Port, NEW w \in Port,
           \A i \in 1 .. Len(w) : w[i].sock # s
    PROVE  /\ Good(s, e, k, p) => Good(s, e, k, p \o w)
           /\ IdleAt(s, k, p) => IdleAt(s, k, p \o w)
  <1>1. /\ \A i \in 1 .. Len(p) : i \in 1 .. Len(p \o w) /\ (p \o w)[i] = p[i]
        /\ \A i \in 1 .. Len(p \o w) :
               \/ i \in 1 .. Len(p) /\ (p \o w)[i] = p[i]
               \/ (p \o w)[i].sock # s
    <2>1. /\ \A i \in 1 .. Len(p) : i \in 1 .. Len(p \o w) /\ (p \o w)[i] = p[i]
          /\ \A i \in 1 .. Len(p \o w) :
                 \/ i \in 1 .. Len(p) /\ (p \o w)[i] = p[i]
                 \/ /\ i - Len(p) \in 1 .. Len(w)
                    /\ (p \o w)[i] = w[i - Len(p)]
      BY ConcatShape
    <2> QED
      BY <2>1, Zenon
  <1>2. EndedLast(s, e, p) => EndedLast(s, e, p \o w)
    BY <1>1 DEF EndedLast
  <1>3. OneReadAt(s, k, p) => OneReadAt(s, k, p \o w)
    BY <1>1 DEF OneReadAt, IsRead
  <1>4. IdleAt(s, k, p) => IdleAt(s, k, p \o w)
    BY <1>1 DEF IdleAt, IsRead
  <1> QED
    BY <1>2, <1>3, <1>4 DEF Good

(* So does the first packet, when it goes. *)
LEMMA TailKeeps ==
    ASSUME NEW s, NEW e, NEW k, NEW p \in Port, p # <<>>
    PROVE  /\ Good(s, e, k, p) => Good(s, e, k, Tail(p))
           /\ IdleAt(s, k, p) => IdleAt(s, k, Tail(p))
           /\ Good(s, e, k, p) /\ IsRead(s, Head(p)) => IdleAt(s, k, Tail(p))
           /\ Good(s, e, k, p) /\ Head(p).sock = s /\ Head(p).kind = "ENDED" =>
                  e.is_end /\ \A i \in 1 .. Len(Tail(p)) : Tail(p)[i].sock # s
           /\ (\A i \in 1 .. Len(p) : p[i].sock # s) =>
                  \A i \in 1 .. Len(Tail(p)) : Tail(p)[i].sock # s
  <1>1. /\ Len(p) \in Nat /\ 1 \in 1 .. Len(p) /\ Head(p) = p[1] /\ Len(Tail(p)) = Len(p) - 1
        /\ \A i \in 1 .. Len(Tail(p)) : i + 1 \in 1 .. Len(p) /\ Tail(p)[i] = p[i + 1]
    BY TailShape
  <1>2. EndedLast(s, e, p) => EndedLast(s, e, Tail(p))
    <2> SUFFICES ASSUME EndedLast(s, e, p), NEW i \in 1 .. Len(Tail(p)),
                        Tail(p)[i].sock = s, Tail(p)[i].kind = "ENDED"
                 PROVE  e.is_end /\ \A j \in 1 .. Len(Tail(p)) : Tail(p)[j].sock = s => j <= i
      BY DEF EndedLast
    <2>1. e.is_end /\ \A j \in 1 .. Len(p) : p[j].sock = s => j <= i + 1
      BY <1>1 DEF EndedLast
    <2> QED
      BY <1>1, <2>1
  <1>3. OneReadAt(s, k, p) => OneReadAt(s, k, Tail(p))
    <2> SUFFICES ASSUME OneReadAt(s, k, p), NEW i \in 1 .. Len(Tail(p)), IsRead(s, Tail(p)[i])
                 PROVE  k.reads = 0 /\ \A j \in 1 .. Len(Tail(p)) : IsRead(s, Tail(p)[j]) => j = i
      BY DEF OneReadAt
    <2>1. k.reads = 0 /\ \A j \in 1 .. Len(p) : IsRead(s, p[j]) => j = i + 1
      BY <1>1 DEF OneReadAt
    <2> QED
      BY <1>1, <2>1
  <1>4. IdleAt(s, k, p) => IdleAt(s, k, Tail(p))
    BY <1>1 DEF IdleAt
  <1>5. Good(s, e, k, p) /\ IsRead(s, Head(p)) => IdleAt(s, k, Tail(p))
    <2> SUFFICES ASSUME OneReadAt(s, k, p), IsRead(s, p[1])
                 PROVE  k.reads = 0 /\ \A i \in 1 .. Len(Tail(p)) : ~IsRead(s, Tail(p)[i])
      BY <1>1 DEF Good, IdleAt
    <2>1. k.reads = 0 /\ \A j \in 1 .. Len(p) : IsRead(s, p[j]) => j = 1
      BY <1>1 DEF OneReadAt
    <2> QED
      BY <1>1, <2>1
  <1>6. Good(s, e, k, p) /\ Head(p).sock = s /\ Head(p).kind = "ENDED" =>
            e.is_end /\ \A i \in 1 .. Len(Tail(p)) : Tail(p)[i].sock # s
    BY <1>1 DEF Good, EndedLast
  <1> QED
    BY <1>1, <1>2, <1>3, <1>4, <1>5, <1>6 DEF Good

-----------------------------------------------------------------------------
(* What the calls of the system come to. *)

LEMMA Answers ==
    /\ \A v : Ok(v).ok \in BOOLEAN
    /\ Err.ok \in BOOLEAN
    /\ \A err : last_err(err).ok \in BOOLEAN
    /\ \A r : cvt(r).ok \in BOOLEAN
  <1>1. /\ \A v : Ok(v).ok \in BOOLEAN
        /\ Err.ok \in BOOLEAN
    BY DEF Ok, Err
  <1>2. \A err : last_err(err) \in {Ok(None), Err}
    BY DEF last_err
  <1>3. \A err : last_err(err).ok \in BOOLEAN
    BY <1>1, <1>2
  <1>4. \A r : cvt(r) = last_err(r.err) \/ cvt(r) = Ok(Some(r.size))
    BY DEF cvt
  <1> QED
    BY <1>1, <1>3, <1>4

LEMMA Results ==
    /\ \A r \in read_overlapped : r.ok \in BOOLEAN
    /\ \A r \in accept_overlapped : r.ok \in BOOLEAN
    /\ \A r \in post_info(PostFails) : r.ok \in BOOLEAN
    /\ \A r \in add_socket : r.ok \in BOOLEAN
    /\ \A len, broken, mayPend : \A r \in write_overlapped(len, broken, mayPend) : r.ok \in BOOLEAN
  <1>1. \A r \in AcceptEx : r.ok \in BOOLEAN
    BY Answers DEF AcceptEx
  <1>2. \A r \in accept_overlapped : r.ok \in BOOLEAN
    BY <1>1, Answers DEF accept_overlapped, WsaExtensionGet
  <1> QED
    BY <1>2, Answers DEF read_overlapped, post_info, add_socket, write_overlapped

LEMMA WriteResults ==
    ASSUME NEW len \in Nat, NEW broken \in BOOLEAN, NEW mayPend \in BOOLEAN,
           NEW r \in write_overlapped(len, broken, mayPend), r.ok, r.v # None
    PROVE  r.v[1] \in 1 .. len
  <1>1. slice2buf(len) \in Nat /\ slice2buf(len) <= len
    BY WidthAssumption DEF slice2buf, Least
  <1>2. PICK w \in WSASend(slice2buf(len), broken, mayPend) : r = cvt(w)
    BY DEF write_overlapped
  <1>3. CASE w.failed
    BY <1>2, <1>3 DEF cvt, last_err, Ok, Err
  <1>4. CASE ~w.failed
    <2>1. PICK n \in 1 .. slice2buf(len) : w = Takes(n)
      BY <1>2, <1>4 DEF WSASend, Fails
    <2>2. r.v = <<n>>
      BY <1>2, <2>1 DEF cvt, Takes, Ok, Some
    <2> QED
      BY <1>1, <2>1, <2>2
  <1> QED
    BY <1>3, <1>4

LEMMA PendingSends ==
    ASSUME NEW len \in Nat \ {0}
    PROVE  slice2buf(len) \in 1 .. len
  BY WidthAssumption DEF slice2buf, Least

-----------------------------------------------------------------------------
(* One socket in the middle of a method: the port is q, then what goes out. *)
Half == [sock : Sock, ev : EventFields, io : IoFields, out : Port]

GoodHalf(x, q) ==
    /\ x \in Half
    /\ \A i \in 1 .. Len(x.out) : x.out[i].sock = x.sock
    /\ Good(x.sock, x.ev, x.io, q \o x.out)

Idle(x, q) == IdleAt(x.sock, x.io, q \o x.out)

Follows(x, y, q) ==
    GoodHalf(y, q) /\ y.sock = x.sock /\ y.io.modified = x.io.modified

LEMMA FieldsOfEvent ==
    ASSUME NEW e \in EventFields
    PROVE  /\ e.submitted \in 0 .. MaxSend /\ e.drained \in 0 .. MaxSend
           /\ e.is_end \in BOOLEAN /\ e.is_in_read \in BOOLEAN /\ e.is_in_write \in BOOLEAN
           /\ e.accept_socket \in BOOLEAN /\ e.flags \in SUBSET Flag
           /\ MaxSend \in Nat
  BY BoundAssumption DEF EventFields

LEMMA PacketsAre ==
    ASSUME NEW x \in Half, NEW kind \in {"read", "write", "ENDED"}
    PROVE  /\ PacketOf(x, kind, 0) \in PacketFields
           /\ PacketOf(x, kind, 0).sock = x.sock /\ PacketOf(x, kind, 0).kind = kind
           /\ <<PacketOf(x, kind, 0)>> \in Port
  <1>1. PacketOf(x, kind, 0) \in PacketFields
    BY DEF PacketOf, PacketFields, Half, Peer
  <1> QED
    BY <1>1 DEF PacketOf, Port

(* More goes out: one sequence of packets after the other. *)
LEMMA OutGrows ==
    ASSUME NEW x \in Half, NEW q \in Port, NEW w \in Port,
           \A i \in 1 .. Len(x.out) : x.out[i].sock = x.sock,
           \A i \in 1 .. Len(w) : w[i].sock = x.sock
    PROVE  /\ x.out \o w \in Port
           /\ q \o (x.out \o w) = (q \o x.out) \o w
           /\ q \o x.out \in Port
           /\ \A i \in 1 .. Len(x.out \o w) : (x.out \o w)[i].sock = x.sock
  <1>1. x.out \in Port
    BY DEF Half
  <1>2. q \o (x.out \o w) = (q \o x.out) \o w
    <2>1. x.out \in Seq(PacketFields) /\ q \in Seq(PacketFields) /\ w \in Seq(PacketFields)
      BY <1>1 DEF Port
    <2>2. \A a, b, c \in Seq(PacketFields) : (a \o b) \o c = a \o (b \o c)
      BY ConcatAssociative
    <2> QED
      BY <2>1, <2>2, Zenon
  <1>3. q \o x.out \in Port
    BY <1>1, ConcatShape
  <1>4. /\ x.out \o w \in Port
        /\ \A i \in 1 .. Len(x.out \o w) :
               \/ i \in 1 .. Len(x.out) /\ (x.out \o w)[i] = x.out[i]
               \/ i - Len(x.out) \in 1 .. Len(w) /\ (x.out \o w)[i] = w[i - Len(x.out)]
    BY <1>1, ConcatShape
  <1>5. \A i \in 1 .. Len(x.out \o w) : (x.out \o w)[i].sock = x.sock
    BY <1>4, Zenon
  <1> QED
    BY <1>2, <1>3, <1>4, <1>5

(* The Event may change in what Good does not read. *)
LEMMA SameEvent ==
    ASSUME NEW s, NEW e, NEW f \in EventFields, NEW k, NEW p, Good(s, e, k, p),
           f.is_end = e.is_end, f.drained = e.drained, f.submitted >= e.submitted
    PROVE  Good(s, f, k, p)
  BY FieldsOfEvent DEF Good, SideOK, EndedLast

-----------------------------------------------------------------------------
(* The post_* functions. *)

LEMMA Outcomes ==
    \A x : \A b \in BOOLEAN : Outcome(x, b).x = x /\ Outcome(x, b).ok = b
  BY DEF Outcome

LEMMA HalfStays ==
    ASSUME NEW q \in Port, NEW x, GoodHalf(x, q)
    PROVE  Follows(x, x, q) /\ q \o x.out \in Port /\ x.out \in Port /\ Len(q \o x.out) \in Nat
  <1>1. x.out \in Port
    BY DEF GoodHalf, Half
  <1> QED
    BY <1>1, ConcatShape DEF Follows

(* A read is posted when none is under way. *)
LEMMA ReadPosted ==
    ASSUME NEW q \in Port, NEW x, GoodHalf(x, q), Idle(x, q), ~x.ev.is_end,
           NEW y, y = [x EXCEPT !.io.reads = @ + 1]
    PROVE  Follows(x, y, q)
  <1>1. x.io \in IoFields /\ x \in Half
    BY DEF GoodHalf, Half
  <1>2. /\ y.sock = x.sock /\ y.ev = x.ev /\ y.out = x.out
        /\ y.io = [x.io EXCEPT !.reads = @ + 1] /\ y \in Half
    BY <1>1 DEF Half, IoFields
  <1>3. /\ y.io \in IoFields /\ y.io.reads = x.io.reads + 1 /\ y.io.modified = x.io.modified
        /\ y.io.open = x.io.open /\ y.io.writes = x.io.writes /\ y.io.given = x.io.given
        /\ y.io.pended = x.io.pended /\ y.io.resent = x.io.resent
    BY <1>1, <1>2 DEF IoFields
  <1>4. x.io.modified \/ OneReadAt(x.sock, y.io, q \o x.out)
    BY <1>3 DEF Idle, IdleAt, OneReadAt
  <1>5. Good(x.sock, x.ev, y.io, q \o x.out)
    BY <1>3, <1>4 DEF GoodHalf, Good, SideOK
  <1> QED
    BY <1>2, <1>3, <1>5 DEF Follows, GoodHalf

LEMMA ReadsFollow ==
    ASSUME NEW q \in Port, NEW x, GoodHalf(x, q), Idle(x, q), ~x.ev.is_end,
           NEW b \in BOOLEAN
    PROVE  Follows(x, Reads(x, b).x, q) /\ Reads(x, b).ok \in BOOLEAN
  BY ReadPosted, HalfStays, Outcomes DEF Reads

LEMMA PostReadFollows ==
    ASSUME NEW q \in Port, NEW x, GoodHalf(x, q), Idle(x, q), NEW o \in post_read_event(x)
    PROVE  Follows(x, o.x, q) /\ o.ok \in BOOLEAN
  <1>1. CASE x.ev.is_end \/ x.ev.is_in_read
    <2>1. o = Outcome(x, TRUE)
      BY <1>1 DEF post_read_event
    <2> QED
      BY <2>1, HalfStays, Outcomes
  <1>2. CASE ~(x.ev.is_end \/ x.ev.is_in_read)
    <2>1. PICK r \in read_overlapped : o = Reads(x, r.ok)
      BY <1>2 DEF post_read_event
    <2>2. r.ok \in BOOLEAN
      BY Results
    <2> QED
      BY <1>2, <2>1, <2>2, ReadsFollow
  <1> QED
    BY <1>1, <1>2

LEMMA PostAcceptFollows ==
    ASSUME NEW q \in Port, NEW x, GoodHalf(x, q), Idle(x, q), NEW o \in post_accept_event(x)
    PROVE  Follows(x, o.x, q) /\ o.ok \in BOOLEAN
  <1>1. CASE o.x = x /\ o.ok \in BOOLEAN
    BY <1>1, HalfStays
  <1>2. CASE ~x.ev.is_in_read /\ x.io.open /\ o \notin {Outcome(x, TRUE), Outcome(x, FALSE)}
    <2> DEFINE y == [x EXCEPT !.ev.accept_socket = TRUE]
    <2>1. PICK r \in accept_overlapped : o = Reads(y, r.ok)
      BY <1>2 DEF post_accept_event
    <2>2. r.ok \in BOOLEAN
      BY Results
    <2>3. x \in Half /\ x.ev \in EventFields /\ Good(x.sock, x.ev, x.io, q \o x.out)
      BY DEF GoodHalf, Half
    <2>4. /\ y \in Half /\ y.sock = x.sock /\ y.io = x.io /\ y.out = x.out
          /\ y.ev = [x.ev EXCEPT !.accept_socket = TRUE]
      BY <2>3 DEF Half, EventFields
    <2> HIDE DEF y
    <2>5. /\ y.ev \in EventFields /\ y.ev.is_end = x.ev.is_end /\ y.ev.drained = x.ev.drained
          /\ y.ev.submitted = x.ev.submitted
      BY <2>3, <2>4 DEF EventFields
    <2>6. Good(x.sock, y.ev, x.io, q \o x.out)
      <3>1. y.ev.submitted >= x.ev.submitted
        BY <2>3, <2>5, FieldsOfEvent
      <3> QED
        BY <2>3, <2>5, <3>1, SameEvent
    <2>7. GoodHalf(y, q) /\ Idle(y, q) /\ ~y.ev.is_end
      BY <1>2, <2>3, <2>4, <2>5, <2>6 DEF GoodHalf, Idle, Good, SideOK
    <2>8. Follows(y, Reads(y, r.ok).x, q) /\ Reads(y, r.ok).ok \in BOOLEAN
      BY <2>2, <2>7, ReadsFollow
    <2> QED
      BY <2>1, <2>4, <2>8 DEF Follows
  <1>3. \/ o \in {Outcome(x, TRUE), Outcome(x, FALSE)}
        \/ ~x.ev.is_in_read /\ x.io.open
    BY DEF post_accept_event
  <1>4. o \in {Outcome(x, TRUE), Outcome(x, FALSE)} => o.x = x /\ o.ok \in BOOLEAN
    BY Outcomes
  <1>5. x.ev.is_in_read => o = Outcome(x, TRUE)
    BY DEF post_accept_event
  <1> QED
    BY <1>1, <1>2, <1>3, <1>4, <1>5

(* One packet of the socket goes out that is neither of a read nor ENDED. *)
LEMMA WritePacketOut ==
    ASSUME NEW q \in Port, NEW x, GoodHalf(x, q), ~x.ev.is_end
    PROVE  /\ Append(x.out, PacketOf(x, "write", 0)) \in Port
           /\ \A i \in 1 .. Len(Append(x.out, PacketOf(x, "write", 0))) :
                  Append(x.out, PacketOf(x, "write", 0))[i].sock = x.sock
           /\ \A e : EndedLast(x.sock, e, q \o Append(x.out, PacketOf(x, "write", 0)))
           /\ \A k : k.reads = x.io.reads /\ OneReadAt(x.sock, x.io, q \o x.out) =>
                  OneReadAt(x.sock, k, q \o Append(x.out, PacketOf(x, "write", 0)))
           /\ \A k : k.reads = x.io.reads /\ k.modified = x.io.modified /\ Idle(x, q) =>
                  IdleAt(x.sock, k, q \o Append(x.out, PacketOf(x, "write", 0)))
  <1> DEFINE w == <<PacketOf(x, "write", 0)>>
             p == q \o x.out
  <1>1. x \in Half /\ Good(x.sock, x.ev, x.io, p) /\ p \in Port
    BY HalfStays DEF GoodHalf
  <1>2. w \in Port /\ Len(w) = 1 /\ w[1].sock = x.sock /\ w[1].kind = "write"
    BY <1>1, PacketsAre
  <1>3. Append(x.out, PacketOf(x, "write", 0)) = x.out \o w
    BY <1>1, PacketsAre, AppendIsConcat DEF Half, Port
  <1> HIDE DEF w
  <1>4. /\ x.out \o w \in Port /\ q \o (x.out \o w) = p \o w
        /\ \A i \in 1 .. Len(x.out \o w) : (x.out \o w)[i].sock = x.sock
    <2>1. /\ \A i \in 1 .. Len(x.out) : x.out[i].sock = x.sock
          /\ \A i \in 1 .. Len(w) : w[i].sock = x.sock
      BY <1>2 DEF GoodHalf
    <2> QED
      BY <1>1, <1>2, <2>1, OutGrows
  <1> HIDE DEF p
  <1>5. /\ \A i \in 1 .. Len(p) : i \in 1 .. Len(p \o w) /\ (p \o w)[i] = p[i]
        /\ \A i \in 1 .. Len(p \o w) :
               \/ i \in 1 .. Len(p) /\ (p \o w)[i] = p[i]
               \/ (p \o w)[i].kind = "write"
    <2>1. /\ \A i \in 1 .. Len(p) : i \in 1 .. Len(p \o w) /\ (p \o w)[i] = p[i]
          /\ \A i \in 1 .. Len(p \o w) :
                 \/ i \in 1 .. Len(p) /\ (p \o w)[i] = p[i]
                 \/ i - Len(p) \in 1 .. Len(w) /\ (p \o w)[i] = w[i - Len(p)]
      BY <1>1, <1>2, ConcatShape
    <2>2. \A i \in 1 .. Len(w) : w[i].kind = "write"
      BY <1>2
    <2> QED
      BY <2>1, <2>2, Zenon
  <1>6. \A i \in 1 .. Len(p) : ~(p[i].sock = x.sock /\ p[i].kind = "ENDED")
    BY <1>1 DEF Good, EndedLast
  <1>7. \A e : EndedLast(x.sock, e, p \o w)
    BY <1>5, <1>6 DEF EndedLast
  <1>8. \A k : k.reads = x.io.reads /\ OneReadAt(x.sock, x.io, p) => OneReadAt(x.sock, k, p \o w)
    BY <1>5 DEF OneReadAt, IsRead
  <1>9. \A k : k.reads = x.io.reads /\ k.modified = x.io.modified /\ IdleAt(x.sock, x.io, p) =>
            IdleAt(x.sock, k, p \o w)
    BY <1>5 DEF IdleAt, IsRead
  <1> QED
    BY <1>3, <1>4, <1>7, <1>8, <1>9 DEF Idle, p

LEMMA EventDrained ==
    ASSUME NEW e \in EventFields, NEW n \in Nat, e.drained + n \in 0 .. MaxSend,
           NEW f, f = Drained(e, n)
    PROVE  /\ f \in EventFields /\ f.drained = e.drained + n
           /\ f.submitted = e.submitted /\ f.is_end = e.is_end
  <1> DEFINE b == n < Buffered(e)
  <1>1. f = [e EXCEPT !.drained = e.drained + n, !.is_in_write = b]
    BY DEF Drained
  <1>2. b \in BOOLEAN
    OBVIOUS
  <1> HIDE DEF b
  <1> QED
    BY <1>1, <1>2 DEF EventFields

LEMMA HandedOver ==
    ASSUME NEW k \in IoFields, NEW from \in Nat, NEW n \in Nat, from + n \in 0 .. MaxSend
    PROVE  /\ Handed(k, from, n) \in IoFields
           /\ Handed(k, from, n).reads = k.reads /\ Handed(k, from, n).writes = k.writes
           /\ Handed(k, from, n).open = k.open /\ Handed(k, from, n).modified = k.modified
           /\ Handed(k, from, n).pended = k.pended /\ Handed(k, from, n).given = from + n
           /\ ~k.resent /\ k.given <= from => ~Handed(k, from, n).resent
  <1> DEFINE again == k.resent \/ k.given > from
  <1>1. Handed(k, from, n) = [k EXCEPT !.given = from + n, !.resent = again]
    BY DEF Handed
  <1>2. again \in BOOLEAN
    OBVIOUS
  <1>3. k.given \in Nat /\ MaxSend \in Nat
    BY BoundAssumption DEF IoFields
  <1>4. ~k.resent /\ k.given <= from => ~again
    BY <1>3
  <1> HIDE DEF again
  <1> QED
    BY <1>1, <1>2, <1>4 DEF IoFields

LEMMA PendingKeeps ==
    ASSUME NEW k \in IoFields
    PROVE  /\ Pending(k) \in IoFields /\ Pending(k).reads = k.reads /\ Pending(k).open = k.open
           /\ Pending(k).modified = k.modified /\ Pending(k).pended
  <1> DEFINE yes == TRUE
  <1>1. Pending(k) = [k EXCEPT !.writes = k.writes + 1, !.pended = yes]
    BY DEF Pending
  <1>2. yes \in BOOLEAN /\ yes
    OBVIOUS
  <1> HIDE DEF yes
  <1>3. Pending(k) \in IoFields
    <2>1. k.writes + 1 \in Nat
      BY DEF IoFields
    <2>2. \A w \in Nat, b \in BOOLEAN : [k EXCEPT !.writes = w, !.pended = b] \in IoFields
      BY DEF IoFields
    <2> QED
      BY <1>1, <1>2, <2>1, <2>2
  <1>4. /\ Pending(k).reads = k.reads /\ Pending(k).open = k.open
        /\ Pending(k).modified = k.modified /\ Pending(k).pended = yes
    BY <1>1 DEF IoFields
  <1> QED
    BY <1>2, <1>3, <1>4

LEMMA SendNowFollows ==
    ASSUME NEW q \in Port, NEW x, GoodHalf(x, q), ~x.ev.is_end, NEW n \in 1 .. Buffered(x.ev)
    PROVE  /\ Follows(x, SendNow(x, n).x, q) /\ SendNow(x, n).ok = TRUE
           /\ Idle(x, q) => Idle(SendNow(x, n).x, q)
  <1> DEFINE e == Drained(x.ev, n)
             k == Handed(x.io, x.ev.drained, n)
             out == Append(x.out, PacketOf(x, "write", 0))
             y == [x EXCEPT !.ev = e, !.io = k, !.out = out]
  <1>1. /\ x \in Half /\ x.ev \in EventFields /\ x.io \in IoFields
        /\ Good(x.sock, x.ev, x.io, q \o x.out)
    BY DEF GoodHalf, Half
  <1>2. SendNow(x, n) = Outcome(y, TRUE)
    BY DEF SendNow
  <1>3. /\ out \in Port /\ \A i \in 1 .. Len(out) : out[i].sock = x.sock
        /\ \A f : EndedLast(x.sock, f, q \o out)
        /\ \A h : h.reads = x.io.reads /\ OneReadAt(x.sock, x.io, q \o x.out) =>
               OneReadAt(x.sock, h, q \o out)
        /\ \A h : h.reads = x.io.reads /\ h.modified = x.io.modified /\ Idle(x, q) =>
               IdleAt(x.sock, h, q \o out)
    BY WritePacketOut
  <1>4. /\ x.ev.drained \in Nat /\ x.ev.submitted \in 0 .. MaxSend /\ MaxSend \in Nat /\ n \in Nat
        /\ x.ev.drained + n <= x.ev.submitted /\ x.ev.drained + n \in 0 .. MaxSend
    BY <1>1, FieldsOfEvent DEF Buffered
  <1>5. /\ e \in EventFields /\ e.drained = x.ev.drained + n
        /\ e.submitted = x.ev.submitted /\ e.is_end = x.ev.is_end
    BY <1>1, <1>4, EventDrained
  <1>6. /\ k \in IoFields /\ k.reads = x.io.reads /\ k.writes = x.io.writes
        /\ k.open = x.io.open /\ k.modified = x.io.modified /\ k.pended = x.io.pended
        /\ k.given = x.ev.drained + n
        /\ ~x.io.resent /\ x.io.given <= x.ev.drained => ~k.resent
    BY <1>1, <1>4, HandedOver
  <1> HIDE DEF e, k, out
  <1>7. y \in Half /\ y.sock = x.sock /\ y.ev = e /\ y.io = k /\ y.out = out
    BY <1>1, <1>3, <1>5, <1>6 DEF Half
  <1> HIDE DEF y
  <1>8. SideOK(e, k)
    BY <1>1, <1>4, <1>5, <1>6 DEF Good, SideOK
  <1>9. Good(x.sock, e, k, q \o out)
    BY <1>1, <1>3, <1>4, <1>5, <1>6, <1>8 DEF Good
  <1>10. Idle(x, q) => Idle(y, q)
    BY <1>3, <1>6, <1>7 DEF Idle
  <1>11. SendNow(x, n).x = y /\ SendNow(x, n).ok = TRUE
    BY <1>2, Outcomes
  <1> QED
    BY <1>3, <1>6, <1>7, <1>9, <1>10, <1>11 DEF Follows, GoodHalf

LEMMA SendPendingFollows ==
    ASSUME NEW q \in Port, NEW x, GoodHalf(x, q), ~x.ev.is_end, Buffered(x.ev) # 0
    PROVE  /\ Follows(x, SendPending(x).x, q) /\ SendPending(x).ok = TRUE
           /\ Idle(x, q) => Idle(SendPending(x).x, q)
  <1> DEFINE n == slice2buf(Buffered(x.ev))
             h == Handed(x.io, x.ev.drained, n)
             k == Pending(h)
             y == [x EXCEPT !.io = k]
  <1>1. /\ x \in Half /\ x.ev \in EventFields /\ x.io \in IoFields
        /\ Good(x.sock, x.ev, x.io, q \o x.out)
        /\ \A i \in 1 .. Len(x.out) : x.out[i].sock = x.sock
    BY DEF GoodHalf, Half
  <1>2. SendPending(x) = Outcome(y, TRUE)
    BY DEF SendPending
  <1>3. /\ x.ev.drained \in Nat /\ MaxSend \in Nat /\ n \in Nat
        /\ x.ev.drained + n \in 0 .. MaxSend
    <2>1. /\ x.ev.drained \in Nat /\ x.ev.submitted \in 0 .. MaxSend /\ MaxSend \in Nat
          /\ Buffered(x.ev) \in Nat \ {0}
          /\ x.ev.drained + Buffered(x.ev) = x.ev.submitted
      <3>1. x.ev.drained <= x.ev.submitted
        BY <1>1 DEF Good
      <3>2. x.ev.drained \in 0 .. MaxSend /\ x.ev.submitted \in 0 .. MaxSend /\ MaxSend \in Nat
        BY <1>1, FieldsOfEvent
      <3>3. Buffered(x.ev) = x.ev.submitted - x.ev.drained
        BY DEF Buffered
      <3> QED
        BY <3>1, <3>2, <3>3
    <2>2. n \in 1 .. Buffered(x.ev)
      BY <2>1, PendingSends
    <2> HIDE DEF n
    <2> QED
      BY <2>1, <2>2
  <1> HIDE DEF n
  <1>4. h \in IoFields /\ h.reads = x.io.reads /\ h.open = x.io.open /\ h.modified = x.io.modified
    BY <1>1, <1>3, HandedOver
  <1> HIDE DEF h
  <1>5. /\ k \in IoFields /\ k.reads = x.io.reads /\ k.modified = x.io.modified /\ k.pended
    BY <1>4, PendingKeeps
  <1> HIDE DEF k
  <1>6. y \in Half /\ y.sock = x.sock /\ y.ev = x.ev /\ y.io = k /\ y.out = x.out
    BY <1>1, <1>5 DEF Half
  <1> HIDE DEF y
  <1>7. Good(x.sock, x.ev, k, q \o x.out)
    BY <1>1, <1>5 DEF Good, SideOK, OneReadAt
  <1>8. Idle(x, q) => Idle(y, q)
    BY <1>5, <1>6 DEF Idle, IdleAt
  <1>9. SendPending(x).x = y /\ SendPending(x).ok = TRUE
    BY <1>2, Outcomes
  <1> QED
    BY <1>1, <1>5, <1>6, <1>7, <1>8, <1>9 DEF Follows, GoodHalf

LEMMA PostWriteFollows ==
    ASSUME NEW q \in Port, NEW x, GoodHalf(x, q), NEW o \in post_write_event(x)
    PROVE  Follows(x, o.x, q) /\ o.ok \in BOOLEAN /\ (Idle(x, q) => Idle(o.x, q))
  <1>1. CASE o.x = x /\ o.ok \in BOOLEAN
    BY <1>1, HalfStays
  <1>2. CASE ~x.ev.is_end /\ Buffered(x.ev) # 0
    <2>1. x.ev \in EventFields /\ x.io \in IoFields /\ Buffered(x.ev) \in Nat /\ x.io.broken \in BOOLEAN
      BY FieldsOfEvent DEF GoodHalf, Half, Good, Buffered, IoFields
    <2>2. CASE o = Outcome(x, TRUE)
      BY <2>2, <1>1, Outcomes
    <2>3. CASE o # Outcome(x, TRUE)
      <3>1. PICK r \in write_overlapped(Buffered(x.ev), x.io.broken, MayPend) : o = Sent(x, r)
        BY <2>3 DEF post_write_event
      <3>2. CASE ~r.ok
        BY <1>1, <3>1, <3>2, Outcomes DEF Sent
      <3>3. CASE r.ok /\ r.v = None
        BY <1>2, <3>1, <3>3, SendPendingFollows DEF Sent
      <3>4. CASE r.ok /\ r.v # None
        <4>1. r.v[1] \in 1 .. Buffered(x.ev)
          BY <2>1, <3>4, WriteResults, BoundAssumption
        <4>2. o = SendNow(x, r.v[1])
          BY <3>1, <3>4 DEF Sent
        <4> QED
          BY <1>2, <4>1, <4>2, SendNowFollows
      <3> QED
        BY <3>2, <3>3, <3>4
    <2> QED
      BY <2>2, <2>3
  <1>3. x.ev.is_end \/ Buffered(x.ev) = 0 => o = Outcome(x, TRUE)
    BY DEF post_write_event
  <1> QED
    BY <1>1, <1>2, <1>3, Outcomes

LEMMA Repeated ==
    ASSUME NEW n \in Nat, NEW d \in PacketFields, NEW a, a = [i \in 1 .. n |-> d]
    PROVE  a \in Port /\ Len(a) = n /\ \A i \in 1 .. Len(a) : a[i] = d
  <1>1. a \in [1 .. n -> PacketFields]
    OBVIOUS
  <1>2. a \in Port
    BY <1>1, SeqDef DEF Port
  <1>3. Len(a) \in Nat /\ 1 .. Len(a) = 1 .. n
    BY <1>1, <1>2, LenProperties DEF Port
  <1>4. Len(a) = n
    BY <1>3
  <1> QED
    BY <1>2, <1>4

LEMMA EventEnds ==
    ASSUME NEW e \in EventFields, NEW f, f = [e EXCEPT !.is_end = TRUE]
    PROVE  f \in EventFields /\ f.is_end /\ f.drained = e.drained /\ f.submitted = e.submitted
  <1>1. \A b \in BOOLEAN :
            /\ [e EXCEPT !.is_end = b] \in EventFields /\ [e EXCEPT !.is_end = b].is_end = b
            /\ [e EXCEPT !.is_end = b].drained = e.drained
            /\ [e EXCEPT !.is_end = b].submitted = e.submitted
    BY DEF EventFields
  <1>2. f \in EventFields /\ f.is_end = TRUE /\ f.drained = e.drained /\ f.submitted = e.submitted
    BY <1>1
  <1> QED
    BY <1>2

LEMMA SideCloses ==
    ASSUME NEW k \in IoFields, NEW h, h = [k EXCEPT !.open = FALSE, !.reads = 0, !.writes = 0]
    PROVE  /\ h \in IoFields /\ ~h.open /\ h.reads = 0 /\ h.writes = 0 /\ h.given = k.given
           /\ h.resent = k.resent /\ h.pended = k.pended /\ h.modified = k.modified
  <1>1. \A b \in BOOLEAN, r \in Nat, w \in Nat :
            [k EXCEPT !.open = b, !.reads = r, !.writes = w] \in IoFields
    BY DEF IoFields
  <1>2. h \in IoFields
    BY <1>1
  <1>3. /\ h.open = FALSE /\ h.reads = 0 /\ h.writes = 0 /\ h.given = k.given
        /\ h.resent = k.resent /\ h.pended = k.pended /\ h.modified = k.modified
    BY DEF IoFields
  <1> QED
    BY <1>2, <1>3

(* What closing a socket sends to the port: the reads first, ENDED last. *)
LEMMA AbortedShape ==
    ASSUME NEW x \in Half, NEW z, z = EndedFor(x) \/ z = <<>>, NEW w, w = Aborted(x) \o z
    PROVE  /\ w \in Port
           /\ \A i \in 1 .. Len(w) :
                  /\ w[i].sock = x.sock
                  /\ w[i].kind = "read" => i <= x.io.reads
                  /\ w[i].kind = "ENDED" => i = Len(w)
  <1> DEFINE a == [i \in 1 .. x.io.reads |-> PacketOf(x, "read", 0)]
             b == [i \in 1 .. x.io.writes |-> PacketOf(x, "write", 0)]
  <1>1. x.io.reads \in Nat /\ x.io.writes \in Nat
    BY DEF Half, IoFields
  <1>2. /\ a \in Port /\ Len(a) = x.io.reads
        /\ \A i \in 1 .. Len(a) : a[i].sock = x.sock /\ a[i].kind = "read"
    <2>1. /\ PacketOf(x, "read", 0) \in PacketFields
          /\ PacketOf(x, "read", 0).sock = x.sock /\ PacketOf(x, "read", 0).kind = "read"
      BY PacketsAre
    <2>2. a \in Port /\ Len(a) = x.io.reads /\ \A i \in 1 .. Len(a) : a[i] = PacketOf(x, "read", 0)
      BY <1>1, <2>1, Repeated
    <2> HIDE DEF a
    <2> QED
      BY <2>1, <2>2
  <1>3. /\ b \in Port /\ Len(b) = x.io.writes
        /\ \A i \in 1 .. Len(b) : b[i].sock = x.sock /\ b[i].kind = "write"
    <2>1. /\ PacketOf(x, "write", 0) \in PacketFields
          /\ PacketOf(x, "write", 0).sock = x.sock /\ PacketOf(x, "write", 0).kind = "write"
      BY PacketsAre
    <2>2. b \in Port /\ Len(b) = x.io.writes /\ \A i \in 1 .. Len(b) : b[i] = PacketOf(x, "write", 0)
      BY <1>1, <2>1, Repeated
    <2> HIDE DEF b
    <2> QED
      BY <2>1, <2>2
  <1>4. /\ z \in Port /\ Len(z) \in {0, 1}
        /\ \A i \in 1 .. Len(z) : z[i].sock = x.sock /\ z[i].kind = "ENDED" /\ i = 1
    <2>1. CASE z = <<>>
      BY <2>1, EmptySeq DEF Port
    <2>2. CASE z = EndedFor(x)
      <3>1. PICK d : d = PacketOf(x, "ENDED", 0)
        OBVIOUS
      <3>2. d \in PacketFields /\ d.sock = x.sock /\ d.kind = "ENDED"
        BY <3>1, PacketsAre
      <3>3. z = <<d>>
        BY <2>2, <3>1 DEF EndedFor
      <3>4. z \in Port /\ Len(z) = 1 /\ z[1] = d
        BY <3>2, <3>3 DEF Port
      <3> QED
        BY <3>2, <3>4
    <2> QED
      BY <2>1, <2>2
  <1>5. w = (a \o b) \o z
    BY DEF Aborted
  <1> HIDE DEF a, b
  <1>6. /\ a \o b \in Port /\ Len(a \o b) = x.io.reads + x.io.writes
        /\ \A i \in 1 .. Len(a \o b) :
               /\ (a \o b)[i].sock = x.sock
               /\ (a \o b)[i].kind \in {"read", "write"}
               /\ (a \o b)[i].kind = "read" => i <= x.io.reads
    <2>1. /\ a \o b \in Port /\ Len(a \o b) = Len(a) + Len(b)
          /\ \A i \in 1 .. Len(a \o b) :
                 \/ i \in 1 .. Len(a) /\ (a \o b)[i] = a[i]
                 \/ i - Len(a) \in 1 .. Len(b) /\ (a \o b)[i] = b[i - Len(a)]
      BY <1>2, <1>3, ConcatShape
    <2> QED
      BY <1>1, <1>2, <1>3, <2>1
  <1>7. PICK c : c = a \o b
    OBVIOUS
  <1>8. /\ c \in Port /\ w = c \o z /\ Len(c) = x.io.reads + x.io.writes
        /\ \A i \in 1 .. Len(c) :
               /\ c[i].sock = x.sock
               /\ c[i].kind \in {"read", "write"}
               /\ c[i].kind = "read" => i <= x.io.reads
    BY <1>5, <1>6, <1>7, Zenon
  <1>9. /\ w \in Port /\ Len(w) = Len(c) + Len(z) /\ Len(c) \in Nat
        /\ \A i \in 1 .. Len(w) :
               \/ i \in 1 .. Len(c) /\ w[i] = c[i]
               \/ i > Len(c) /\ i - Len(c) \in 1 .. Len(z) /\ w[i] = z[i - Len(c)]
    <2>1. /\ c \o z \in Port /\ Len(c) \in Nat
          /\ Len(c \o z) = Len(c) + Len(z)
          /\ \A i \in 1 .. Len(c \o z) :
                 \/ i \in 1 .. Len(c) /\ (c \o z)[i] = c[i]
                 \/ i > Len(c) /\ i - Len(c) \in 1 .. Len(z) /\ (c \o z)[i] = z[i - Len(c)]
      BY <1>4, <1>8, ConcatShape
    <2> QED
      BY <1>8, <2>1, Zenon
  <1>10. \A i \in 1 .. Len(w) :
            /\ w[i].sock = x.sock
            /\ w[i].kind = "read" => i <= x.io.reads
            /\ w[i].kind = "ENDED" => i = Len(w)
    <2> SUFFICES ASSUME NEW i \in 1 .. Len(w)
                 PROVE  /\ w[i].sock = x.sock
                        /\ w[i].kind = "read" => i <= x.io.reads
                        /\ w[i].kind = "ENDED" => i = Len(w)
      OBVIOUS
    <2>1. CASE i \in 1 .. Len(c) /\ w[i] = c[i]
      <3>1. /\ c[i].sock = x.sock
            /\ c[i].kind \in {"read", "write"}
            /\ c[i].kind = "read" => i <= x.io.reads
        BY <1>8, <2>1
      <3>2. c[i].kind # "ENDED"
        BY <3>1
      <3> QED
        BY <2>1, <3>1, <3>2, Zenon
    <2>2. CASE i > Len(c) /\ i - Len(c) \in 1 .. Len(z) /\ w[i] = z[i - Len(c)]
      <3>1. /\ z[i - Len(c)].sock = x.sock /\ z[i - Len(c)].kind = "ENDED"
            /\ i - Len(c) = 1
        BY <1>4, <2>2, Zenon
      <3>2. w[i].sock = x.sock /\ w[i].kind = "ENDED"
        BY <2>2, <3>1, Zenon
      <3>3. i = Len(w)
        BY <1>4, <1>9, <2>2, <3>1, SMT
      <3> QED
        BY <3>2, <3>3
    <2> QED
      BY <1>9, <2>1, <2>2, Zenon
  <1> QED
    BY <1>9, <1>10

LEMMA UnregisterFollows ==
    ASSUME NEW q \in Port, NEW x, GoodHalf(x, q), NEW o \in unregister_socket(x)
    PROVE  Follows(x, o.x, q) /\ o.ok \in BOOLEAN /\ (Idle(x, q) => Idle(o.x, q))
  <1>1. CASE x.ev.is_end
    BY <1>1, HalfStays, Outcomes DEF unregister_socket
  <1>2. CASE ~x.ev.is_end
    <2> DEFINE p == q \o x.out
    <2>1. PICK r \in post_info(PostFails) :
              o = Outcome(Closed(x, Aborted(x) \o IF r.ok THEN EndedFor(x) ELSE <<>>), r.ok)
      BY <1>2 DEF unregister_socket
    <2> DEFINE z == IF r.ok THEN EndedFor(x) ELSE <<>>
    <2>2. PICK w : w = Aborted(x) \o z
      OBVIOUS
    <2>3. o.x = Closed(x, w) /\ o.ok \in BOOLEAN
      BY <2>1, <2>2, Outcomes, Results
    <2>4. /\ x \in Half /\ x.ev \in EventFields /\ x.io \in IoFields /\ x.out \in Port
          /\ Good(x.sock, x.ev, x.io, p) /\ p \in Port /\ Len(p) \in Nat
          /\ \A i \in 1 .. Len(x.out) : x.out[i].sock = x.sock
      BY HalfStays DEF GoodHalf, Half
    <2>5. /\ w \in Port
          /\ \A i \in 1 .. Len(w) :
                 /\ w[i].sock = x.sock
                 /\ w[i].kind = "read" => i <= x.io.reads
                 /\ w[i].kind = "ENDED" => i = Len(w)
      <3>1. z = EndedFor(x) \/ z = <<>>
        OBVIOUS
      <3> HIDE DEF z
      <3> QED
        <4>1. \A v : v = Aborted(x) \o z =>
                  /\ v \in Port
                  /\ \A i \in 1 .. Len(v) :
                         /\ v[i].sock = x.sock
                         /\ v[i].kind = "read" => i <= x.io.reads
                         /\ v[i].kind = "ENDED" => i = Len(v)
          BY <2>4, <3>1, AbortedShape, Zenon
        <4> QED
          BY <2>2, <4>1, Zenon
    <2>6. /\ x.out \o w \in Port /\ q \o (x.out \o w) = p \o w
          /\ \A i \in 1 .. Len(x.out \o w) : (x.out \o w)[i].sock = x.sock
      <3>1. \A i \in 1 .. Len(w) : w[i].sock = x.sock
        BY <2>5
      <3>2. /\ x.out \o w \in Port /\ q \o (x.out \o w) = (q \o x.out) \o w
            /\ \A i \in 1 .. Len(x.out \o w) : (x.out \o w)[i].sock = x.sock
        BY <2>4, <2>5, <3>1, OutGrows
      <3> QED
        BY <3>2
    <2>7. /\ Len(w) \in Nat /\ Len(p \o w) = Len(p) + Len(w)
          /\ \A i \in 1 .. Len(p \o w) :
                 \/ i \in 1 .. Len(p) /\ (p \o w)[i] = p[i]
                 \/ /\ i > Len(p) /\ i - Len(p) \in 1 .. Len(w)
                    /\ (p \o w)[i] = w[i - Len(p)]
      BY <2>4, <2>5, ConcatShape
    <2>8. PICK y : y = o.x
      OBVIOUS
    <2>9. /\ y.sock = x.sock /\ y.out = x.out \o w
          /\ y.ev = [x.ev EXCEPT !.is_end = TRUE]
          /\ y.io = [x.io EXCEPT !.open = FALSE, !.reads = 0, !.writes = 0]
          /\ y \in [sock : Sock, ev : {y.ev}, io : {y.io}, out : {y.out}]
      BY <2>3, <2>4, <2>8 DEF Closed, Half
    <2>10. /\ y.ev \in EventFields /\ y.ev.is_end /\ y.ev.drained = x.ev.drained
           /\ y.ev.submitted = x.ev.submitted
      BY <2>4, <2>9, EventEnds
    <2>11. /\ y.io \in IoFields /\ ~y.io.open /\ y.io.reads = 0 /\ y.io.writes = 0
           /\ y.io.given = x.io.given /\ y.io.resent = x.io.resent /\ y.io.pended = x.io.pended
           /\ y.io.modified = x.io.modified
      BY <2>4, <2>9, SideCloses
    <2> HIDE DEF p
    <2>12. EndedLast(x.sock, y.ev, p \o w)
      <3>1. \A i \in 1 .. Len(p) : ~(p[i].sock = x.sock /\ p[i].kind = "ENDED")
        BY <1>2, <2>4 DEF Good, EndedLast
      <3>2. \A i \in 1 .. Len(p \o w) :
                (p \o w)[i].sock = x.sock /\ (p \o w)[i].kind = "ENDED" => i = Len(p \o w)
        BY <2>4, <2>5, <2>7, <3>1
      <3> QED
        BY <2>4, <2>7, <2>10, <3>2 DEF EndedLast
    <2>13. OneReadAt(x.sock, x.io, p) => OneReadAt(x.sock, y.io, p \o w)
      <3> SUFFICES ASSUME OneReadAt(x.sock, x.io, p),
                          NEW i \in 1 .. Len(p \o w), NEW j \in 1 .. Len(p \o w),
                          IsRead(x.sock, (p \o w)[i]), IsRead(x.sock, (p \o w)[j])
                   PROVE  i = j
        BY <2>11 DEF OneReadAt
      <3>1. x.io.reads \in {0, 1}
        BY <2>4 DEF OneReadAt, IoFields
      <3>2. CASE x.io.reads = 0
        <4>1. i \in 1 .. Len(p) /\ j \in 1 .. Len(p) /\ IsRead(x.sock, p[i]) /\ IsRead(x.sock, p[j])
          BY <2>4, <2>5, <2>7, <3>2 DEF IsRead
        <4> QED
          BY <4>1 DEF OneReadAt
      <3>3. CASE x.io.reads = 1
        <4>1. \A l \in 1 .. Len(p) : ~IsRead(x.sock, p[l])
          BY <3>3 DEF OneReadAt
        <4>2. i = Len(p) + 1 /\ j = Len(p) + 1
          BY <2>4, <2>5, <2>7, <3>3, <4>1 DEF IsRead
        <4> QED
          BY <4>2
      <3> QED
        BY <3>1, <3>2, <3>3
    <2>14. IdleAt(x.sock, x.io, p) => IdleAt(x.sock, y.io, p \o w)
      <3> SUFFICES ASSUME x.io.reads = 0, \A i \in 1 .. Len(p) : ~IsRead(x.sock, p[i]),
                          NEW i \in 1 .. Len(p \o w)
                   PROVE  ~IsRead(x.sock, (p \o w)[i])
        BY <2>11 DEF IdleAt
      <3> QED
        BY <2>4, <2>5, <2>7 DEF IsRead
    <2>15. SideOK(y.ev, y.io)
      BY <2>4, <2>10, <2>11 DEF Good, SideOK
    <2>16. Good(x.sock, y.ev, y.io, p \o w)
      BY <2>4, <2>10, <2>11, <2>12, <2>13, <2>15 DEF Good
    <2>17. y \in Half
      BY <2>4, <2>6, <2>9, <2>10, <2>11 DEF Half
    <2> QED
      BY <2>3, <2>6, <2>8, <2>9, <2>11, <2>14, <2>16, <2>17 DEF Follows, GoodHalf, Idle, p
  <1> QED
    BY <1>1, <1>2

LEMMA OrUnregisterFollows ==
    ASSUME NEW q \in Port, NEW o, GoodHalf(o.x, q), o.ok \in BOOLEAN, NEW u \in OrUnregister(o)
    PROVE  Follows(o.x, u.x, q) /\ u.ok \in BOOLEAN /\ (Idle(o.x, q) => Idle(u.x, q))
  <1>1. CASE o.ok
    BY <1>1, HalfStays DEF OrUnregister
  <1>2. CASE ~o.ok
    BY <1>2, UnregisterFollows DEF OrUnregister
  <1> QED
    BY <1>1, <1>2

LEMMA CheckFollows ==
    ASSUME NEW q \in Port, NEW x, GoodHalf(x, q), Idle(x, q), NEW o \in check_socket_event(x)
    PROVE  Follows(x, o.x, q) /\ o.ok \in BOOLEAN
  <1>1. CASE "ACCEPT" \in x.ev.flags
    BY <1>1, PostAcceptFollows DEF check_socket_event
  <1>2. CASE "ACCEPT" \notin x.ev.flags
    <2>1. PICK a \in IF "READ" \in x.ev.flags THEN post_read_event(x) ELSE {Outcome(x, TRUE)} :
              o \in IF a.ok /\ "WRITE" \in x.ev.flags THEN post_write_event(a.x) ELSE {a}
      BY <1>2 DEF check_socket_event
    <2>2. Follows(x, a.x, q) /\ a.ok \in BOOLEAN
      <3>1. CASE a \in post_read_event(x)
        BY <3>1, PostReadFollows
      <3>2. CASE a = Outcome(x, TRUE)
        BY <3>2, HalfStays, Outcomes
      <3> QED
        BY <2>1, <3>1, <3>2
    <2>3. CASE o = a
      BY <2>2, <2>3
    <2>4. CASE o \in post_write_event(a.x)
      <3>1. Follows(a.x, o.x, q) /\ o.ok \in BOOLEAN
        BY <2>2, <2>4, PostWriteFollows DEF Follows
      <3> QED
        BY <2>2, <3>1 DEF Follows
    <2> QED
      BY <2>1, <2>3, <2>4
  <1> QED
    BY <1>1, <1>2

(* When nothing is buffered, a failing check has posted nothing. *)
LEMMA CheckFails ==
    ASSUME NEW q \in Port, NEW x, GoodHalf(x, q), Idle(x, q), Buffered(x.ev) = 0,
           NEW o \in check_socket_event(x), ~o.ok
    PROVE  o.x.out = x.out /\ o.x.io.reads = x.io.reads /\ o.x.io.writes = x.io.writes
  <1> USE DEF Reads, Outcome
  <1>1. CASE "ACCEPT" \in x.ev.flags
    <2>1. o \in post_accept_event(x)
      BY <1>1 DEF check_socket_event
    <2>2. CASE o.x = x
      BY <2>2
    <2>3. CASE o.x # x
      <3> DEFINE y == [x EXCEPT !.ev.accept_socket = TRUE]
      <3>1. PICK r \in accept_overlapped : o = Reads(y, r.ok)
        BY <2>1, <2>3 DEF post_accept_event
      <3>2. o.x = y
        <4>1. r.ok \in BOOLEAN
          BY Results
        <4> HIDE DEF y
        <4> QED
          BY <3>1, <4>1
      <3>3. y.out = x.out /\ y.io = x.io
        BY DEF GoodHalf, Half
      <3> QED
        BY <3>2, <3>3
    <2> QED
      BY <2>2, <2>3
  <1>2. CASE "ACCEPT" \notin x.ev.flags
    <2>1. PICK a \in IF "READ" \in x.ev.flags THEN post_read_event(x) ELSE {Outcome(x, TRUE)} :
              o \in IF a.ok /\ "WRITE" \in x.ev.flags THEN post_write_event(a.x) ELSE {a}
      BY <1>2 DEF check_socket_event
    <2>2. a.x.ev = x.ev /\ (a.ok \/ a.x = x)
      <3>1. CASE a = Outcome(x, TRUE)
        BY <3>1
      <3>2. CASE a # Outcome(x, TRUE)
        <4>1. PICK r \in read_overlapped : a = Reads(x, r.ok)
          BY <2>1, <3>2 DEF post_read_event
        <4>2. CASE r.ok
          BY <4>1, <4>2 DEF GoodHalf, Half
        <4>3. CASE ~r.ok
          BY <4>1, <4>3
        <4> QED
          BY <4>2, <4>3
      <3> QED
        BY <3>1, <3>2
    <2>3. CASE o = a
      BY <2>2, <2>3
    <2>4. CASE o \in post_write_event(a.x)
      BY <2>2, <2>4 DEF post_write_event, Buffered
    <2> QED
      BY <2>1, <2>3, <2>4
  <1> QED
    BY <1>1, <1>2

-----------------------------------------------------------------------------
(* From one socket to the state. *)

(* What the sockets other than t see of a step from port q. *)
OthersKeep(t, q) ==
    \A s \in Sock \ {t} :
        /\ ev'[s] = ev[s] /\ io'[s] = io[s]
        /\ Good(s, ev[s], io[s], q) => Good(s, ev'[s], io'[s], port')
        /\ IdleAt(s, io[s], q) => IdleAt(s, io'[s], port')
        /\ (\A i \in 1 .. Len(q) : q[i].sock # s) => \A i \in 1 .. Len(port') : port'[i].sock # s

LEMMA BecomesKeeps ==
    ASSUME ev \in [Sock -> EventFields], io \in [Sock -> IoFields],
           NEW q \in Port, NEW x, GoodHalf(x, q), Becomes(x, q)
    PROVE  /\ ev' \in [Sock -> EventFields] /\ io' \in [Sock -> IoFields] /\ port' \in Port
           /\ x.sock \in Sock /\ ev'[x.sock] = x.ev /\ io'[x.sock] = x.io
           /\ Good(x.sock, ev'[x.sock], io'[x.sock], port')
           /\ Idle(x, q) => IdleAt(x.sock, io'[x.sock], port')
           /\ OthersKeep(x.sock, q)
  <1>1. /\ x.sock \in Sock /\ x.ev \in EventFields /\ x.io \in IoFields /\ x.out \in Port
        /\ \A i \in 1 .. Len(x.out) : x.out[i].sock = x.sock
        /\ Good(x.sock, x.ev, x.io, q \o x.out)
    BY DEF GoodHalf, Half
  <1>2. /\ ev' \in [Sock -> EventFields] /\ io' \in [Sock -> IoFields]
        /\ ev'[x.sock] = x.ev /\ io'[x.sock] = x.io
        /\ \A s \in Sock \ {x.sock} : ev'[s] = ev[s] /\ io'[s] = io[s]
    BY <1>1 DEF Becomes
  <1>3. port' = q \o x.out
    BY DEF Becomes
  <1>4. port' \in Port
    BY <1>1, <1>3, ConcatShape
  <1>5. OthersKeep(x.sock, q)
    <2> SUFFICES ASSUME NEW s \in Sock \ {x.sock}
                 PROVE  /\ Good(s, ev[s], io[s], q) => Good(s, ev'[s], io'[s], port')
                        /\ IdleAt(s, io[s], q) => IdleAt(s, io'[s], port')
                        /\ (\A i \in 1 .. Len(q) : q[i].sock # s) =>
                               \A i \in 1 .. Len(port') : port'[i].sock # s
      BY <1>2 DEF OthersKeep
    <2>1. \A i \in 1 .. Len(x.out) : x.out[i].sock # s
      BY <1>1
    <2>2. /\ Good(s, ev[s], io[s], q) => Good(s, ev[s], io[s], q \o x.out)
          /\ IdleAt(s, io[s], q) => IdleAt(s, io[s], q \o x.out)
      BY <1>1, <2>1, OthersAppend
    <2>3. \A i \in 1 .. Len(q \o x.out) :
              \/ i \in 1 .. Len(q) /\ (q \o x.out)[i] = q[i]
              \/ i - Len(q) \in 1 .. Len(x.out) /\ (q \o x.out)[i] = x.out[i - Len(q)]
      BY <1>1, ConcatShape
    <2>4. (\A i \in 1 .. Len(q) : q[i].sock # s) =>
              \A i \in 1 .. Len(q \o x.out) : (q \o x.out)[i].sock # s
      BY <2>1, <2>3, Zenon
    <2> QED
      BY <1>2, <1>3, <2>2, <2>4
  <1> QED
    BY <1>1, <1>2, <1>3, <1>4, <1>5 DEF Idle

(* The port before a step handles its first packet, or after. *)
Moved(q) == q = port \/ (port # <<>> /\ q = Tail(port))

LEMMA MovedPort ==
    ASSUME IocpInv, NEW q, Moved(q)
    PROVE  /\ q \in Port
           /\ \A s \in Sock :
                  /\ Good(s, ev[s], io[s], q)
                  /\ IdleAt(s, io[s], port) => IdleAt(s, io[s], q)
                  /\ (\A i \in 1 .. Len(port) : port[i].sock # s) => \A i \in 1 .. Len(q) : q[i].sock # s
  <1>1. port \in Port /\ \A s \in Sock : Good(s, ev[s], io[s], port)
    BY DEF IocpInv, Shape
  <1>2. CASE q = port
    BY <1>1, <1>2
  <1>3. CASE port # <<>> /\ q = Tail(port)
    BY <1>1, <1>3, TailKeeps, TailShape
  <1> QED
    BY <1>2, <1>3 DEF Moved

LEMMA HalfMade ==
    ASSUME NEW q \in Port, NEW s \in Sock, NEW e \in EventFields, NEW k \in IoFields, Good(s, e, k, q),
           NEW x, x = [sock |-> s, ev |-> e, io |-> k, out |-> <<>>]
    PROVE  /\ GoodHalf(x, q) /\ x.sock = s /\ x.ev = e /\ x.io = k
           /\ Idle(x, q) <=> IdleAt(s, k, q)
  <1>1. x.sock = s /\ x.ev = e /\ x.io = k /\ x.out = <<>>
    OBVIOUS
  <1>2. q \o <<>> = q /\ <<>> \in Port /\ Len(<<>>) = 0
    BY ConcatEmptySeq, EmptySeq DEF Port
  <1>3. x \in Half
    BY <1>2 DEF Half
  <1> QED
    BY <1>1, <1>2, <1>3 DEF GoodHalf, Idle

LEMMA SocketMade ==
    ASSUME IocpInv, NEW q, Moved(q), NEW s \in Sock
    PROVE  /\ q \in Port /\ GoodHalf(Socket(s), q)
           /\ Socket(s).sock = s /\ Socket(s).ev = ev[s] /\ Socket(s).io = io[s]
           /\ Idle(Socket(s), q) <=> IdleAt(s, io[s], q)
           /\ IdleAt(s, io[s], port) => Idle(Socket(s), q)
  <1>1. ev[s] \in EventFields /\ io[s] \in IoFields
    BY DEF IocpInv, Shape
  <1>2. /\ q \in Port /\ Good(s, ev[s], io[s], q)
        /\ IdleAt(s, io[s], port) => IdleAt(s, io[s], q)
    BY MovedPort
  <1> QED
    BY <1>1, <1>2, HalfMade DEF Socket

LEMMA MappedSocket ==
    ASSUME IocpInv, NEW s \in Sock, InMap(s)
    PROVE  role[s] # "none" /\ s \notin ended /\ num[s] \in DOMAIN event_maps
  BY DEF IocpInv, MapOK, InMap, Registered

LEMMA MappedNumber ==
    ASSUME IocpInv, NEW n, Registered(n)
    PROVE  event_maps[n] \in Sock /\ InMap(event_maps[n]) /\ num[event_maps[n]] = n
  BY DEF IocpInv, Shape, MapOK, InMap, Registered

(* x is socket s as the state has it, but for its flags, for data that is new in
   its buffer, or for a mark of history: where a method begins. *)
Begins(x, s) ==
    /\ GoodHalf(x, port) /\ x.sock = s /\ x.out = <<>>
    /\ x.ev.is_end = ev[s].is_end
    /\ x.ev.is_in_read = ev[s].is_in_read /\ x.ev.is_in_write = ev[s].is_in_write
    /\ x.io.reads = io[s].reads /\ x.io.writes = io[s].writes
    /\ x.ev.accept_buf = ev[s].accept_buf /\ (io[s].modified => x.io.modified)

(* A method has come to x, and its outcome becomes the state. *)
LEMMA MethodStep ==
    ASSUME IocpInv, NEW q, Moved(q), NEW x, GoodHalf(x, q), InMap(x.sock), Becomes(x, q),
           UNCHANGED <<role, num, event_maps, ended>>, panicked' \in {panicked, TRUE},
           \/ running' = <<>>
           \/ running' = running /\ (IdleAt(x.sock, io[x.sock], q) => Idle(x, q))
           \/ \E kind \in {"accept", "read", "write"} :
                  /\ running' = <<[kind |-> kind, sock |-> x.sock]>>
                  /\ kind # "write" => Idle(x, q)
    PROVE  IocpInv'
  <1>1. /\ q \in Port
        /\ \A s \in Sock :
               /\ Good(s, ev[s], io[s], q)
               /\ IdleAt(s, io[s], port) => IdleAt(s, io[s], q)
               /\ (\A i \in 1 .. Len(port) : port[i].sock # s) => \A i \in 1 .. Len(q) : q[i].sock # s
    BY MovedPort
  <1>2. Shape
    BY DEF IocpInv
  <1>3. /\ ev' \in [Sock -> EventFields] /\ io' \in [Sock -> IoFields] /\ port' \in Port
        /\ x.sock \in Sock
        /\ Good(x.sock, ev'[x.sock], io'[x.sock], port')
        /\ Idle(x, q) => IdleAt(x.sock, io'[x.sock], port')
        /\ OthersKeep(x.sock, q)
    BY <1>1, <1>2, BecomesKeeps DEF Shape
  <1>4. Shape'
    <2>1. running' = <<>> \/ \E kind \in {"accept", "read", "write", "end"}, s \in Sock :
                                running' = <<[kind |-> kind, sock |-> s]>>
      BY <1>2, <1>3 DEF Shape
    <2> QED
      BY <1>2, <1>3, <2>1 DEF Shape
  <1>5. (\A s \in Sock : Good(s, ev[s], io[s], port))'
    <2>1. \A s \in Sock : Good(s, ev'[s], io'[s], port')
      BY <1>1, <1>3 DEF OthersKeep
    <2> QED
      BY <2>1
  <1>6. MapOK'
    BY DEF IocpInv, MapOK
  <1>7. Quiet'
    <2> SUFFICES ASSUME NEW s \in Sock, ~InMap(s)
                 PROVE  /\ io'[s].reads = 0 /\ io'[s].writes = 0
                        /\ \A i \in 1 .. Len(port') : port'[i].sock # s
      BY DEF Quiet, InMap, Registered
    <2>1. s # x.sock
      OBVIOUS
    <2>2. /\ io[s].reads = 0 /\ io[s].writes = 0
          /\ \A i \in 1 .. Len(port) : port[i].sock # s
      BY DEF IocpInv, Quiet
    <2> QED
      BY <1>1, <1>3, <2>1, <2>2 DEF OthersKeep
  <1>8. Fresh'
    <2> SUFFICES ASSUME NEW s \in Sock, role[s] = "none"
                 PROVE  ev'[s] = NoEvent /\ io'[s] = NoIo /\ s \notin ended
      BY DEF Fresh
    <2>1. s # x.sock
      BY <1>3, MappedSocket
    <2> QED
      BY <1>3, <2>1 DEF IocpInv, Fresh, OthersKeep
  <1>9. CallOK'
    <2>1. CASE running' = <<>>
      BY <2>1 DEF CallOK
    <2>2. CASE /\ running' = running /\ running # <<>>
               /\ IdleAt(x.sock, io[x.sock], q) => Idle(x, q)
      <3>1. Self \in Sock
        BY <1>2, <2>2 DEF Shape, Self
      <3>2. IdleAt(Self, io[Self], port) => IdleAt(Self, io'[Self], port')
        BY <1>1, <1>3, <2>2, <3>1 DEF OthersKeep
      <3> QED
        BY <2>2, <3>2 DEF IocpInv, CallOK, Self, InMap, Registered
    <2>3. CASE \E kind \in {"accept", "read", "write"} :
                  /\ running' = <<[kind |-> kind, sock |-> x.sock]>>
                  /\ kind # "write" => Idle(x, q)
      <3>1. PICK kind \in {"accept", "read", "write"} :
                /\ running' = <<[kind |-> kind, sock |-> x.sock]>>
                /\ kind # "write" => Idle(x, q)
        BY <2>3
      <3>2. /\ running'[1].kind = kind /\ running'[1].sock = x.sock
        BY <3>1
      <3>3. /\ role'[x.sock] # "none"
            /\ num'[x.sock] \in DOMAIN event_maps' /\ event_maps'[num'[x.sock]] = x.sock
        BY <1>3, MappedSocket DEF InMap, Registered
      <3> QED
        BY <1>3, <3>1, <3>2, <3>3 DEF CallOK, Self, InMap, Registered
    <2> QED
      BY <2>1, <2>2, <2>3
  <1> QED
    BY <1>4, <1>5, <1>6, <1>7, <1>8, <1>9 DEF IocpInv

-----------------------------------------------------------------------------
(* The methods that the program calls. *)

LEMMA NothingYet ==
    /\ NoEvent \in EventFields /\ NoIo \in IoFields
    /\ NoEvent.drained = 0 /\ NoEvent.submitted = 0 /\ NoEvent.is_end = FALSE /\ NoEvent.flags = {}
    /\ NoIo.reads = 0 /\ NoIo.writes = 0 /\ NoIo.given = 0
    /\ NoIo.resent = FALSE /\ NoIo.pended = FALSE /\ NoIo.modified = FALSE
    /\ \A s : \A p \in Port : (\A i \in 1 .. Len(p) : p[i].sock # s) =>
           Good(s, NoEvent, NoIo, p) /\ IdleAt(s, NoIo, p)
  <1>1. AcceptAddrsBuf \in AddrsBuf
    BY DEF AddrsBuf
  <1>2. /\ NoEvent \in EventFields
        /\ NoEvent.drained = 0 /\ NoEvent.submitted = 0 /\ NoEvent.is_end = FALSE
        /\ NoEvent.flags = {}
    BY <1>1, BoundAssumption DEF NoEvent, EventFields
  <1>3. /\ NoIo \in IoFields
        /\ NoIo.reads = 0 /\ NoIo.writes = 0 /\ NoIo.given = 0
        /\ NoIo.resent = FALSE /\ NoIo.pended = FALSE /\ NoIo.modified = FALSE
    BY BoundAssumption DEF NoIo, IoFields
  <1>4. SideOK(NoEvent, NoIo)
    BY <1>2, <1>3 DEF SideOK
  <1>5. \A s : \A p \in Port : (\A i \in 1 .. Len(p) : p[i].sock # s) =>
            /\ EndedLast(s, NoEvent, p) /\ OneReadAt(s, NoIo, p) /\ IdleAt(s, NoIo, p)
    BY <1>3 DEF EndedLast, OneReadAt, IdleAt, IsRead
  <1> QED
    BY <1>2, <1>3, <1>4, <1>5 DEF Good

LEMMA InitInv == Init => IocpInv
  <1> SUFFICES ASSUME Init PROVE IocpInv
    OBVIOUS
  <1>1. port \in Port /\ Len(port) = 0
    BY EmptySeq DEF Init, Port
  <1>2. \A s \in Sock : Good(s, ev[s], io[s], port)
    BY <1>1, NothingYet DEF Init
  <1>3. Shape
    BY <1>1, NothingYet DEF Init, Shape
  <1>4. MapOK
    BY DEF Init, MapOK
  <1>5. Quiet
    BY <1>1, NothingYet DEF Init, Quiet
  <1>6. Fresh
    BY DEF Init, Fresh
  <1>7. CallOK
    BY DEF Init, CallOK
  <1> QED
    BY <1>2, <1>3, <1>4, <1>5, <1>6, <1>7 DEF IocpInv

LEMMA ModifyComes ==
    ASSUME IocpInv, NEW n \in Num, modify_socket(n)
    PROVE  /\ UNCHANGED <<role, num, event_maps, running, panicked, ended>>
           /\ \E s \in Sock : \E x :
                  /\ InMap(s) /\ Begins(x, s) /\ x.io.modified /\ Idle(x, port)
                  /\ Buffered(x.ev) = Buffered(ev[s]) /\ x.io.broken = io[s].broken
                  /\ \E o \in check_socket_event(x) :
                     \E u \in OrUnregister(o) : Becomes(u.x, port)
  <1> DEFINE t == event_maps[n]
  <1>1. Registered(n) /\ UNCHANGED <<role, num, event_maps, running, panicked, ended>>
    BY DEF modify_socket
  <1>2. t \in Sock /\ InMap(t)
    BY <1>1, MappedNumber
  <1>3. PICK is_del \in BOOLEAN, arg \in ModFlags :
            \E o \in check_socket_event([Socket(t) EXCEPT
                        !.ev.flags = merge(@, is_del, arg), !.io.modified = TRUE]) :
            \E u \in OrUnregister(o) : Becomes(u.x, port)
    BY DEF modify_socket
  <1> HIDE DEF t
  <1>4. PICK x : x = [Socket(t) EXCEPT !.ev.flags = merge(@, is_del, arg), !.io.modified = TRUE]
    OBVIOUS
  <1>5. \E o \in check_socket_event(x) : \E u \in OrUnregister(o) : Becomes(u.x, port)
    BY <1>3, <1>4
  <1>6. port \in Port /\ ev[t] \in EventFields /\ io[t] \in IoFields /\ Good(t, ev[t], io[t], port)
    BY <1>2 DEF IocpInv, Shape
  <1>7. PICK e : e = [ev[t] EXCEPT !.flags = merge(ev[t].flags, is_del, arg)]
    OBVIOUS
  <1>8. PICK yes \in BOOLEAN : yes = TRUE
    OBVIOUS
  <1>9. PICK k : k = [io[t] EXCEPT !.modified = yes]
    OBVIOUS
  <1>10. /\ e \in EventFields /\ e.is_end = ev[t].is_end /\ e.drained = ev[t].drained
         /\ e.submitted = ev[t].submitted
         /\ e.is_in_read = ev[t].is_in_read /\ e.is_in_write = ev[t].is_in_write
         /\ e.accept_buf = ev[t].accept_buf
    <2>1. merge(ev[t].flags, is_del, arg) \in SUBSET Flag
      BY <1>6, FlagAssumption, FieldsOfEvent DEF merge, Flag
    <2> QED
      BY <1>6, <1>7, <2>1 DEF EventFields
  <1>11. /\ k \in IoFields /\ k.modified /\ k.open = io[t].open /\ k.reads = io[t].reads
         /\ k.writes = io[t].writes /\ k.pended = io[t].pended /\ k.given = io[t].given
         /\ k.resent = io[t].resent /\ k.broken = io[t].broken
    BY <1>6, <1>8, <1>9 DEF IoFields
  <1>12. Good(t, e, k, port)
    <2>1. EndedLast(t, e, port)
      BY <1>6, <1>10 DEF Good, EndedLast
    <2>2. SideOK(e, k)
      BY <1>6, <1>10, <1>11 DEF Good, SideOK
    <2> QED
      BY <1>6, <1>10, <1>11, <2>1, <2>2 DEF Good
  <1>13. x = [sock |-> t, ev |-> e, io |-> k, out |-> <<>>]
    BY <1>4, <1>7, <1>8, <1>9 DEF Socket
  <1>14. /\ GoodHalf(x, port) /\ x.sock = t /\ x.ev = e /\ x.io = k /\ x.out = <<>>
         /\ Idle(x, port)
    BY <1>2, <1>6, <1>10, <1>11, <1>12, <1>13, HalfMade DEF IdleAt
  <1>15. /\ Begins(x, t) /\ x.io.modified
         /\ Buffered(x.ev) = Buffered(ev[t]) /\ x.io.broken = io[t].broken
    BY <1>10, <1>11, <1>14 DEF Begins, Buffered
  <1> QED
    BY <1>1, <1>2, <1>5, <1>14, <1>15

LEMMA ModifyStep ==
    ASSUME IocpInv, NEW n \in Num, modify_socket(n)
    PROVE  IocpInv'
  <1>1. UNCHANGED <<role, num, event_maps, running, panicked, ended>>
    BY ModifyComes
  <1>2. PICK s \in Sock : \E x :
            /\ InMap(s) /\ Begins(x, s) /\ x.io.modified /\ Idle(x, port)
            /\ \E o \in check_socket_event(x) : \E u \in OrUnregister(o) : Becomes(u.x, port)
    BY ModifyComes
  <1>3. PICK x : /\ InMap(s) /\ Begins(x, s) /\ x.io.modified /\ Idle(x, port)
                 /\ \E o \in check_socket_event(x) :
                    \E u \in OrUnregister(o) : Becomes(u.x, port)
    BY <1>2
  <1>4. PICK o \in check_socket_event(x) : \E u \in OrUnregister(o) : Becomes(u.x, port)
    BY <1>3
  <1>5. PICK u \in OrUnregister(o) : Becomes(u.x, port)
    BY <1>4
  <1>6. port \in Port
    BY DEF IocpInv, Shape
  <1>7. Follows(x, o.x, port) /\ o.ok \in BOOLEAN
    BY <1>3, <1>4, <1>6, CheckFollows DEF Begins
  <1>8. Follows(o.x, u.x, port)
    BY <1>5, <1>6, <1>7, OrUnregisterFollows DEF Follows
  <1>9. GoodHalf(u.x, port) /\ u.x.sock = s /\ Idle(u.x, port)
    BY <1>3, <1>7, <1>8 DEF Begins, Follows, Idle, IdleAt
  <1> QED
    BY <1>1, <1>3, <1>5, <1>9, MethodStep DEF Moved

LEMMA SendComes ==
    ASSUME IocpInv, NEW n \in Num, send_socket(n)
    PROVE  /\ UNCHANGED <<role, num, event_maps, running, panicked, ended>>
           /\ \E s \in Sock : \E x :
                  /\ InMap(s) /\ Begins(x, s) /\ x.ev.flags = ev[s].flags
                  /\ IdleAt(s, io[s], port) => Idle(x, port)
                  /\ \E o \in post_write_event(x) : Becomes(o.x, port)
  <1> DEFINE t == event_maps[n]
  <1>1. Registered(n) /\ UNCHANGED <<role, num, event_maps, running, panicked, ended>>
    BY DEF send_socket
  <1>2. t \in Sock /\ InMap(t)
    BY <1>1, MappedNumber
  <1>3. PICK k \in 1 .. MaxSend - Socket(t).ev.submitted :
            \E o \in post_write_event([Socket(t) EXCEPT !.ev.submitted = @ + k]) : Becomes(o.x, port)
    BY DEF send_socket
  <1> HIDE DEF t
  <1>4. PICK x : x = [Socket(t) EXCEPT !.ev.submitted = @ + k]
    OBVIOUS
  <1>5. \E o \in post_write_event(x) : Becomes(o.x, port)
    BY <1>3, <1>4
  <1>6. port \in Port /\ ev[t] \in EventFields /\ io[t] \in IoFields /\ Good(t, ev[t], io[t], port)
    BY <1>2 DEF IocpInv, Shape
  <1>7. PICK e : e = [ev[t] EXCEPT !.submitted = ev[t].submitted + k]
    OBVIOUS
  <1>8. /\ e \in EventFields /\ e.is_end = ev[t].is_end /\ e.drained = ev[t].drained
        /\ e.submitted >= ev[t].submitted /\ e.flags = ev[t].flags
        /\ e.is_in_read = ev[t].is_in_read /\ e.is_in_write = ev[t].is_in_write
        /\ e.accept_buf = ev[t].accept_buf
    <2>1. ev[t].submitted \in 0 .. MaxSend /\ MaxSend \in Nat
      BY <1>6, FieldsOfEvent
    <2>2. k \in 1 .. MaxSend - ev[t].submitted
      BY <1>3 DEF Socket
    <2>3. ev[t].submitted + k \in 0 .. MaxSend /\ ev[t].submitted + k >= ev[t].submitted
      BY <2>1, <2>2
    <2>4. /\ e \in EventFields /\ e.is_end = ev[t].is_end /\ e.drained = ev[t].drained
          /\ e.submitted = ev[t].submitted + k /\ e.flags = ev[t].flags
          /\ e.is_in_read = ev[t].is_in_read /\ e.is_in_write = ev[t].is_in_write
          /\ e.accept_buf = ev[t].accept_buf
      BY <1>6, <1>7, <2>3 DEF EventFields
    <2> QED
      BY <2>3, <2>4
  <1>9. Good(t, e, io[t], port)
    BY <1>6, <1>8, SameEvent
  <1>10. x = [sock |-> t, ev |-> e, io |-> io[t], out |-> <<>>]
    BY <1>4, <1>7 DEF Socket
  <1>11. /\ GoodHalf(x, port) /\ x.sock = t /\ x.ev = e /\ x.io = io[t] /\ x.out = <<>>
         /\ IdleAt(t, io[t], port) => Idle(x, port)
    BY <1>2, <1>6, <1>8, <1>9, <1>10, HalfMade
  <1>12. Begins(x, t) /\ x.ev.flags = ev[t].flags
    BY <1>8, <1>11 DEF Begins
  <1> QED
    BY <1>1, <1>2, <1>5, <1>11, <1>12

LEMMA SendStep ==
    ASSUME IocpInv, NEW n \in Num, send_socket(n)
    PROVE  IocpInv'
  <1>1. UNCHANGED <<role, num, event_maps, running, panicked, ended>>
    BY SendComes
  <1>2. PICK s \in Sock : \E x :
            /\ InMap(s) /\ Begins(x, s) /\ (IdleAt(s, io[s], port) => Idle(x, port))
            /\ \E o \in post_write_event(x) : Becomes(o.x, port)
    BY SendComes
  <1>3. PICK x : /\ InMap(s) /\ Begins(x, s) /\ (IdleAt(s, io[s], port) => Idle(x, port))
                 /\ \E o \in post_write_event(x) : Becomes(o.x, port)
    BY <1>2
  <1>4. PICK o \in post_write_event(x) : Becomes(o.x, port)
    BY <1>3
  <1>5. port \in Port
    BY DEF IocpInv, Shape
  <1>6. Follows(x, o.x, port) /\ (Idle(x, port) => Idle(o.x, port))
    BY <1>3, <1>4, <1>5, PostWriteFollows DEF Begins
  <1>7. /\ GoodHalf(o.x, port) /\ o.x.sock = s
        /\ IdleAt(s, io[s], port) => Idle(o.x, port)
    BY <1>3, <1>6 DEF Begins, Follows
  <1> QED
    BY <1>1, <1>3, <1>4, <1>7, MethodStep DEF Moved

LEMMA UnregisterStep ==
    ASSUME IocpInv, NEW n \in Num, unregister(n)
    PROVE  IocpInv'
  <1> DEFINE t == event_maps[n]
  <1>1. Registered(n) /\ UNCHANGED <<role, num, event_maps, running, panicked, ended>>
    BY DEF unregister
  <1>2. t \in Sock /\ InMap(t)
    BY <1>1, MappedNumber
  <1>3. PICK o \in unregister_socket(Socket(t)) : Becomes(o.x, port)
    BY DEF unregister
  <1> HIDE DEF t
  <1>4. /\ port \in Port /\ GoodHalf(Socket(t), port) /\ Socket(t).sock = t
        /\ IdleAt(t, io[t], port) => Idle(Socket(t), port)
    BY <1>2, SocketMade DEF Moved
  <1>5. /\ GoodHalf(o.x, port) /\ o.x.sock = t
        /\ IdleAt(t, io[t], port) => Idle(o.x, port)
    BY <1>3, <1>4, UnregisterFollows DEF Follows
  <1> QED
    BY <1>1, <1>2, <1>3, <1>5, MethodStep DEF Moved

LEMMA NothingAborted ==
    ASSUME NEW x \in Half, x.io.reads = 0, x.io.writes = 0
    PROVE  Aborted(x) = <<>>
  <1>1. PICK n \in Nat : n = 0
    OBVIOUS
  <1> DEFINE a == [i \in 1 .. n |-> PacketOf(x, "read", 0)]
             b == [i \in 1 .. n |-> PacketOf(x, "write", 0)]
  <1>2. PacketOf(x, "read", 0) \in PacketFields /\ PacketOf(x, "write", 0) \in PacketFields
    BY PacketsAre
  <1>3. a \in Port /\ Len(a) = n
    BY <1>2, Repeated
  <1>4. b \in Port /\ Len(b) = n
    BY <1>2, Repeated
  <1>5. Aborted(x) = a \o b
    BY <1>1 DEF Aborted
  <1> HIDE DEF a, b
  <1>6. a = <<>> /\ b = <<>>
    BY <1>1, <1>3, <1>4, EmptySeq DEF Port
  <1> QED
    BY <1>5, <1>6, EmptySeq, ConcatEmptySeq

(* A socket that nobody has registered. *)
LEMMA NewSocket ==
    ASSUME IocpInv, NEW s \in Sock, role[s] = "none"
    PROVE  /\ ev[s] = NoEvent /\ io[s] = NoIo /\ s \notin ended /\ ~InMap(s)
           /\ \A i \in 1 .. Len(port) : port[i].sock # s
           /\ running # <<>> => Self # s
           /\ \A n \in DOMAIN event_maps : event_maps[n] # s
  <1>1. ~InMap(s)
    BY MappedSocket
  <1>2. \A n \in DOMAIN event_maps : event_maps[n] # s
    BY DEF IocpInv, MapOK
  <1> QED
    BY <1>1, <1>2 DEF IocpInv, Fresh, Quiet, CallOK

(* The socket and the Event as register_socket makes them. *)
LEMMA OpenedEvent ==
    ASSUME NEW flags \in RegFlags, NEW e, e = [NoEvent EXCEPT !.flags = flags, !.submitted = 0]
    PROVE  /\ e \in EventFields /\ e.is_end = FALSE /\ e.drained = 0 /\ e.submitted = 0
           /\ e.is_end = NoEvent.is_end
           /\ e.is_in_read = NoEvent.is_in_read /\ e.is_in_write = NoEvent.is_in_write
           /\ e.accept_buf = NoEvent.accept_buf
  <1>1. flags \in SUBSET Flag
    BY FlagAssumption
  <1> QED
    BY <1>1, NothingYet, BoundAssumption DEF EventFields

LEMMA OpenedSide ==
    ASSUME NEW broken \in BOOLEAN, NEW yes \in BOOLEAN,
           NEW k, k = [NoIo EXCEPT !.open = yes, !.broken = broken]
    PROVE  /\ k \in IoFields /\ k.reads = 0 /\ k.writes = 0 /\ k.given = 0
           /\ k.resent = FALSE /\ k.modified = FALSE
  BY NothingYet DEF IoFields

LEMMA Opened ==
    ASSUME NEW s \in Sock, NEW p \in Port, \A i \in 1 .. Len(p) : p[i].sock # s,
           NEW e \in EventFields, e.is_end = FALSE, e.drained = 0, e.submitted = 0,
           NEW k \in IoFields, k.reads = 0, k.given = 0, k.resent = FALSE, k.modified = FALSE
    PROVE  Good(s, e, k, p) /\ IdleAt(s, k, p) /\ Buffered(e) = 0
  <1>1. EndedLast(s, e, p) /\ OneReadAt(s, k, p) /\ IdleAt(s, k, p)
    BY DEF EndedLast, OneReadAt, IdleAt, IsRead
  <1>2. SideOK(e, k)
    BY DEF SideOK
  <1> QED
    BY <1>1, <1>2 DEF Good, Buffered

(* register_socket, once it is known what its post comes to. *)
LEMMA RegisteredStep ==
    ASSUME IocpInv, NEW s \in Sock, role[s] = "none", NEW n \in Num, ~Registered(n),
           NEW kind \in {"stream", "listener"},
           role' = [role EXCEPT ![s] = kind], num' = [num EXCEPT ![s] = n],
           UNCHANGED <<running, panicked, ended>>,
           NEW x, GoodHalf(x, port), x.sock = s, Becomes(x, port),
           event_maps' = Bind(event_maps, n, s)
    PROVE  IocpInv'
  <1>1. Shape /\ port \in Port
    BY DEF IocpInv, Shape
  <1>2. /\ ev[s] = NoEvent /\ io[s] = NoIo /\ s \notin ended /\ ~InMap(s)
        /\ running # <<>> => Self # s
        /\ \A m \in DOMAIN event_maps : event_maps[m] # s
    BY NewSocket
  <1>3. /\ ev' \in [Sock -> EventFields] /\ io' \in [Sock -> IoFields] /\ port' \in Port
        /\ Good(s, ev'[s], io'[s], port')
        /\ OthersKeep(s, port)
    BY <1>1, BecomesKeeps DEF Shape
  <1>4. /\ role' \in [Sock -> {"none", "stream", "listener"}] /\ role'[s] # "none"
        /\ num' \in [Sock -> Num \cup {0}] /\ num'[s] = n
        /\ \A t \in Sock \ {s} : role'[t] = role[t] /\ num'[t] = num[t]
    BY <1>1 DEF Shape
  <1>5. /\ DOMAIN event_maps' = DOMAIN event_maps \cup {n} /\ event_maps'[n] = s
        /\ \A m \in DOMAIN event_maps : event_maps'[m] = event_maps[m] /\ m # n
        /\ event_maps' \in [DOMAIN event_maps' -> Sock]
    BY <1>1 DEF Bind, Shape, Registered
  <1>6. \A t \in Sock \ {s} :
            (num'[t] \in DOMAIN event_maps' /\ event_maps'[num'[t]] = t) <=> InMap(t)
    BY <1>4, <1>5 DEF InMap, Registered
  <1>7. InMap(s)'
    BY <1>4, <1>5 DEF InMap, Registered
  <1>8. Shape'
    BY <1>1, <1>3, <1>4, <1>5 DEF Shape
  <1>9. (\A t \in Sock : Good(t, ev[t], io[t], port))'
    <2>1. \A t \in Sock : Good(t, ev'[t], io'[t], port')
      BY <1>3 DEF OthersKeep, IocpInv
    <2> QED
      BY <2>1
  <1>10. MapOK'
    <2> SUFFICES ASSUME NEW m \in DOMAIN event_maps'
                 PROVE  /\ num'[event_maps'[m]] = m /\ role'[event_maps'[m]] # "none"
                        /\ event_maps'[m] \notin ended
      BY DEF MapOK
    <2>1. CASE m = n
      BY <1>2, <1>4, <1>5, <2>1
    <2>2. CASE m # n
      <3>1. m \in DOMAIN event_maps /\ event_maps[m] \in Sock \ {s} /\ event_maps'[m] = event_maps[m]
        BY <1>1, <1>2, <1>5, <2>2 DEF Shape
      <3> QED
        BY <1>4, <3>1 DEF IocpInv, MapOK
    <2> QED
      BY <2>1, <2>2
  <1>11. Quiet'
    <2> SUFFICES ASSUME NEW t \in Sock \ {s}, ~InMap(t)
                 PROVE  /\ io'[t].reads = 0 /\ io'[t].writes = 0
                        /\ \A i \in 1 .. Len(port') : port'[i].sock # t
      BY <1>6, <1>7 DEF Quiet, InMap, Registered
    <2>1. /\ io[t].reads = 0 /\ io[t].writes = 0
          /\ \A i \in 1 .. Len(port) : port[i].sock # t
      BY DEF IocpInv, Quiet
    <2> QED
      BY <1>3, <2>1 DEF OthersKeep
  <1>12. Fresh'
    <2> SUFFICES ASSUME NEW t \in Sock \ {s}, role[t] = "none"
                 PROVE  ev'[t] = NoEvent /\ io'[t] = NoIo /\ t \notin ended
      BY <1>4 DEF Fresh
    <2> QED
      BY <1>3 DEF IocpInv, Fresh, OthersKeep
  <1>13. CallOK'
    <2> SUFFICES ASSUME running # <<>>
                 PROVE  /\ role'[Self] # "none"
                        /\ IF running[1].kind = "end" THEN Self \in ended
                           ELSE num'[Self] \in DOMAIN event_maps' /\ event_maps'[num'[Self]] = Self
                        /\ running[1].kind \in {"read", "accept"} => IdleAt(Self, io'[Self], port')
      BY DEF CallOK, Self, InMap, Registered
    <2>1. Self \in Sock \ {s}
      BY <1>1, <1>2 DEF Shape, Self
    <2> QED
      BY <1>3, <1>4, <1>6, <2>1 DEF IocpInv, CallOK, OthersKeep
  <1> QED
    BY <1>8, <1>9, <1>10, <1>11, <1>12, <1>13 DEF IocpInv

LEMMA RefusedStep ==
    ASSUME IocpInv, NEW s \in Sock, role[s] = "none", NEW n \in Num, ~Registered(n),
           NEW kind \in {"stream", "listener"},
           role' = [role EXCEPT ![s] = kind], num' = [num EXCEPT ![s] = n],
           UNCHANGED <<event_maps, ev, io, port, running, panicked, ended>>
    PROVE  IocpInv'
  <1>1. Shape
    BY DEF IocpInv
  <1>2. /\ s \notin ended /\ ~InMap(s) /\ (running # <<>> => Self # s)
        /\ \A m \in DOMAIN event_maps : event_maps[m] # s
    BY NewSocket
  <1>3. /\ role' \in [Sock -> {"none", "stream", "listener"}] /\ role'[s] # "none"
        /\ num' \in [Sock -> Num \cup {0}] /\ num'[s] = n
        /\ \A t \in Sock \ {s} : role'[t] = role[t] /\ num'[t] = num[t]
    BY <1>1 DEF Shape
  <1>4. \A t \in Sock : (num'[t] \in DOMAIN event_maps /\ event_maps[num'[t]] = t) <=> InMap(t)
    BY <1>2, <1>3 DEF InMap, Registered
  <1>5. Shape'
    BY <1>1, <1>3 DEF Shape
  <1>6. (\A t \in Sock : Good(t, ev[t], io[t], port))'
    BY DEF IocpInv
  <1>7. MapOK'
    <2> SUFFICES ASSUME NEW m \in DOMAIN event_maps
                 PROVE  /\ num'[event_maps[m]] = m /\ role'[event_maps[m]] # "none"
                        /\ event_maps[m] \notin ended
      BY DEF MapOK
    <2>1. event_maps[m] \in Sock \ {s}
      BY <1>1, <1>2 DEF Shape
    <2> QED
      BY <1>3, <2>1 DEF IocpInv, MapOK
  <1>8. Quiet'
    BY <1>4 DEF IocpInv, Quiet, InMap, Registered
  <1>9. Fresh'
    BY <1>3 DEF IocpInv, Fresh
  <1>10. CallOK'
    <2> SUFFICES ASSUME running # <<>>
                 PROVE  /\ role'[Self] # "none"
                        /\ IF running[1].kind = "end" THEN Self \in ended
                           ELSE num'[Self] \in DOMAIN event_maps /\ event_maps[num'[Self]] = Self
                        /\ running[1].kind \in {"read", "accept"} => IdleAt(Self, io[Self], port)
      BY DEF CallOK, Self, InMap, Registered
    <2>1. Self \in Sock \ {s}
      BY <1>1, <1>2 DEF Shape, Self
    <2> QED
      BY <1>3, <1>4, <2>1 DEF IocpInv, CallOK
  <1> QED
    BY <1>5, <1>6, <1>7, <1>8, <1>9, <1>10 DEF IocpInv

LEMMA RegisterComes ==
    ASSUME ~Reuse, Prefill = 0, IocpInv, NEW s \in Sock, register_socket(s)
    PROVE  /\ role[s] = "none" /\ UNCHANGED <<running, panicked, ended>>
           /\ \E n \in Num, kind \in {"stream", "listener"} :
                  /\ ~Registered(n)
                  /\ role' = [role EXCEPT ![s] = kind] /\ num' = [num EXCEPT ![s] = n]
                  /\ \/ UNCHANGED <<event_maps, ev, io, port>>
                     \/ /\ event_maps' = Bind(event_maps, n, s)
                        /\ \E x : /\ Begins(x, s) /\ Idle(x, port) /\ Buffered(x.ev) = 0
                                  /\ \E o \in check_socket_event(x) : o.ok /\ Becomes(o.x, port)
  <1>1. role[s] = "none" /\ UNCHANGED <<running, panicked, ended>>
    BY DEF register_socket
  <1>2. PICK n \in Num \ OpenNums, flags \in RegFlags, filled \in 0 .. Prefill, broken \in BOOLEAN :
          /\ Reuse \/ ~Registered(n)
          /\ role' = [role EXCEPT ![s] = IF "ACCEPT" \in flags THEN "listener" ELSE "stream"]
          /\ num' = [num EXCEPT ![s] = n]
          /\ \E added \in add_socket :
             \E o \in IF added.ok
                      THEN check_socket_event([Socket(s) EXCEPT !.ev.flags = flags, !.io.open = TRUE,
                                               !.io.broken = broken, !.ev.submitted = filled])
                      ELSE {Outcome(Socket(s), FALSE)} :
                IF o.ok
                THEN /\ event_maps' = Bind(event_maps, n, s)
                     /\ ev' = Replaced(n, s, o.x.ev)
                     /\ io' = [io EXCEPT ![s] = o.x.io]
                     /\ port' = port \o o.x.out
                ELSE /\ event_maps' = Without(event_maps, n)
                     /\ ev' = Replaced(n, s, NoEvent)
                     /\ port' = port \o o.x.out \o Aborted(o.x)
                     /\ UNCHANGED io
    BY DEF register_socket
  <1>3. ~Registered(n)
    BY <1>2
  <1>4. filled = 0
    BY <1>2
  <1>5. PICK kind \in {"stream", "listener"} : role' = [role EXCEPT ![s] = kind]
    BY <1>2
  <1>6. /\ ev[s] = NoEvent /\ io[s] = NoIo /\ port \in Port
        /\ \A i \in 1 .. Len(port) : port[i].sock # s
        /\ ev \in [Sock -> EventFields] /\ io \in [Sock -> IoFields]
    BY <1>1, NewSocket DEF IocpInv, Shape
  <1>7. PICK x : x = [Socket(s) EXCEPT !.ev.flags = flags, !.io.open = TRUE,
                                      !.io.broken = broken, !.ev.submitted = filled]
    OBVIOUS
  <1>8. PICK added \in add_socket :
            \E o \in IF added.ok THEN check_socket_event(x) ELSE {Outcome(Socket(s), FALSE)} :
                IF o.ok
                THEN /\ event_maps' = Bind(event_maps, n, s)
                     /\ ev' = Replaced(n, s, o.x.ev)
                     /\ io' = [io EXCEPT ![s] = o.x.io]
                     /\ port' = port \o o.x.out
                ELSE /\ event_maps' = Without(event_maps, n)
                     /\ ev' = Replaced(n, s, NoEvent)
                     /\ port' = port \o o.x.out \o Aborted(o.x)
                     /\ UNCHANGED io
    BY <1>2, <1>7
  <1>9. PICK o \in IF added.ok THEN check_socket_event(x) ELSE {Outcome(Socket(s), FALSE)} :
                IF o.ok
                THEN /\ event_maps' = Bind(event_maps, n, s)
                     /\ ev' = Replaced(n, s, o.x.ev)
                     /\ io' = [io EXCEPT ![s] = o.x.io]
                     /\ port' = port \o o.x.out
                ELSE /\ event_maps' = Without(event_maps, n)
                     /\ ev' = Replaced(n, s, NoEvent)
                     /\ port' = port \o o.x.out \o Aborted(o.x)
                     /\ UNCHANGED io
    BY <1>8
  <1>10. /\ GoodHalf(x, port) /\ Idle(x, port) /\ x.sock = s /\ x.out = <<>>
         /\ x.io.reads = 0 /\ x.io.writes = 0 /\ Buffered(x.ev) = 0 /\ Begins(x, s)
    <2>1. PICK yes \in BOOLEAN : yes = TRUE
      OBVIOUS
    <2>2. PICK e : e = [NoEvent EXCEPT !.flags = flags, !.submitted = 0]
      OBVIOUS
    <2>3. PICK k : k = [NoIo EXCEPT !.open = yes, !.broken = broken]
      OBVIOUS
    <2>4. x = [sock |-> s, ev |-> e, io |-> k, out |-> <<>>]
      BY <1>4, <1>6, <1>7, <2>1, <2>2, <2>3 DEF Socket
    <2>5. /\ e \in EventFields /\ k \in IoFields /\ Good(s, e, k, port) /\ IdleAt(s, k, port)
          /\ k.reads = 0 /\ k.writes = 0 /\ Buffered(e) = 0
          /\ e.is_end = NoEvent.is_end
          /\ e.is_in_read = NoEvent.is_in_read /\ e.is_in_write = NoEvent.is_in_write
          /\ e.accept_buf = NoEvent.accept_buf
      <3>1. /\ e \in EventFields /\ e.is_end = FALSE /\ e.drained = 0 /\ e.submitted = 0
            /\ e.is_end = NoEvent.is_end
            /\ e.is_in_read = NoEvent.is_in_read /\ e.is_in_write = NoEvent.is_in_write
            /\ e.accept_buf = NoEvent.accept_buf
        BY <2>2, OpenedEvent
      <3>2. /\ k \in IoFields /\ k.reads = 0 /\ k.writes = 0 /\ k.given = 0
            /\ k.resent = FALSE /\ k.modified = FALSE
        BY <2>3, OpenedSide
      <3> QED
        BY <1>6, <3>1, <3>2, Opened
    <2>6. GoodHalf(x, port) /\ x.sock = s /\ x.ev = e /\ x.io = k /\ Idle(x, port)
      BY <1>6, <2>4, <2>5, HalfMade
    <2>7. x.out = <<>>
      BY <2>4
    <2>8. Begins(x, s)
      BY <1>6, <2>5, <2>6, <2>7, NothingYet DEF Begins
    <2> QED
      BY <2>5, <2>6, <2>7, <2>8
  <1>11. CASE o.ok
    <2>1. o \in check_socket_event(x)
      BY <1>9, <1>11, Outcomes
    <2>2. GoodHalf(o.x, port) /\ o.x.sock = s
      BY <1>6, <1>10, <2>1, CheckFollows DEF Follows
    <2>3. Becomes(o.x, port)
      <3>1. Replaced(n, s, o.x.ev) = [ev EXCEPT ![s] = o.x.ev]
        BY <1>3, <1>6 DEF Replaced
      <3> QED
        BY <1>9, <1>11, <2>2, <3>1 DEF Becomes
    <2>4. event_maps' = Bind(event_maps, n, s)
      BY <1>9, <1>11
    <2> QED
      BY <1>1, <1>2, <1>3, <1>5, <1>10, <1>11, <2>1, <2>3, <2>4
  <1>12. CASE ~o.ok
    <2>1. o.x.out = <<>> /\ o.x.io.reads = 0 /\ o.x.io.writes = 0 /\ o.x \in Half
      <3>1. CASE o \in check_socket_event(x)
        <4>1. o.x \in Half
          BY <1>6, <1>10, <3>1, CheckFollows DEF Follows, GoodHalf
        <4> QED
          BY <1>6, <1>10, <1>12, <3>1, <4>1, CheckFails
      <3>2. CASE o = Outcome(Socket(s), FALSE)
        <4>1. o.x = Socket(s)
          BY <3>2, Outcomes
        <4>2. Socket(s) \in Half
          BY SocketMade DEF Moved, GoodHalf
        <4> QED
          BY <1>6, <4>1, <4>2, NothingYet DEF Socket
      <3> QED
        BY <1>9, <3>1, <3>2
    <2>2. port' = port
      <3>1. Aborted(o.x) = <<>>
        BY <2>1, NothingAborted
      <3>2. port \o <<>> = port
        BY <1>6, ConcatEmptySeq DEF Port
      <3> QED
        BY <1>9, <1>12, <2>1, <3>1, <3>2
    <2>3. ev' = ev /\ io' = io
      <3>1. Replaced(n, s, NoEvent) = ev
        BY <1>3, <1>6 DEF Replaced
      <3> QED
        BY <1>9, <1>12, <3>1
    <2>4. event_maps' = event_maps
      <3>1. Without(event_maps, n) = event_maps
        BY <1>3 DEF Without, Restrict, Registered, IocpInv, Shape
      <3> QED
        BY <1>9, <1>12, <3>1
    <2>5. UNCHANGED <<event_maps, ev, io, port>>
      BY <2>2, <2>3, <2>4
    <2> QED
      BY <1>1, <1>2, <1>3, <1>5, <2>5
  <1> QED
    BY <1>11, <1>12

LEMMA RegisterStep ==
    ASSUME ~Reuse, Prefill = 0, IocpInv, NEW s \in Sock, register_socket(s)
    PROVE  IocpInv'
  <1>1. role[s] = "none" /\ UNCHANGED <<running, panicked, ended>>
    BY RegisterComes
  <1>2. PICK n \in Num, kind \in {"stream", "listener"} :
            /\ ~Registered(n)
            /\ role' = [role EXCEPT ![s] = kind] /\ num' = [num EXCEPT ![s] = n]
            /\ \/ UNCHANGED <<event_maps, ev, io, port>>
               \/ /\ event_maps' = Bind(event_maps, n, s)
                  /\ \E x : /\ Begins(x, s) /\ Idle(x, port)
                            /\ \E o \in check_socket_event(x) : o.ok /\ Becomes(o.x, port)
    BY RegisterComes
  <1>3. CASE UNCHANGED <<event_maps, ev, io, port>>
    <2>1. UNCHANGED <<event_maps, ev, io, port, running, panicked, ended>>
      BY <1>1, <1>3
    <2> QED
      BY <1>1, <1>2, <2>1, RefusedStep
  <1>4. CASE /\ event_maps' = Bind(event_maps, n, s)
             /\ \E x : /\ Begins(x, s) /\ Idle(x, port)
                       /\ \E o \in check_socket_event(x) : o.ok /\ Becomes(o.x, port)
    <2>1. PICK x : /\ Begins(x, s) /\ Idle(x, port)
                   /\ \E o \in check_socket_event(x) : o.ok /\ Becomes(o.x, port)
      BY <1>4
    <2>2. PICK o \in check_socket_event(x) : o.ok /\ Becomes(o.x, port)
      BY <2>1
    <2>3. PICK y : y = o.x
      OBVIOUS
    <2>4. GoodHalf(y, port) /\ y.sock = s /\ Becomes(y, port)
      <3>1. port \in Port
        BY DEF IocpInv, Shape
      <3> QED
        BY <2>1, <2>2, <2>3, <3>1, CheckFollows DEF Begins, Follows
    <2> QED
      BY <1>1, <1>2, <1>4, <2>4, RegisteredStep
  <1> QED
    BY <1>2, <1>3, <1>4

-----------------------------------------------------------------------------
(* Steps that change one Event and take at most the first packet. *)
LEMMA EventStep ==
    ASSUME IocpInv, NEW q, Moved(q), NEW s \in Sock, InMap(s),
           NEW e \in EventFields, e.is_end = ev[s].is_end, e.drained = ev[s].drained,
           e.submitted = ev[s].submitted,
           ev' = [ev EXCEPT ![s] = e], io' = io, port' = q,
           UNCHANGED <<role, num, event_maps, ended>>, panicked' \in {panicked, TRUE},
           \/ running' = <<>>
           \/ running' = running
           \/ \E kind \in {"accept", "read", "write"} :
                  /\ running' = <<[kind |-> kind, sock |-> s]>>
                  /\ kind # "write" => IdleAt(s, io[s], q)
    PROVE  IocpInv'
  <1>1. q \in Port /\ Good(s, ev[s], io[s], q)
    BY MovedPort
  <1>2. /\ ev[s] \in EventFields /\ io[s] \in IoFields /\ ev \in [Sock -> EventFields]
        /\ io \in [Sock -> IoFields]
    BY DEF IocpInv, Shape
  <1>3. Good(s, e, io[s], q)
    <2>1. e.submitted >= ev[s].submitted
      BY <1>2, FieldsOfEvent
    <2> QED
      BY <1>1, <2>1, SameEvent
  <1>4. PICK k : k = io[s]
    OBVIOUS
  <1>5. PICK x : x = [sock |-> s, ev |-> e, io |-> k, out |-> <<>>]
    OBVIOUS
  <1>6. /\ GoodHalf(x, q) /\ x.sock = s /\ x.ev = e /\ x.io = k
        /\ Idle(x, q) <=> IdleAt(s, k, q)
    BY <1>1, <1>2, <1>3, <1>4, <1>5, HalfMade
  <1>7. Becomes(x, q)
    <2>1. q \o x.out = q
      BY <1>1, <1>5, ConcatEmptySeq DEF Port
    <2>2. io = [io EXCEPT ![s] = k]
      BY <1>2, <1>4
    <2> QED
      BY <1>6, <2>1, <2>2 DEF Becomes
  <1>8. \/ running' = <<>>
        \/ running' = running /\ (IdleAt(x.sock, io[x.sock], q) => Idle(x, q))
        \/ \E kind \in {"accept", "read", "write"} :
               /\ running' = <<[kind |-> kind, sock |-> x.sock]>>
               /\ kind # "write" => Idle(x, q)
    BY <1>4, <1>6
  <1> QED
    BY <1>6, <1>7, <1>8, MethodStep

-----------------------------------------------------------------------------
(* The kernel. *)

LEMMA OneMore ==
    ASSUME NEW p \in Port, NEW d \in PacketFields
    PROVE  /\ <<d>> \in Port /\ p \o <<d>> = Append(p, d)
           /\ \A i \in 1 .. Len(p) : i \in 1 .. Len(p \o <<d>>) /\ (p \o <<d>>)[i] = p[i]
           /\ \A i \in 1 .. Len(p \o <<d>>) :
                  \/ i \in 1 .. Len(p) /\ (p \o <<d>>)[i] = p[i]
                  \/ i = Len(p) + 1 /\ (p \o <<d>>)[i] = d
  <1>1. <<d>> \in Port /\ Len(<<d>>) = 1 /\ <<d>>[1] = d
    BY DEF Port
  <1>2. p \o <<d>> = Append(p, d)
    BY AppendIsConcat DEF Port
  <1>3. PICK w : w = <<d>>
    OBVIOUS
  <1>4. /\ Len(p) \in Nat
        /\ \A i \in 1 .. Len(p) : i \in 1 .. Len(p \o w) /\ (p \o w)[i] = p[i]
        /\ \A i \in 1 .. Len(p \o w) :
               \/ i \in 1 .. Len(p) /\ (p \o w)[i] = p[i]
               \/ i > Len(p) /\ i - Len(p) \in 1 .. Len(w) /\ (p \o w)[i] = w[i - Len(p)]
    BY <1>1, <1>3, ConcatShape
  <1>5. \A i \in 1 .. Len(p \o w) :
               \/ i \in 1 .. Len(p) /\ (p \o w)[i] = p[i]
               \/ i = Len(p) + 1 /\ (p \o w)[i] = d
    <2> SUFFICES ASSUME NEW i \in 1 .. Len(p \o w), i > Len(p), i - Len(p) \in 1 .. Len(w),
                        (p \o w)[i] = w[i - Len(p)]
                 PROVE  i = Len(p) + 1 /\ (p \o w)[i] = d
      BY <1>4
    <2>1. i \in Int /\ i - Len(p) = 1
      BY <1>1, <1>3, <1>4
    <2> QED
      BY <1>1, <1>3, <1>4, <2>1
  <1> QED
    BY <1>1, <1>2, <1>3, <1>4, <1>5, Zenon

(* An operation of s finishes. *)
LEMMA CompletedStep ==
    ASSUME IocpInv, NEW s \in Sock,
           NEW e \in EventFields, e.is_end = ev[s].is_end, e.drained = ev[s].drained,
           e.submitted = ev[s].submitted,
           NEW d \in PacketFields, d.sock = s,
           NEW k \in IoFields, k.open = io[s].open, k.given = io[s].given,
           k.resent = io[s].resent, k.pended = io[s].pended, k.modified = io[s].modified,
           \/ d.kind = "read" /\ io[s].reads > 0 /\ k.reads = io[s].reads - 1
           \/ d.kind = "write" /\ io[s].writes > 0 /\ k.reads = io[s].reads,
           ev' = [ev EXCEPT ![s] = e], io' = [io EXCEPT ![s] = k], port' = Append(port, d),
           UNCHANGED <<role, num, event_maps, running, panicked, ended>>
    PROVE  IocpInv'
  <1>1. /\ ev[s] \in EventFields /\ io[s] \in IoFields /\ port \in Port
        /\ Good(s, ev[s], io[s], port)
    BY DEF IocpInv, Shape
  <1>2. InMap(s)
    BY <1>1 DEF IocpInv, Quiet, IoFields
  <1>3. ~ev[s].is_end /\ ev[s].is_end \in BOOLEAN
    BY <1>1, FieldsOfEvent DEF Good, SideOK, IoFields
  <1>4. \A i \in 1 .. Len(port) : ~(port[i].sock = s /\ port[i].kind = "ENDED")
    BY <1>1, <1>3 DEF Good, EndedLast
  <1>5. PICK p : p = port \o <<d>>
    OBVIOUS
  <1>6. /\ <<d>> \in Port /\ p = Append(port, d)
        /\ \A i \in 1 .. Len(port) : i \in 1 .. Len(p) /\ p[i] = port[i]
        /\ \A i \in 1 .. Len(p) :
               \/ i \in 1 .. Len(port) /\ p[i] = port[i]
               \/ i = Len(port) + 1 /\ p[i] = d
    <2>1. /\ <<d>> \in Port /\ port \o <<d>> = Append(port, d)
          /\ \A i \in 1 .. Len(port) : i \in 1 .. Len(port \o <<d>>) /\ (port \o <<d>>)[i] = port[i]
          /\ \A i \in 1 .. Len(port \o <<d>>) :
                 \/ i \in 1 .. Len(port) /\ (port \o <<d>>)[i] = port[i]
                 \/ i = Len(port) + 1 /\ (port \o <<d>>)[i] = d
      BY <1>1, OneMore
    <2> QED
      BY <1>5, <2>1, Zenon
  <1>7. EndedLast(s, e, p)
    BY <1>4, <1>6 DEF EndedLast
  <1>8. k.modified \/ OneReadAt(s, k, p)
    <2> SUFFICES ASSUME OneReadAt(s, io[s], port) PROVE OneReadAt(s, k, p)
      BY <1>1 DEF Good
    <2>1. CASE d.kind = "read"
      <3>1. io[s].reads = 1 /\ k.reads = 0
        BY <1>1, <2>1 DEF OneReadAt, IoFields
      <3>2. \A i \in 1 .. Len(port) : ~IsRead(s, port[i])
        BY <3>1 DEF OneReadAt
      <3> QED
        BY <1>6, <3>1, <3>2 DEF OneReadAt
    <2>2. CASE d.kind = "write"
      BY <1>6, <2>2 DEF OneReadAt, IsRead
    <2> QED
      BY <2>1, <2>2
  <1>9. SideOK(e, k)
    BY <1>1, <1>3 DEF Good, SideOK
  <1>10. Good(s, e, k, p)
    BY <1>1, <1>7, <1>8, <1>9 DEF Good
  <1>11. IdleAt(s, io[s], port) => IdleAt(s, k, p)
    BY <1>1, <1>6 DEF IdleAt, IsRead, IoFields
  <1>12. PICK x : x = [sock |-> s, ev |-> e, io |-> k, out |-> <<d>>]
    OBVIOUS
  <1>13. x.sock = s /\ x.ev = e /\ x.io = k /\ x.out = <<d>> /\ x \in Half
    BY <1>6, <1>12 DEF Half
  <1>14. \A i \in 1 .. Len(x.out) : x.out[i].sock = x.sock
    BY <1>13
  <1>15. GoodHalf(x, port) /\ (IdleAt(s, io[s], port) => Idle(x, port))
    BY <1>5, <1>10, <1>11, <1>13, <1>14 DEF GoodHalf, Idle
  <1>16. Becomes(x, port)
    BY <1>5, <1>6, <1>13 DEF Becomes
  <1> QED
    BY <1>2, <1>13, <1>15, <1>16, MethodStep DEF Moved

LEMMA KernelPackets ==
    ASSUME NEW s \in Sock, NEW kind \in {"read", "write"}, NEW n \in {0, 1}
    PROVE  /\ PacketOf(Socket(s), kind, n) \in PacketFields
           /\ PacketOf(Socket(s), kind, n).sock = s /\ PacketOf(Socket(s), kind, n).kind = kind
  <1>1. PacketOf(Socket(s), kind, n) = [sock |-> s, kind |-> kind, bytes |-> n, from |-> None]
    BY DEF PacketOf, Socket
  <1>2. None \in Peer
    BY DEF Peer
  <1> QED
    BY <1>1, <1>2 DEF PacketFields

LEMMA AcceptPackets ==
    ASSUME NEW s \in Sock, NEW from \in Peer
    PROVE  /\ [PacketOf(Socket(s), "read", 0) EXCEPT !.from = from] \in PacketFields
           /\ [PacketOf(Socket(s), "read", 0) EXCEPT !.from = from].sock = s
           /\ [PacketOf(Socket(s), "read", 0) EXCEPT !.from = from].kind = "read"
  <1>1. PacketOf(Socket(s), "read", 0) = [sock |-> s, kind |-> "read", bytes |-> 0, from |-> None]
    BY DEF PacketOf, Socket
  <1> QED
    BY <1>1 DEF PacketFields

LEMMA Decreased ==
    ASSUME NEW k \in IoFields
    PROVE  /\ k.reads > 0 => [k EXCEPT !.reads = k.reads - 1] \in IoFields
           /\ k.writes > 0 => [k EXCEPT !.writes = k.writes - 1] \in IoFields
  <1>1. \A r \in Nat : [k EXCEPT !.reads = r] \in IoFields /\ [k EXCEPT !.writes = r] \in IoFields
    BY DEF IoFields
  <1>2. k.reads \in Nat /\ k.writes \in Nat
    BY DEF IoFields
  <1>3. /\ k.reads > 0 => k.reads - 1 \in Nat
        /\ k.writes > 0 => k.writes - 1 \in Nat
    BY <1>2
  <1> QED
    BY <1>1, <1>3

LEMMA KernelStep ==
    ASSUME IocpInv, NEW s \in Sock,
           complete_read(s) \/ complete_accept(s) \/ complete_write(s) \/ break(s)
    PROVE  IocpInv'
  <1>1. /\ ev[s] \in EventFields /\ io[s] \in IoFields /\ port \in Port
        /\ ev \in [Sock -> EventFields] /\ io \in [Sock -> IoFields]
    BY DEF IocpInv, Shape
  <1>2. /\ [io[s] EXCEPT !.reads = io[s].reads - 1].open = io[s].open
        /\ [io[s] EXCEPT !.reads = io[s].reads - 1].given = io[s].given
        /\ [io[s] EXCEPT !.reads = io[s].reads - 1].resent = io[s].resent
        /\ [io[s] EXCEPT !.reads = io[s].reads - 1].pended = io[s].pended
        /\ [io[s] EXCEPT !.reads = io[s].reads - 1].modified = io[s].modified
        /\ [io[s] EXCEPT !.reads = io[s].reads - 1].reads = io[s].reads - 1
    BY <1>1 DEF IoFields
  <1>3. /\ [io[s] EXCEPT !.writes = io[s].writes - 1].open = io[s].open
        /\ [io[s] EXCEPT !.writes = io[s].writes - 1].given = io[s].given
        /\ [io[s] EXCEPT !.writes = io[s].writes - 1].resent = io[s].resent
        /\ [io[s] EXCEPT !.writes = io[s].writes - 1].pended = io[s].pended
        /\ [io[s] EXCEPT !.writes = io[s].writes - 1].modified = io[s].modified
        /\ [io[s] EXCEPT !.writes = io[s].writes - 1].reads = io[s].reads
    BY <1>1 DEF IoFields
  <1>4. ev = [ev EXCEPT ![s] = ev[s]]
    BY <1>1
  <1>5. CASE complete_read(s)
    <2>1. /\ io[s].reads > 0
          /\ io' = [io EXCEPT ![s] = [io[s] EXCEPT !.reads = io[s].reads - 1]]
          /\ UNCHANGED <<role, num, event_maps, ev, running, panicked, ended>>
      BY <1>5 DEF complete_read
    <2>2. PICK n \in {0, 1} : port' = Append(port, PacketOf(Socket(s), "read", n))
      BY <1>5 DEF complete_read
    <2>3. PICK e : e = ev[s]
      OBVIOUS
    <2>4. PICK d : d = PacketOf(Socket(s), "read", n)
      OBVIOUS
    <2>5. d \in PacketFields /\ d.sock = s /\ d.kind = "read"
      BY <2>4, KernelPackets
    <2>6. PICK k : k = [io[s] EXCEPT !.reads = io[s].reads - 1]
      OBVIOUS
    <2>7. /\ k \in IoFields /\ k.open = io[s].open /\ k.given = io[s].given
          /\ k.resent = io[s].resent /\ k.pended = io[s].pended /\ k.modified = io[s].modified
          /\ k.reads = io[s].reads - 1
      BY <1>1, <1>2, <2>1, <2>6, Decreased
    <2>8. io' = [io EXCEPT ![s] = k] /\ ev' = [ev EXCEPT ![s] = e] /\ port' = Append(port, d)
      BY <1>4, <2>1, <2>2, <2>3, <2>4, <2>6
    <2>9. /\ e \in EventFields /\ e.is_end = ev[s].is_end /\ e.drained = ev[s].drained
          /\ e.submitted = ev[s].submitted
      BY <1>1, <2>3
    <2>10. io[s].reads > 0 /\ UNCHANGED <<role, num, event_maps, running, panicked, ended>>
      BY <2>1
    <2> QED
      BY <2>5, <2>7, <2>8, <2>9, <2>10, CompletedStep
  <1>6. CASE complete_accept(s)
    <2>1. /\ io[s].reads > 0
          /\ io' = [io EXCEPT ![s] = [io[s] EXCEPT !.reads = io[s].reads - 1]]
          /\ UNCHANGED <<role, num, event_maps, running, panicked, ended>>
      BY <1>6 DEF complete_accept
    <2>2. PICK from \in Peer :
              /\ port' = Append(port, [PacketOf(Socket(s), "read", 0) EXCEPT !.from = from])
              /\ ev' = IF from = None THEN ev ELSE [ev EXCEPT ![s].accept_buf = Accepted(from[1])]
      BY <1>6 DEF complete_accept
    <2>3. PICK d : d = [PacketOf(Socket(s), "read", 0) EXCEPT !.from = from]
      OBVIOUS
    <2>4. d \in PacketFields /\ d.sock = s /\ d.kind = "read"
      BY <2>3, AcceptPackets
    <2>5. PICK k : k = [io[s] EXCEPT !.reads = io[s].reads - 1]
      OBVIOUS
    <2>6. /\ k \in IoFields /\ k.open = io[s].open /\ k.given = io[s].given
          /\ k.resent = io[s].resent /\ k.pended = io[s].pended /\ k.modified = io[s].modified
          /\ k.reads = io[s].reads - 1
      BY <1>1, <1>2, <2>1, <2>5, Decreased
    <2>7. PICK e : e = IF from = None THEN ev[s] ELSE [ev[s] EXCEPT !.accept_buf = Accepted(from[1])]
      OBVIOUS
    <2>8. /\ e \in EventFields /\ e.is_end = ev[s].is_end /\ e.drained = ev[s].drained
          /\ e.submitted = ev[s].submitted
      <3>1. CASE from = None
        BY <1>1, <2>7, <3>1
      <3>2. CASE from # None
        <4>1. PICK a \in AddrsBuf : a = Accepted(from[1])
          <5>1. from[1] \in Peers
            BY <3>2 DEF Peer, Some
          <5> QED
            BY <5>1 DEF AddrsBuf
        <4>2. e = [ev[s] EXCEPT !.accept_buf = a]
          BY <2>7, <3>2, <4>1
        <4> QED
          BY <1>1, <4>2 DEF EventFields
      <3> QED
        BY <3>1, <3>2
    <2>9. ev' = [ev EXCEPT ![s] = e]
      BY <1>4, <2>2, <2>7
    <2>10. io' = [io EXCEPT ![s] = k] /\ port' = Append(port, d)
      BY <2>1, <2>2, <2>3, <2>5
    <2> QED
      BY <1>1, <2>1, <2>4, <2>6, <2>8, <2>9, <2>10, CompletedStep
  <1>7. CASE complete_write(s)
    <2>1. /\ io[s].writes > 0
          /\ io' = [io EXCEPT ![s] = [io[s] EXCEPT !.writes = io[s].writes - 1]]
          /\ port' = Append(port, PacketOf(Socket(s), "write", 0))
          /\ UNCHANGED <<role, num, event_maps, ev, running, panicked, ended>>
      BY <1>7 DEF complete_write
    <2>2. PICK e : e = ev[s]
      OBVIOUS
    <2>3. PICK d : d = PacketOf(Socket(s), "write", 0)
      OBVIOUS
    <2>4. d \in PacketFields /\ d.sock = s /\ d.kind = "write"
      BY <2>3, KernelPackets
    <2>5. PICK k : k = [io[s] EXCEPT !.writes = io[s].writes - 1]
      OBVIOUS
    <2>6. /\ k \in IoFields /\ k.open = io[s].open /\ k.given = io[s].given
          /\ k.resent = io[s].resent /\ k.pended = io[s].pended /\ k.modified = io[s].modified
          /\ k.reads = io[s].reads
      BY <1>1, <1>3, <2>1, <2>5, Decreased
    <2>7. io' = [io EXCEPT ![s] = k] /\ ev' = [ev EXCEPT ![s] = e] /\ port' = Append(port, d)
      BY <1>4, <2>1, <2>2, <2>3, <2>5
    <2>8. /\ e \in EventFields /\ e.is_end = ev[s].is_end /\ e.drained = ev[s].drained
          /\ e.submitted = ev[s].submitted
      BY <1>1, <2>2
    <2>9. io[s].writes > 0 /\ UNCHANGED <<role, num, event_maps, running, panicked, ended>>
      BY <2>1
    <2> QED
      BY <2>4, <2>6, <2>7, <2>8, <2>9, CompletedStep
  <1>8. CASE break(s)
    <2>1. /\ io[s].open /\ io' = [io EXCEPT ![s].broken = TRUE]
          /\ UNCHANGED <<role, num, event_maps, ev, port, running, panicked, ended>>
      BY <1>8 DEF break
    <2>2. PICK yes \in BOOLEAN : yes = TRUE
      OBVIOUS
    <2>3. io' = [io EXCEPT ![s] = [io[s] EXCEPT !.broken = yes]]
      BY <2>1, <2>2
    <2>4. /\ io' \in [Sock -> IoFields]
          /\ \A t \in Sock : /\ io'[t].open = io[t].open /\ io'[t].reads = io[t].reads
                             /\ io'[t].writes = io[t].writes /\ io'[t].given = io[t].given
                             /\ io'[t].resent = io[t].resent /\ io'[t].pended = io[t].pended
                             /\ io'[t].modified = io[t].modified
                             /\ t # s => io'[t] = io[t]
      BY <1>1, <2>3 DEF IoFields
    <2>5. Shape'
      BY <2>1, <2>4 DEF IocpInv, Shape
    <2>6. (\A t \in Sock : Good(t, ev[t], io[t], port))'
      <3> SUFFICES ASSUME NEW t \in Sock PROVE Good(t, ev[t], io'[t], port)
        BY <2>1
      <3> QED
        BY <2>4 DEF IocpInv, Good, SideOK, OneReadAt
    <2>7. MapOK'
      BY <2>1 DEF IocpInv, MapOK
    <2>8. Quiet'
      BY <2>1, <2>4 DEF IocpInv, Quiet, InMap, Registered
    <2>9. Fresh'
      <3>1. role[s] # "none"
        <4>1. NoIo.open = FALSE
          BY DEF NoIo
        <4> QED
          BY <2>1, <4>1 DEF IocpInv, Fresh
      <3> QED
        BY <2>1, <2>4, <3>1 DEF IocpInv, Fresh
    <2>10. CallOK'
      BY <2>1, <2>4 DEF IocpInv, CallOK, Shape, Self, InMap, Registered, IdleAt
    <2> QED
      BY <2>5, <2>6, <2>7, <2>8, <2>9, <2>10 DEF IocpInv
  <1> QED
    BY <1>5, <1>6, <1>7, <1>8

-----------------------------------------------------------------------------
(* do_select and what follows a packet. *)

LEMMA Taken ==
    ASSUME IocpInv, NEW kinds, Gets(kinds)
    PROVE  /\ Source \in Sock /\ InMap(Source) /\ Packet.kind \in kinds /\ running = <<>>
           /\ Moved(Tail(port)) /\ port # <<>>
           /\ ev[Source] \in EventFields /\ io[Source] \in IoFields
           /\ Packet.kind = "read" => IdleAt(Source, io[Source], Tail(port))
           /\ Packet.kind = "ENDED" =>
                  /\ ev[Source].is_end /\ io[Source].reads = 0 /\ io[Source].writes = 0
                  /\ \A i \in 1 .. Len(Tail(port)) : Tail(port)[i].sock # Source
                  /\ IdleAt(Source, io[Source], Tail(port))
  <1>1. port \in Port /\ port # <<>> /\ running = <<>> /\ Packet.kind \in kinds /\ InMap(Source)
    BY DEF IocpInv, Shape, Gets
  <1>2. Source \in Sock
    BY <1>1, TailShape DEF Source, Packet, PacketFields
  <1>3. /\ ev[Source] \in EventFields /\ io[Source] \in IoFields
        /\ Good(Source, ev[Source], io[Source], port)
    BY <1>2 DEF IocpInv, Shape
  <1>4. Packet.kind = "read" => IdleAt(Source, io[Source], Tail(port))
    <2>1. Packet.kind = "read" => IsRead(Source, Head(port))
      BY DEF IsRead, Source, Packet
    <2> QED
      BY <1>1, <1>3, <2>1, TailKeeps
  <1>5. Packet.kind = "ENDED" =>
            ev[Source].is_end /\ \A i \in 1 .. Len(Tail(port)) : Tail(port)[i].sock # Source
    <2>1. Head(port).sock = Source /\ Packet.kind = Head(port).kind
      BY DEF Source, Packet
    <2> QED
      BY <1>1, <1>3, <2>1, TailKeeps
  <1>6. Packet.kind = "ENDED" => io[Source].reads = 0 /\ io[Source].writes = 0
    BY <1>3, <1>5 DEF Good, SideOK
  <1> QED
    BY <1>1, <1>2, <1>3, <1>4, <1>5, <1>6 DEF Moved, IdleAt, IsRead

(* Two fields of an Event are cleared. *)
LEMMA Cleared ==
    ASSUME NEW e \in EventFields
    PROVE  /\ [e EXCEPT !.is_in_write = FALSE] \in EventFields
           /\ [e EXCEPT !.is_in_write = FALSE].is_end = e.is_end
           /\ [e EXCEPT !.is_in_write = FALSE].drained = e.drained
           /\ [e EXCEPT !.is_in_write = FALSE].submitted = e.submitted
           /\ [e EXCEPT !.is_in_read = FALSE] \in EventFields
           /\ [e EXCEPT !.is_in_read = FALSE].is_end = e.is_end
           /\ [e EXCEPT !.is_in_read = FALSE].drained = e.drained
           /\ [e EXCEPT !.is_in_read = FALSE].submitted = e.submitted
           /\ [e EXCEPT !.accept_socket = FALSE, !.is_in_read = FALSE] \in EventFields
           /\ [e EXCEPT !.accept_socket = FALSE, !.is_in_read = FALSE].is_end = e.is_end
           /\ [e EXCEPT !.accept_socket = FALSE, !.is_in_read = FALSE].drained = e.drained
           /\ [e EXCEPT !.accept_socket = FALSE, !.is_in_read = FALSE].submitted = e.submitted
  <1>1. PICK no \in BOOLEAN : no = FALSE
    OBVIOUS
  <1>2. /\ [e EXCEPT !.is_in_write = no] \in EventFields
        /\ [e EXCEPT !.is_in_read = no] \in EventFields
        /\ [e EXCEPT !.accept_socket = no, !.is_in_read = no] \in EventFields
    BY DEF EventFields
  <1>3. /\ [e EXCEPT !.is_in_write = no].is_end = e.is_end
        /\ [e EXCEPT !.is_in_write = no].drained = e.drained
        /\ [e EXCEPT !.is_in_write = no].submitted = e.submitted
        /\ [e EXCEPT !.is_in_read = no].is_end = e.is_end
        /\ [e EXCEPT !.is_in_read = no].drained = e.drained
        /\ [e EXCEPT !.is_in_read = no].submitted = e.submitted
        /\ [e EXCEPT !.accept_socket = no, !.is_in_read = no].is_end = e.is_end
        /\ [e EXCEPT !.accept_socket = no, !.is_in_read = no].drained = e.drained
        /\ [e EXCEPT !.accept_socket = no, !.is_in_read = no].submitted = e.submitted
    BY DEF EventFields
  <1> QED
    BY <1>1, <1>2, <1>3, Zenon

LEMMA Kinds ==
    /\ "accept" \in {"accept", "read", "write"}
    /\ "read" \in {"accept", "read", "write"}
    /\ "write" \in {"accept", "read", "write"}
  OBVIOUS

LEMMA WriteDoneStep ==
    ASSUME IocpInv, write_done
    PROVE  IocpInv'
  <1>1. Gets({"write"}) /\ port' = Tail(port) /\ running' = <<[kind |-> "write", sock |-> Source]>>
    BY DEF write_done, Calls
  <1>2. UNCHANGED <<role, num, event_maps, io, panicked, ended>>
    BY DEF write_done
  <1>3. /\ Source \in Sock /\ InMap(Source) /\ Moved(Tail(port)) /\ ev[Source] \in EventFields
    BY <1>1, Taken
  <1>4. PICK e : e = [ev[Source] EXCEPT !.is_in_write = FALSE]
    OBVIOUS
  <1>5. ev' = [ev EXCEPT ![Source] = e]
    BY <1>4 DEF write_done
  <1>6. /\ e \in EventFields /\ e.is_end = ev[Source].is_end /\ e.drained = ev[Source].drained
        /\ e.submitted = ev[Source].submitted
    BY <1>3, <1>4, Cleared
  <1>7. \E kind \in {"accept", "read", "write"} :
            /\ running' = <<[kind |-> kind, sock |-> Source]>>
            /\ kind # "write" => IdleAt(Source, io[Source], Tail(port))
    BY <1>1
  <1>8. PICK s \in Sock : s = Source
    BY <1>3
  <1>9. PICK q : q = Tail(port)
    OBVIOUS
  <1>10. /\ InMap(s) /\ Moved(q) /\ e.is_end = ev[s].is_end /\ e.drained = ev[s].drained
         /\ e.submitted = ev[s].submitted /\ ev' = [ev EXCEPT ![s] = e] /\ port' = q
         /\ \E kind \in {"accept", "read", "write"} :
                /\ running' = <<[kind |-> kind, sock |-> s]>>
                /\ kind # "write" => IdleAt(s, io[s], q)
    BY <1>1, <1>3, <1>5, <1>6, <1>7, <1>8, <1>9
  <1> QED
    BY <1>2, <1>6, <1>10, EventStep

LEMMA ReadDoneStep ==
    ASSUME IocpInv, read_done
    PROVE  IocpInv'
  <1>1. Gets({"read"}) /\ port' = Tail(port) /\ running' = <<[kind |-> "read", sock |-> Source]>>
    BY DEF read_done, Calls
  <1>2. UNCHANGED <<role, num, event_maps, io, panicked, ended>>
    BY DEF read_done
  <1>3. /\ Source \in Sock /\ InMap(Source) /\ Moved(Tail(port)) /\ ev[Source] \in EventFields
        /\ IdleAt(Source, io[Source], Tail(port))
    BY <1>1, Taken
  <1>4. PICK e : e = [ev[Source] EXCEPT !.is_in_read = FALSE]
    OBVIOUS
  <1>5. ev' = [ev EXCEPT ![Source] = e]
    BY <1>4 DEF read_done
  <1>6. /\ e \in EventFields /\ e.is_end = ev[Source].is_end /\ e.drained = ev[Source].drained
        /\ e.submitted = ev[Source].submitted
    BY <1>3, <1>4, Cleared
  <1>7. PICK s \in Sock : s = Source
    BY <1>3
  <1>8. PICK q : q = Tail(port)
    OBVIOUS
  <1>9. /\ InMap(s) /\ Moved(q) /\ e.is_end = ev[s].is_end /\ e.drained = ev[s].drained
        /\ e.submitted = ev[s].submitted /\ ev' = [ev EXCEPT ![s] = e] /\ port' = q
        /\ \E kind \in {"accept", "read", "write"} :
               /\ running' = <<[kind |-> kind, sock |-> s]>>
               /\ kind # "write" => IdleAt(s, io[s], q)
    BY <1>1, <1>3, <1>5, <1>6, <1>7, <1>8
  <1> QED
    BY <1>2, <1>6, <1>9, EventStep

LEMMA AcceptDoneStep ==
    ASSUME IocpInv, accept_done
    PROVE  IocpInv'
  <1>1. Gets({"read", "ENDED"}) /\ port' = Tail(port)
    BY DEF accept_done
  <1>2. UNCHANGED <<role, num, event_maps, io, ended>>
    BY DEF accept_done
  <1>3. /\ Source \in Sock /\ InMap(Source) /\ Moved(Tail(port)) /\ ev[Source] \in EventFields
        /\ IdleAt(Source, io[Source], Tail(port))
    BY <1>1, Taken
  <1>4. PICK s \in Sock : s = Source
    BY <1>3
  <1>5. PICK q : q = Tail(port)
    OBVIOUS
  <1>6. ev \in [Sock -> EventFields]
    BY DEF IocpInv, Shape
  <1>7. CASE Own.accept_socket
    <2>1. PICK e : e = [ev[Source] EXCEPT !.accept_socket = FALSE, !.is_in_read = FALSE]
      OBVIOUS
    <2>2. /\ ev' = [ev EXCEPT ![Source] = e] /\ UNCHANGED panicked
          /\ running' = <<[kind |-> "accept", sock |-> Source]>>
      BY <1>3, <1>6, <1>7, <2>1 DEF accept_done, Calls
    <2>3. /\ e \in EventFields /\ e.is_end = ev[Source].is_end /\ e.drained = ev[Source].drained
          /\ e.submitted = ev[Source].submitted
      BY <1>3, <2>1, Cleared
    <2>4. /\ InMap(s) /\ Moved(q) /\ e.is_end = ev[s].is_end /\ e.drained = ev[s].drained
          /\ e.submitted = ev[s].submitted /\ ev' = [ev EXCEPT ![s] = e] /\ port' = q
          /\ \E kind \in {"accept", "read", "write"} :
                 /\ running' = <<[kind |-> kind, sock |-> s]>>
                 /\ kind # "write" => IdleAt(s, io[s], q)
      BY <1>1, <1>3, <1>4, <1>5, <2>2, <2>3
    <2> QED
      BY <1>2, <2>2, <2>3, <2>4, EventStep
  <1>8. CASE ~Own.accept_socket
    <2>1. panicked' = TRUE /\ UNCHANGED <<ev, running>>
      BY <1>8 DEF accept_done
    <2>2. PICK e : e = ev[s]
      OBVIOUS
    <2>3. /\ e \in EventFields /\ e.is_end = ev[s].is_end /\ e.drained = ev[s].drained
          /\ e.submitted = ev[s].submitted
      BY <1>3, <1>4, <2>2
    <2>4. ev' = [ev EXCEPT ![s] = e]
      BY <1>6, <2>1, <2>2
    <2>5. InMap(s) /\ Moved(q) /\ port' = q /\ running' = running /\ panicked' = TRUE
      BY <1>1, <1>3, <1>4, <1>5, <2>1
    <2> QED
      BY <1>2, <2>3, <2>4, <2>5, EventStep
  <1> QED
    BY <1>7, <1>8

LEMMA ReadNoneStep ==
    ASSUME IocpInv, read_none
    PROVE  IocpInv'
  <1>1. Gets({"read"}) /\ UNCHANGED <<role, num, event_maps, running, panicked, ended>>
    BY DEF read_none
  <1>2. PICK o \in unregister_socket(Socket(Source)) : Becomes(o.x, Tail(port))
    BY DEF read_none
  <1>3. Source \in Sock /\ InMap(Source) /\ Moved(Tail(port))
    BY <1>1, Taken
  <1>4. PICK s \in Sock : s = Source
    BY <1>3
  <1>4b. PICK q : q = Tail(port)
    OBVIOUS
  <1>5. o \in unregister_socket(Socket(s)) /\ Becomes(o.x, q) /\ InMap(s) /\ Moved(q)
    BY <1>2, <1>3, <1>4, <1>4b
  <1>6. /\ q \in Port /\ GoodHalf(Socket(s), q) /\ Socket(s).sock = s
        /\ Idle(Socket(s), q) <=> IdleAt(s, io[s], q)
    BY <1>5, SocketMade
  <1>7. GoodHalf(o.x, q) /\ o.x.sock = s /\ (IdleAt(s, io[s], q) => Idle(o.x, q))
    BY <1>5, <1>6, UnregisterFollows DEF Follows
  <1> QED
    BY <1>1, <1>5, <1>7, MethodStep

LEMMA ReadEndedStep ==
    ASSUME IocpInv, read_ended
    PROVE  IocpInv'
  <1>1. /\ Gets({"ENDED"}) /\ port' = Tail(port)
        /\ running' = <<[kind |-> "end", sock |-> Source]>>
        /\ event_maps' = Without(event_maps, num[Source]) /\ ended' = ended \cup {Source}
        /\ UNCHANGED <<role, num, ev, io, panicked>>
    BY DEF read_ended, Calls
  <1>2. PICK s : s = Source
    OBVIOUS
  <1>3. PICK q : q = Tail(port)
    OBVIOUS
  <1>4. /\ s \in Sock /\ InMap(s) /\ Moved(q)
        /\ io[s].reads = 0 /\ io[s].writes = 0
        /\ \A i \in 1 .. Len(q) : q[i].sock # s
    BY <1>1, <1>2, <1>3, Taken
  <1>5. /\ q \in Port
        /\ \A t \in Sock :
               /\ Good(t, ev[t], io[t], q)
               /\ (\A i \in 1 .. Len(port) : port[i].sock # t) => \A i \in 1 .. Len(q) : q[i].sock # t
    BY <1>4, MovedPort
  <1>6. Shape
    BY DEF IocpInv
  <1>7. role[s] # "none" /\ num[s] \in DOMAIN event_maps /\ event_maps[num[s]] = s
    BY <1>4, MappedSocket DEF InMap, Registered
  <1>8. /\ DOMAIN event_maps' = DOMAIN event_maps \ {num[s]}
        /\ \A n \in DOMAIN event_maps' : event_maps'[n] = event_maps[n]
        /\ event_maps' \in [DOMAIN event_maps' -> Sock]
    BY <1>1, <1>2, <1>6 DEF Without, Restrict, Shape
  <1>9. \A n \in DOMAIN event_maps' : event_maps[n] # s
    BY <1>8 DEF IocpInv, MapOK
  <1>10. \A t \in Sock \ {s} : ~(num[t] \in DOMAIN event_maps' /\ event_maps'[num[t]] = t) => ~InMap(t)
    BY <1>7, <1>8 DEF InMap, Registered
  <1>11. port' = q /\ ended' = ended \cup {s} /\ running' = <<[kind |-> "end", sock |-> s]>>
    BY <1>1, <1>2, <1>3
  <1>12. Shape'
    <2>1. \E kind \in {"accept", "read", "write", "end"}, t \in Sock :
              running' = <<[kind |-> kind, sock |-> t]>>
      BY <1>4, <1>11
    <2> QED
      BY <1>1, <1>4, <1>5, <1>6, <1>8, <1>11, <2>1 DEF Shape
  <1>13. (\A t \in Sock : Good(t, ev[t], io[t], port))'
    BY <1>1, <1>5, <1>11
  <1>14. MapOK'
    BY <1>1, <1>8, <1>9, <1>11 DEF IocpInv, MapOK
  <1>15. Quiet'
    <2> SUFFICES ASSUME NEW t \in Sock, ~(num[t] \in DOMAIN event_maps' /\ event_maps'[num[t]] = t)
                 PROVE  /\ io[t].reads = 0 /\ io[t].writes = 0
                        /\ \A i \in 1 .. Len(q) : q[i].sock # t
      BY <1>1, <1>11 DEF Quiet, InMap, Registered
    <2>1. CASE t = s
      BY <1>4, <2>1
    <2>2. CASE t # s
      BY <1>5, <1>10, <2>2 DEF IocpInv, Quiet
    <2> QED
      BY <2>1, <2>2
  <1>16. Fresh'
    BY <1>1, <1>7, <1>11 DEF IocpInv, Fresh
  <1>17. CallOK'
    <2>1. running'[1].kind = "end" /\ running'[1].sock = s
      BY <1>11
    <2> QED
      BY <1>1, <1>7, <1>11, <2>1 DEF CallOK, Self
  <1> QED
    BY <1>12, <1>13, <1>14, <1>15, <1>16, <1>17 DEF IocpInv

-----------------------------------------------------------------------------
(* Callbacks return. *)

LEMMA EndReturnsStep ==
    ASSUME IocpInv, end_returns
    PROVE  IocpInv'
  <1>1. /\ running # <<>> /\ running[1].kind = "end" /\ running' = <<>>
        /\ ev' = [ev EXCEPT ![Self] = NoEvent] /\ io' = [io EXCEPT ![Self] = NoIo]
        /\ UNCHANGED <<role, num, event_maps, port, panicked, ended>>
    BY DEF end_returns, Back
  <1>2. Shape /\ CallOK
    BY DEF IocpInv
  <1>3. Self \in Sock /\ Self \in ended /\ role[Self] # "none"
    BY <1>1, <1>2 DEF Shape, CallOK, Self
  <1>4. ~InMap(Self)
    BY <1>3, MappedSocket
  <1>5. \A i \in 1 .. Len(port) : port[i].sock # Self
    BY <1>3, <1>4 DEF IocpInv, Quiet
  <1>6. PICK s \in Sock : s = Self
    BY <1>3
  <1>7. /\ ev' \in [Sock -> EventFields] /\ io' \in [Sock -> IoFields]
        /\ ev'[s] = NoEvent /\ io'[s] = NoIo
        /\ \A t \in Sock \ {s} : ev'[t] = ev[t] /\ io'[t] = io[t]
    BY <1>1, <1>2, <1>6, NothingYet DEF Shape
  <1>8. Shape'
    BY <1>1, <1>2, <1>7 DEF Shape
  <1>9. (\A t \in Sock : Good(t, ev[t], io[t], port))'
    <2> SUFFICES ASSUME NEW t \in Sock PROVE Good(t, ev'[t], io'[t], port)
      BY <1>1
    <2>1. CASE t = s
      BY <1>2, <1>5, <1>6, <1>7, <2>1, NothingYet DEF Shape
    <2>2. CASE t # s
      BY <1>7, <2>2 DEF IocpInv
    <2> QED
      BY <2>1, <2>2
  <1>10. MapOK'
    BY <1>1 DEF IocpInv, MapOK
  <1>11. Quiet'
    <2> SUFFICES ASSUME NEW t \in Sock, ~InMap(t)
                 PROVE  /\ io'[t].reads = 0 /\ io'[t].writes = 0
                        /\ \A i \in 1 .. Len(port) : port[i].sock # t
      BY <1>1 DEF Quiet, InMap, Registered
    <2>1. CASE t = s
      BY <1>5, <1>6, <1>7, <2>1, NothingYet
    <2>2. CASE t # s
      BY <1>7, <2>2 DEF IocpInv, Quiet
    <2> QED
      BY <2>1, <2>2
  <1>12. Fresh'
    BY <1>1, <1>3, <1>6, <1>7 DEF IocpInv, Fresh
  <1>13. CallOK'
    BY <1>1 DEF CallOK
  <1> QED
    BY <1>8, <1>9, <1>10, <1>11, <1>12, <1>13 DEF IocpInv

(* A callback that is not an end callback runs for a socket in the map, and
   finds it under its number. *)
LEMMA Running ==
    ASSUME IocpInv, running # <<>>, running[1].kind # "end"
    PROVE  /\ Self \in Sock /\ InMap(Self) /\ Registered(Here) /\ event_maps[Here] = Self
           /\ running[1].kind \in {"read", "accept"} => IdleAt(Self, io[Self], port)
  BY DEF IocpInv, Shape, CallOK, Self, Here, InMap, Registered

LEMMA CallbackOverStep ==
    ASSUME IocpInv, callback_over
    PROVE  IocpInv'
  <1>1. /\ running # <<>> /\ running[1].kind # "end" /\ running' = <<>>
        /\ UNCHANGED <<role, num, event_maps, panicked, ended>>
    BY DEF callback_over, Back
  <1>2. Self \in Sock /\ InMap(Self) /\ Registered(Here) /\ event_maps[Here] = Self
    BY <1>1, Running
  <1>3. PICK s \in Sock : s = Self
    BY <1>2
  <1>4. PICK o \in unregister_socket(Socket(s)) : Becomes(o.x, port)
    BY <1>2, <1>3 DEF callback_over
  <1>5. port \in Port /\ GoodHalf(Socket(s), port) /\ Socket(s).sock = s
    BY SocketMade DEF Moved
  <1>6. GoodHalf(o.x, port) /\ o.x.sock = s
    BY <1>4, <1>5, UnregisterFollows DEF Follows
  <1> QED
    BY <1>1, <1>2, <1>3, <1>4, <1>6, MethodStep DEF Moved

LEMMA WriteReturnsStep ==
    ASSUME IocpInv, write_returns
    PROVE  IocpInv'
  <1>1. /\ running # <<>> /\ running[1].kind # "end" /\ running' = <<>>
        /\ UNCHANGED <<role, num, event_maps, panicked, ended>>
    BY DEF write_returns, Back
  <1>2. Self \in Sock /\ InMap(Self) /\ Registered(Here) /\ event_maps[Here] = Self
    BY <1>1, Running
  <1>3. PICK s \in Sock : s = Self
    BY <1>2
  <1>4. /\ port \in Port /\ GoodHalf(Socket(s), port) /\ Socket(s).sock = s
    BY SocketMade DEF Moved
  <1>5. CASE \E o \in post_write_event(Socket(event_maps[Here])) : Becomes(o.x, port)
    <2>1. PICK o \in post_write_event(Socket(s)) : Becomes(o.x, port)
      BY <1>2, <1>3, <1>5
    <2>2. GoodHalf(o.x, port) /\ o.x.sock = s
      BY <1>4, <2>1, PostWriteFollows DEF Follows
    <2> QED
      BY <1>1, <1>2, <1>3, <2>1, <2>2, MethodStep DEF Moved
  <1>6. CASE UNCHANGED <<ev, io, port>>
    <2>1. PICK e : e = ev[s]
      OBVIOUS
    <2>2. /\ e \in EventFields /\ e.is_end = ev[s].is_end /\ e.drained = ev[s].drained
          /\ e.submitted = ev[s].submitted /\ ev' = [ev EXCEPT ![s] = e]
      BY <1>6, <2>1 DEF IocpInv, Shape
    <2>3. io' = io /\ port' = port /\ InMap(s)
      BY <1>2, <1>3, <1>6
    <2> QED
      BY <1>1, <2>2, <2>3, EventStep DEF Moved
  <1> QED
    BY <1>5, <1>6 DEF write_returns

LEMMA OneShotKeeps ==
    ASSUME NEW e \in EventFields, NEW drop, NEW f, f = OneShot(e, drop)
    PROVE  /\ f \in EventFields /\ f.is_end = e.is_end /\ f.drained = e.drained
           /\ f.submitted = e.submitted
           /\ f.is_in_read = e.is_in_read /\ f.is_in_write = e.is_in_write
           /\ f.accept_buf = e.accept_buf
  <1>1. CASE "PERSIST" \in e.flags
    BY <1>1 DEF OneShot
  <1>2. CASE "PERSIST" \notin e.flags
    <2>1. f = [e EXCEPT !.flags = e.flags \ drop]
      BY <1>2 DEF OneShot
    <2>2. e.flags \ drop \in SUBSET Flag
      BY FieldsOfEvent
    <2> QED
      BY <2>1, <2>2 DEF EventFields
  <1> QED
    BY <1>1, <1>2

LEMMA PostsAnswer ==
    ASSUME NEW x, NEW o, o \in post_read_event(x) \/ o \in post_accept_event(x)
    PROVE  o = Outcome(o.x, o.ok)
  <1>1. \A y, b : Outcome(y, b) = Outcome(Outcome(y, b).x, Outcome(y, b).ok)
    BY DEF Outcome
  <1>2. \E y, b : o = Outcome(y, b)
    BY DEF post_read_event, post_accept_event, Reads
  <1> QED
    BY <1>1, <1>2

LEMMA RearmedFollows ==
    ASSUME NEW q \in Port, NEW o, o = Outcome(o.x, o.ok), GoodHalf(o.x, q), o.ok \in BOOLEAN,
           NEW r \in Rearmed(o)
    PROVE  GoodHalf(r.x, q) /\ r.x.sock = o.x.sock
  <1>1. CASE ~o.ok
    BY <1>1, UnregisterFollows DEF Rearmed, Follows
  <1>2. CASE o.ok /\ r = o
    BY <1>2
  <1>3. CASE o.ok /\ r # o
    <2>1. r = [o EXCEPT !.x.ev.is_in_read = TRUE]
      BY <1>3 DEF Rearmed
    <2>2. PICK yes \in BOOLEAN : yes = TRUE
      OBVIOUS
    <2>3. PICK x : x = o.x
      OBVIOUS
    <2>4. r.x = [x EXCEPT !.ev = [x.ev EXCEPT !.is_in_read = yes]]
      <3>1. PICK b : b = o.ok
        OBVIOUS
      <3>2. o = [x |-> x, ok |-> b]
        BY <2>3, <3>1, Zenon DEF Outcome
      <3>3. r = [o EXCEPT !.x.ev.is_in_read = yes]
        BY <2>1, <2>2
      <3>4. [[x |-> x, ok |-> b] EXCEPT !.x.ev.is_in_read = yes].x
                = [x EXCEPT !.ev = [x.ev EXCEPT !.is_in_read = yes]]
        OBVIOUS
      <3> QED
        BY <3>2, <3>3, <3>4
    <2>5. /\ x \in Half /\ x.ev \in EventFields /\ Good(x.sock, x.ev, x.io, q \o x.out)
          /\ \A i \in 1 .. Len(x.out) : x.out[i].sock = x.sock
      BY <2>3 DEF GoodHalf, Half
    <2>6. PICK e : e = [x.ev EXCEPT !.is_in_read = yes]
      OBVIOUS
    <2>7. /\ e \in EventFields /\ e.is_end = x.ev.is_end /\ e.drained = x.ev.drained
          /\ e.submitted = x.ev.submitted
      BY <2>5, <2>6 DEF EventFields
    <2>8. Good(x.sock, e, x.io, q \o x.out)
      <3>1. e.submitted >= x.ev.submitted
        BY <2>5, <2>7, FieldsOfEvent
      <3> QED
        BY <2>5, <2>7, <3>1, SameEvent
    <2>9. /\ r.x.sock = x.sock /\ r.x.ev = e /\ r.x.io = x.io /\ r.x.out = x.out /\ r.x \in Half
      BY <2>4, <2>5, <2>6, <2>7 DEF Half
    <2> QED
      BY <2>3, <2>5, <2>8, <2>9 DEF GoodHalf
  <1> QED
    BY <1>1, <1>2, <1>3

(* Where the rest of read_done begins. *)
LEMMA ShotBegins ==
    ASSUME IocpInv, running # <<>>, running[1].kind \in {"read", "accept"},
           NEW drop, NEW x, x = [Socket(Self) EXCEPT !.ev = OneShot(ev[Self], drop)]
    PROVE  /\ Self \in Sock /\ InMap(Self) /\ Begins(x, Self) /\ Idle(x, port)
           /\ x.ev = OneShot(ev[Self], drop) /\ x.io = io[Self]
           /\ Buffered(x.ev) = Buffered(ev[Self])
           /\ ev' = [ev EXCEPT ![Self] = x.ev] /\ UNCHANGED <<io, port>> => Becomes(x, port)
  <1>1. Self \in Sock /\ InMap(Self) /\ IdleAt(Self, io[Self], port)
    BY Running
  <1>2. PICK s \in Sock : s = Self
    BY <1>1
  <1>3. /\ ev[s] \in EventFields /\ io[s] \in IoFields /\ port \in Port
        /\ Good(s, ev[s], io[s], port) /\ io \in [Sock -> IoFields]
    BY DEF IocpInv, Shape
  <1>4. PICK e : e = OneShot(ev[s], drop)
    OBVIOUS
  <1>5. /\ e \in EventFields /\ e.is_end = ev[s].is_end /\ e.drained = ev[s].drained
        /\ e.submitted = ev[s].submitted
        /\ e.is_in_read = ev[s].is_in_read /\ e.is_in_write = ev[s].is_in_write
        /\ e.accept_buf = ev[s].accept_buf
    BY <1>3, <1>4, OneShotKeeps
  <1>6. PICK k : k = io[s]
    OBVIOUS
  <1>7. PICK y : y = [sock |-> s, ev |-> e, io |-> k, out |-> <<>>]
    OBVIOUS
  <1>7a. x = y
    BY <1>2, <1>4, <1>6, <1>7 DEF Socket
  <1>8. Good(s, e, k, port)
    <2>1. e.submitted >= ev[s].submitted
      BY <1>3, <1>5, FieldsOfEvent
    <2> QED
      BY <1>3, <1>5, <1>6, <2>1, SameEvent
  <1>9. /\ GoodHalf(x, port) /\ x.sock = s /\ x.ev = e /\ x.io = k /\ x.out = <<>>
        /\ Idle(x, port)
    <2>1. y.out = <<>>
      BY <1>7
    <2>2. IdleAt(s, k, port) /\ k \in IoFields
      BY <1>1, <1>2, <1>3, <1>6
    <2>3. /\ GoodHalf(y, port) /\ y.sock = s /\ y.ev = e /\ y.io = k
          /\ Idle(y, port) <=> IdleAt(s, k, port)
      BY <1>3, <1>5, <1>7, <1>8, <2>2, HalfMade
    <2> QED
      BY <1>7a, <2>1, <2>2, <2>3, Zenon
  <1>10. Begins(x, s) /\ Buffered(x.ev) = Buffered(ev[s])
    BY <1>5, <1>6, <1>9 DEF Begins, Buffered
  <1>11. ev' = [ev EXCEPT ![s] = x.ev] /\ UNCHANGED <<io, port>> => Becomes(x, port)
    <2>1. port \o x.out = port
      BY <1>3, <1>9, ConcatEmptySeq DEF Port
    <2>2. io = [io EXCEPT ![s] = k]
      BY <1>3, <1>6
    <2> QED
      BY <1>9, <2>1, <2>2 DEF Becomes
  <1> QED
    BY <1>1, <1>2, <1>4, <1>6, <1>9, <1>10, <1>11

LEMMA ReadReturnsComes ==
    ASSUME IocpInv, read_returns
    PROVE  /\ running # <<>> /\ running[1].kind = "read" /\ running' = <<>>
           /\ UNCHANGED <<role, num, event_maps, panicked, ended>>
           /\ \E x :
                  /\ x = [Socket(Self) EXCEPT !.ev = OneShot(ev[Self], {"READ"})]
                  /\ \/ "READ" \notin x.ev.flags /\ Becomes(x, port)
                     \/ /\ "READ" \in x.ev.flags
                        /\ \E o \in post_read_event(x) : \E r \in Rearmed(o) : Becomes(r.x, port)
  <1>1. /\ running # <<>> /\ running[1].kind = "read" /\ running' = <<>>
        /\ UNCHANGED <<role, num, event_maps, panicked, ended>>
    BY DEF read_returns, Back
  <1>2. PICK x : x = [Socket(Self) EXCEPT !.ev = OneShot(ev[Self], {"READ"})]
    OBVIOUS
  <1>3. Registered(Here) /\ event_maps[Here] = Self
    BY <1>1, Running
  <1>4. /\ x.ev = OneShot(ev[Self], {"READ"})
        /\ ev' = [ev EXCEPT ![Self] = x.ev] /\ UNCHANGED <<io, port>> => Becomes(x, port)
    BY <1>1, <1>2, ShotBegins
  <1>5. \/ /\ "READ" \in OneShot(ev[Self], {"READ"}).flags
           /\ \E o \in post_read_event([Socket(Self) EXCEPT !.ev = OneShot(ev[Self], {"READ"})]) :
              \E r \in Rearmed(o) : Becomes(r.x, port)
        \/ /\ "READ" \notin OneShot(ev[Self], {"READ"}).flags
           /\ ev' = [ev EXCEPT ![Self] = OneShot(ev[Self], {"READ"})] /\ UNCHANGED <<io, port>>
    BY <1>3 DEF read_returns, Repost
  <1> QED
    BY <1>1, <1>2, <1>4, <1>5

LEMMA AcceptReturnsComes ==
    ASSUME IocpInv, accept_returns
    PROVE  /\ running # <<>> /\ running[1].kind = "accept" /\ running' = <<>>
           /\ UNCHANGED <<role, num, event_maps, panicked, ended>>
           /\ \E x :
                  /\ x = [Socket(Self) EXCEPT !.ev = OneShot(ev[Self], {"READ", "ACCEPT"})]
                  /\ \/ "ACCEPT" \notin x.ev.flags /\ Becomes(x, port)
                     \/ /\ "ACCEPT" \in x.ev.flags
                        /\ \E o \in post_accept_event(x) : \E r \in Rearmed(o) : Becomes(r.x, port)
  <1>1. /\ running # <<>> /\ running[1].kind = "accept" /\ running' = <<>>
        /\ UNCHANGED <<role, num, event_maps, panicked, ended>>
    BY DEF accept_returns, Back
  <1> DEFINE drop == {"READ", "ACCEPT"}
  <1>2. PICK x : x = [Socket(Self) EXCEPT !.ev = OneShot(ev[Self], drop)]
    OBVIOUS
  <1>3. Registered(Here) /\ event_maps[Here] = Self
    BY <1>1, Running
  <1>4. /\ x.ev = OneShot(ev[Self], drop)
        /\ ev' = [ev EXCEPT ![Self] = x.ev] /\ UNCHANGED <<io, port>> => Becomes(x, port)
    BY <1>1, <1>2, ShotBegins
  <1>5. \/ /\ "ACCEPT" \in OneShot(ev[Self], drop).flags
           /\ \E o \in post_accept_event([Socket(Self) EXCEPT !.ev = OneShot(ev[Self], drop)]) :
              \E r \in Rearmed(o) : Becomes(r.x, port)
        \/ /\ "ACCEPT" \notin OneShot(ev[Self], drop).flags
           /\ ev' = [ev EXCEPT ![Self] = OneShot(ev[Self], drop)] /\ UNCHANGED <<io, port>>
    BY <1>3 DEF accept_returns, Repost
  <1> QED
    BY <1>1, <1>2, <1>4, <1>5

(* What read_returns and accept_returns have in common. *)
LEMMA RepostStep ==
    ASSUME IocpInv, running # <<>>, running[1].kind \in {"read", "accept"}, running' = <<>>,
           UNCHANGED <<role, num, event_maps, panicked, ended>>,
           NEW drop, NEW x, x = [Socket(Self) EXCEPT !.ev = OneShot(ev[Self], drop)],
           \/ \E o \in post_read_event(x) \cup post_accept_event(x) :
              \E r \in Rearmed(o) : Becomes(r.x, port)
           \/ Becomes(x, port)
    PROVE  IocpInv'
  <1>1. PICK s : s = Self
    OBVIOUS
  <1>2. /\ s \in Sock /\ InMap(s) /\ GoodHalf(x, port) /\ x.sock = s /\ Idle(x, port)
        /\ port \in Port
    BY <1>1, ShotBegins DEF Begins, IocpInv, Shape
  <1>3. CASE Becomes(x, port)
    BY <1>2, <1>3, MethodStep DEF Moved
  <1>4. CASE \E o \in post_read_event(x) \cup post_accept_event(x) :
             \E r \in Rearmed(o) : Becomes(r.x, port)
    <2>1. PICK o \in post_read_event(x) \cup post_accept_event(x) :
              \E r \in Rearmed(o) : Becomes(r.x, port)
      BY <1>4
    <2>2. PICK r \in Rearmed(o) : Becomes(r.x, port)
      BY <2>1
    <2>3. GoodHalf(o.x, port) /\ o.x.sock = s /\ o.ok \in BOOLEAN
      BY <1>2, <2>1, PostReadFollows, PostAcceptFollows DEF Follows
    <2>4. o = Outcome(o.x, o.ok)
      BY <2>1, PostsAnswer
    <2>5. GoodHalf(r.x, port) /\ r.x.sock = s
      BY <1>2, <2>2, <2>3, <2>4, RearmedFollows
    <2> QED
      BY <1>2, <2>2, <2>5, MethodStep DEF Moved
  <1> QED
    BY <1>3, <1>4

LEMMA ReturnsStep ==
    ASSUME IocpInv, read_returns \/ accept_returns
    PROVE  IocpInv'
  <1>1. CASE read_returns
    <2>1. PICK x : /\ x = [Socket(Self) EXCEPT !.ev = OneShot(ev[Self], {"READ"})]
                   /\ \/ "READ" \notin x.ev.flags /\ Becomes(x, port)
                      \/ \E o \in post_read_event(x) : \E r \in Rearmed(o) : Becomes(r.x, port)
      BY <1>1, ReadReturnsComes
    <2>2. /\ running # <<>> /\ running[1].kind = "read" /\ running' = <<>>
          /\ UNCHANGED <<role, num, event_maps, panicked, ended>>
      BY <1>1, ReadReturnsComes
    <2> QED
      BY <2>1, <2>2, RepostStep
  <1>2. CASE accept_returns
    <2>1. PICK x : /\ x = [Socket(Self) EXCEPT !.ev = OneShot(ev[Self], {"READ", "ACCEPT"})]
                   /\ \/ "ACCEPT" \notin x.ev.flags /\ Becomes(x, port)
                      \/ \E o \in post_accept_event(x) : \E r \in Rearmed(o) : Becomes(r.x, port)
      BY <1>2, AcceptReturnsComes
    <2>2. /\ running # <<>> /\ running[1].kind = "accept" /\ running' = <<>>
          /\ UNCHANGED <<role, num, event_maps, panicked, ended>>
      BY <1>2, AcceptReturnsComes
    <2> QED
      BY <2>1, <2>2, RepostStep
  <1> QED
    BY <1>1, <1>2

-----------------------------------------------------------------------------
(* A step of the selector, and every state. *)

LEMMA SameState ==
    ASSUME IocpInv, UNCHANGED vars
    PROVE  IocpInv'
  <1>1. UNCHANGED <<role, num, event_maps, ev, io, port, running, panicked, ended>>
    BY DEF vars
  <1>2. Shape' /\ MapOK'
    BY <1>1 DEF IocpInv, Shape, MapOK
  <1>3. (\A s \in Sock : Good(s, ev[s], io[s], port))'
    BY <1>1 DEF IocpInv
  <1>4. Quiet'
    BY <1>1 DEF IocpInv, Quiet, InMap, Registered
  <1>5. Fresh' /\ CallOK'
    BY <1>1 DEF IocpInv, Fresh, CallOK, Self, InMap, Registered
  <1> QED
    BY <1>2, <1>3, <1>4, <1>5 DEF IocpInv

LEMMA NextStep ==
    ASSUME ~Reuse, Prefill = 0, IocpInv, [Next]_vars
    PROVE  IocpInv'
  <1>1. CASE UserCall
    BY <1>1, RegisterStep, ModifyStep, SendStep, UnregisterStep DEF UserCall
  <1>2. CASE Kernel
    BY <1>2, KernelStep DEF Kernel
  <1>3. CASE select_timeout
    BY <1>3, SameState DEF select_timeout
  <1>4. CASE Dispatch
    BY <1>4, WriteDoneStep, AcceptDoneStep, ReadDoneStep, ReadNoneStep, ReadEndedStep DEF Dispatch
  <1>5. CASE Return
    BY <1>5, CallbackOverStep, WriteReturnsStep, ReturnsStep, EndReturnsStep DEF Return
  <1>6. CASE UNCHANGED vars
    BY <1>6, SameState
  <1> QED
    BY <1>1, <1>2, <1>3, <1>4, <1>5, <1>6 DEF Next

(* The inductive invariant holds of every state, when the system does not hand out
   a number whose Event is still in event_maps and a socket is registered with an
   empty EventBuffer. *)
THEOREM IocpInvariant ==
    ASSUME ~Reuse, Prefill = 0
    PROVE  Spec => []IocpInv
  <1>1. Init => IocpInv
    BY InitInv
  <1>2. IocpInv /\ [Next]_vars => IocpInv'
    BY NextStep
  <1> QED
    BY <1>1, <1>2, PTL DEF Spec

(* Every variable keeps its type, and no buffer is drained past what was put into
   it (selector.rs:25-36, 330-398). *)
THEOREM IocpTypeCorrect ==
    ASSUME ~Reuse, Prefill = 0
    PROVE  Spec => []TypeOK
  <1>1. IocpInv => TypeOK
    BY DEF IocpInv, Shape, Port, Good, TypeOK
  <1> QED
    BY <1>1, IocpInvariant, PTL

(* An Event is dropped with nothing of it left in the kernel or in the port
   (from_raw_arc.rs:11-12; selector.rs:208-224, 466-483), even where posting the
   ENDED packet fails. *)
THEOREM IocpDroppedIsQuiet ==
    ASSUME ~Reuse, Prefill = 0
    PROVE  Spec => []DroppedIsQuiet
  <1>1. IocpInv => DroppedIsQuiet
    <2> SUFFICES ASSUME IocpInv, NEW s \in Sock, ~InMap(s)
                 PROVE  io[s].reads + io[s].writes = 0 /\ \A i \in DOMAIN port : port[i].sock # s
      BY DEF DroppedIsQuiet
    <2>1. DOMAIN port = 1 .. Len(port)
      BY LenProperties DEF IocpInv, Shape, Port
    <2> QED
      BY <2>1 DEF IocpInv, Quiet
  <1> QED
    BY <1>1, IocpInvariant, PTL

(* The same data is never handed to the kernel twice before a send was left
   pending (selector.rs:330-355). *)
THEOREM IocpSentOnce ==
    ASSUME ~Reuse, Prefill = 0
    PROVE  Spec => []SentOnceUntilPending
  <1>1. IocpInv => SentOnceUntilPending
    BY DEF IocpInv, Good, SideOK, SentOnceUntilPending
  <1> QED
    BY <1>1, IocpInvariant, PTL

(* A socket that modify_socket has not touched has one read or accept at most,
   with the kernel or in the port, whatever its callbacks and the errors of posts
   do (selector.rs:122-224, 312). *)
THEOREM IocpOneRead ==
    ASSUME ~Reuse, Prefill = 0
    PROVE  Spec => []OneReadUntilModified
  <1>1. IocpInv => OneReadUntilModified
    <2> SUFFICES ASSUME IocpInv, NEW s \in Sock, ~io[s].modified
                 PROVE  Reading(s) <= 1
      BY DEF OneReadUntilModified
    <2>1. io[s].reads \in Nat /\ OneReadAt(s, io[s], port)
      BY DEF IocpInv, Shape, IoFields, Good
    <2>2. DOMAIN port = 1 .. Len(port)
      BY LenProperties DEF IocpInv, Shape, Port
    <2>3. CASE PacketsAt(s, "read") = {}
      <3>1. Cardinality(PacketsAt(s, "read")) = 0
        BY <2>3, FS_EmptySet
      <3> QED
        BY <2>1, <3>1 DEF Reading, OneReadAt
    <2>4. CASE PacketsAt(s, "read") # {}
      <3>1. PICK i \in 1 .. Len(port) : IsRead(s, port[i])
        BY <2>2, <2>4 DEF PacketsAt, IsRead
      <3>2. io[s].reads = 0 /\ \A j \in 1 .. Len(port) : IsRead(s, port[j]) => j = i
        BY <2>1, <3>1 DEF OneReadAt
      <3>3. PacketsAt(s, "read") = {i}
        BY <2>2, <3>1, <3>2 DEF PacketsAt, IsRead
      <3>4. Cardinality(PacketsAt(s, "read")) = 1
        BY <3>3, FS_Singleton
      <3> QED
        BY <3>2, <3>4 DEF Reading
    <2> QED
      BY <2>3, <2>4
  <1> QED
    BY <1>1, IocpInvariant, PTL
-----------------------------------------------------------------------------
(* What a socket waits for is under way: with the kernel, or as a packet in the
   port p. *)
IsWrite(s, packet) == packet.sock = s /\ packet.kind = "write"

HasRead(s, k, p)  == k.reads >= 1 \/ \E i \in 1 .. Len(p) : IsRead(s, p[i])
HasWrite(s, k, p) == k.writes >= 1 \/ \E i \in 1 .. Len(p) : IsWrite(s, p[i])

(* The callback of s that runs, if any. *)
CallIn(r, s) == IF r # <<>> /\ r[1].sock = s THEN r[1].kind ELSE "none"

(* Event e must have a read under way, while callback c of its socket runs: when
   it asks for one or believes in one.  The rest of read_done posts what the
   Event asked for when its packet came, so in a read or accept callback only
   what modify_socket has added since must be. *)
Asks(e) == e.flags \cap {"READ", "ACCEPT"} # {}

ReadWanted(c, e) ==
    CASE c = "read"   -> "ACCEPT" \in e.flags
      [] c = "accept" -> "READ" \in e.flags /\ "ACCEPT" \notin e.flags
      [] OTHER        -> e.is_in_read \/ Asks(e)

ReadLive(c, s, e, k, p) ==
    ~e.is_end => /\ c \in {"read", "accept"} => ~e.is_in_read
                 /\ ReadWanted(c, e) => HasRead(s, k, p)

(* It must have a write under way when it has data to write or believes in one.
   After a write callback the rest of write_done posts the data. *)
Unsent(e, k) == ~k.broken /\ Buffered(e) > 0

WriteLive(c, s, e, k, p) ==
    ~e.is_end => (e.is_in_write \/ (c # "write" /\ Unsent(e, k)) => HasWrite(s, k, p))

ReadsLive  == \A s \in Sock : ReadLive(CallIn(running, s), s, ev[s], io[s], port)
WritesLive == \A s \in Sock : WriteLive(CallIn(running, s), s, ev[s], io[s], port)

Alive == (panicked \/ ReadsLive) /\ WritesLive

-----------------------------------------------------------------------------
(* More packets come. *)
LEMMA MoreLive ==
    ASSUME NEW s, NEW k, NEW p \in Port, NEW w \in Port
    PROVE  /\ HasRead(s, k, p) => HasRead(s, k, p \o w)
           /\ HasWrite(s, k, p) => HasWrite(s, k, p \o w)
  <1>1. \A i \in 1 .. Len(p) : i \in 1 .. Len(p \o w) /\ (p \o w)[i] = p[i]
    BY ConcatShape
  <1> QED
    BY <1>1, Zenon DEF HasRead, HasWrite

(* The first goes. *)
LEMMA TailLive ==
    ASSUME NEW s, NEW k, NEW p \in Port, p # <<>>
    PROVE  /\ HasRead(s, k, p) /\ ~IsRead(s, Head(p)) => HasRead(s, k, Tail(p))
           /\ HasWrite(s, k, p) /\ ~IsWrite(s, Head(p)) => HasWrite(s, k, Tail(p))
  <1>1. /\ Len(p) \in Nat /\ Head(p) = p[1] /\ Len(Tail(p)) = Len(p) - 1
        /\ \A i \in 1 .. Len(Tail(p)) : Tail(p)[i] = p[i + 1]
    BY TailShape
  <1>2. \A i \in 1 .. Len(p) : i = 1 \/ (i - 1 \in 1 .. Len(Tail(p)) /\ Tail(p)[i - 1] = p[i])
    BY <1>1
  <1> QED
    BY <1>1, <1>2 DEF HasRead, HasWrite

(* Another form of the same socket. *)
LEMMA LiveStays ==
    ASSUME NEW c, NEW s, NEW e, NEW k, NEW p, NEW f, NEW h, NEW r,
           f.is_end = e.is_end, f.is_in_write = e.is_in_write, f.is_in_read = e.is_in_read,
           f.flags = e.flags, Buffered(f) = Buffered(e), h.broken = k.broken,
           HasRead(s, k, p) => HasRead(s, h, r), HasWrite(s, k, p) => HasWrite(s, h, r)
    PROVE  /\ ReadLive(c, s, e, k, p) => ReadLive(c, s, f, h, r)
           /\ WriteLive(c, s, e, k, p) => WriteLive(c, s, f, h, r)
  BY DEF ReadLive, WriteLive, ReadWanted, Asks, Unsent

-----------------------------------------------------------------------------
(* What the post_* functions do to it. *)
ReadHalf(c, x, q)  == ReadLive(c, x.sock, x.ev, x.io, q \o x.out)
WriteHalf(c, x, q) == WriteLive(c, x.sock, x.ev, x.io, q \o x.out)
WillRead(x, q)     == HasRead(x.sock, x.io, q \o x.out)
WillWrite(x, q)    == HasWrite(x.sock, x.io, q \o x.out)

(* y is x with, perhaps, one more read posted. *)
Forward(x, y) ==
    /\ y.sock = x.sock /\ y.out = x.out
    /\ y.ev.flags = x.ev.flags /\ y.ev.is_in_read = x.ev.is_in_read
    /\ y.ev.is_in_write = x.ev.is_in_write /\ y.ev.is_end = x.ev.is_end
    /\ Buffered(y.ev) = Buffered(x.ev) /\ y.ev.accept_buf = x.ev.accept_buf
    /\ y.io.broken = x.io.broken /\ y.io.writes = x.io.writes /\ y.io.reads >= x.io.reads

LEMMA ForwardLive ==
    ASSUME NEW q, NEW x, NEW y, Forward(x, y), x.io.reads \in Nat, y.io.reads \in Nat
    PROVE  /\ WillRead(x, q) => WillRead(y, q)
           /\ WillWrite(x, q) => WillWrite(y, q)
           /\ \A c : WriteHalf(c, x, q) => WriteHalf(c, y, q)
  BY DEF Forward, WillRead, WillWrite, HasRead, HasWrite, WriteHalf, WriteLive, Unsent

LEMMA ForwardMade ==
    ASSUME NEW x, NEW y, y.sock = x.sock, y.out = x.out, y.ev = x.ev,
           y.io.broken = x.io.broken, y.io.writes = x.io.writes, y.io.reads >= x.io.reads
    PROVE  Forward(x, y)
  BY Zenon DEF Forward

LEMMA ForwardSame ==
    ASSUME NEW x \in Half
    PROVE  Forward(x, x) /\ x.io.reads \in Nat
  <1>1. x.io.reads \in Nat /\ x.io.reads >= x.io.reads
    BY DEF Half, IoFields
  <1> QED
    BY <1>1, ForwardMade

LEMMA ReadsForward ==
    ASSUME NEW x \in Half, NEW b \in BOOLEAN
    PROVE  /\ Forward(x, Reads(x, b).x) /\ Reads(x, b).ok = b
           /\ Reads(x, b).x.io.reads \in Nat
           /\ b => Reads(x, b).x.io.reads >= 1
  <1>1. x.io \in IoFields /\ x.io.reads \in Nat
    BY DEF Half, IoFields
  <1>2. CASE b
    <2>1. PICK y : y = [x EXCEPT !.io.reads = @ + 1]
      OBVIOUS
    <2>2. Reads(x, b).x = y /\ Reads(x, b).ok = b
      BY <1>2, <2>1, Outcomes DEF Reads
    <2>3. /\ y.sock = x.sock /\ y.ev = x.ev /\ y.out = x.out
          /\ y.io = [x.io EXCEPT !.reads = @ + 1]
      BY <1>1, <2>1 DEF Half, IoFields
    <2>4. /\ y.io.reads = x.io.reads + 1 /\ y.io.writes = x.io.writes
          /\ y.io.broken = x.io.broken
      BY <1>1, <2>3 DEF IoFields
    <2>5. y.io.reads >= x.io.reads /\ y.io.reads \in Nat /\ y.io.reads >= 1
      BY <1>1, <2>4
    <2>6. Forward(x, y)
      BY <2>3, <2>4, <2>5, ForwardMade
    <2> QED
      BY <2>2, <2>5, <2>6, Zenon
  <1>3. CASE ~b
    <2>1. Reads(x, b).x = x /\ Reads(x, b).ok = b
      BY <1>3, Outcomes DEF Reads
    <2> QED
      BY <1>3, <2>1, ForwardSame, Zenon
  <1> QED
    BY <1>2, <1>3

LEMMA PostReadForward ==
    ASSUME NEW q \in Port, NEW x, GoodHalf(x, q), NEW o \in post_read_event(x)
    PROVE  /\ Forward(x, o.x) /\ o.ok \in BOOLEAN /\ o.x.io.reads \in Nat /\ x.io.reads \in Nat
           /\ o.ok => x.ev.is_end \/ x.ev.is_in_read \/ o.x.io.reads >= 1
  <1>1. x \in Half /\ x.io.reads \in Nat
    BY DEF GoodHalf, Half, IoFields
  <1>2. CASE x.ev.is_end \/ x.ev.is_in_read
    <2>1. o = Outcome(x, TRUE)
      BY <1>2 DEF post_read_event
    <2>2. o.x = x /\ o.ok = TRUE
      BY <2>1, Outcomes
    <2> QED
      BY <1>1, <1>2, <2>2, ForwardSame, Zenon
  <1>3. CASE ~(x.ev.is_end \/ x.ev.is_in_read)
    <2>1. PICK r \in read_overlapped : o = Reads(x, r.ok)
      BY <1>3 DEF post_read_event
    <2>2. PICK b \in BOOLEAN : b = r.ok
      BY Results
    <2>3. o = Reads(x, b)
      BY <2>1, <2>2
    <2>4. /\ Forward(x, o.x) /\ o.ok = b /\ o.x.io.reads \in Nat
          /\ b => o.x.io.reads >= 1
      BY <1>1, <2>3, ReadsForward
    <2> QED
      BY <1>1, <2>4, Zenon
  <1> QED
    BY <1>2, <1>3

LEMMA PostAcceptForward ==
    ASSUME NEW q \in Port, NEW x, GoodHalf(x, q), NEW o \in post_accept_event(x)
    PROVE  /\ Forward(x, o.x) /\ o.ok \in BOOLEAN /\ o.x.io.reads \in Nat /\ x.io.reads \in Nat
           /\ o.ok => x.ev.is_in_read \/ o.x.io.reads >= 1
  <1>1. x \in Half /\ x.io.reads \in Nat /\ x.ev \in EventFields
    BY DEF GoodHalf, Half, IoFields
  <1>2. CASE o = Outcome(x, TRUE) /\ x.ev.is_in_read
    <2>1. o.x = x /\ o.ok = TRUE
      BY <1>2, Outcomes
    <2> QED
      BY <1>1, <1>2, <2>1, ForwardSame, Zenon
  <1>3. CASE o = Outcome(x, FALSE)
    <2>1. o.x = x /\ o.ok = FALSE
      BY <1>3, Outcomes
    <2> QED
      BY <1>1, <2>1, ForwardSame, Zenon
  <1>4. CASE \E r \in accept_overlapped : o = Reads([x EXCEPT !.ev.accept_socket = TRUE], r.ok)
    <2>1. PICK r \in accept_overlapped : o = Reads([x EXCEPT !.ev.accept_socket = TRUE], r.ok)
      BY <1>4
    <2>2. PICK yes \in BOOLEAN : yes = TRUE
      OBVIOUS
    <2>3. PICK y : y = [x EXCEPT !.ev.accept_socket = yes]
      OBVIOUS
    <2>4. /\ y \in Half /\ y.sock = x.sock /\ y.io = x.io /\ y.out = x.out
          /\ y.ev = [x.ev EXCEPT !.accept_socket = yes]
      BY <1>1, <2>3 DEF Half, EventFields
    <2>5. /\ y.ev.flags = x.ev.flags /\ y.ev.is_in_read = x.ev.is_in_read
          /\ y.ev.is_in_write = x.ev.is_in_write /\ y.ev.is_end = x.ev.is_end
          /\ Buffered(y.ev) = Buffered(x.ev) /\ y.ev.accept_buf = x.ev.accept_buf
      BY <1>1, <2>4 DEF EventFields, Buffered
    <2>6. PICK b \in BOOLEAN : b = r.ok
      BY Results
    <2>7. o = Reads(y, b)
      BY <2>1, <2>2, <2>3, <2>6
    <2>8. /\ Forward(y, o.x) /\ o.ok = b /\ o.x.io.reads \in Nat
          /\ b => o.x.io.reads >= 1
      BY <2>4, <2>7, ReadsForward
    <2>9. Forward(x, o.x)
      BY <2>4, <2>5, <2>8, Zenon DEF Forward
    <2> QED
      BY <1>1, <2>8, <2>9, Zenon
  <1>5. \/ o = Outcome(x, TRUE) /\ x.ev.is_in_read
        \/ o = Outcome(x, FALSE)
        \/ \E r \in accept_overlapped : o = Reads([x EXCEPT !.ev.accept_socket = TRUE], r.ok)
    BY DEF post_accept_event
  <1> QED
    BY <1>2, <1>3, <1>4, <1>5

(* y is x after a send: the read side is as it was. *)
Beside(x, y) ==
    /\ y.sock = x.sock
    /\ y.ev.flags = x.ev.flags /\ y.ev.is_in_read = x.ev.is_in_read /\ y.ev.is_end = x.ev.is_end
    /\ y.io.reads = x.io.reads /\ y.io.broken = x.io.broken
    /\ y.ev.accept_buf = x.ev.accept_buf

LEMMA WriteFails ==
    ASSUME NEW len, NEW mayPend, NEW broken \in BOOLEAN,
           NEW r \in write_overlapped(len, broken, mayPend), ~r.ok
    PROVE  broken
  <1> SUFFICES ASSUME ~broken PROVE FALSE
    OBVIOUS
  <1>1. PICK w \in WSASend(slice2buf(len), broken, mayPend) : r = cvt(w)
    BY DEF write_overlapped
  <1>2. \/ \E n : w = Takes(n)
        \/ w = Fails("WSA_IO_PENDING")
    BY <1>1 DEF WSASend
  <1>3. CASE \E n : w = Takes(n)
    BY <1>1, <1>3 DEF Takes, cvt, Ok
  <1>4. CASE w = Fails("WSA_IO_PENDING")
    BY <1>1, <1>4 DEF Fails, cvt, last_err, Ok
  <1> QED
    BY <1>2, <1>3, <1>4

LEMMA LastIs ==
    ASSUME NEW p \in Port, NEW d \in PacketFields
    PROVE  \E i \in 1 .. Len(p \o <<d>>) : (p \o <<d>>)[i] = d
  <1>1. <<d>> \in Seq(PacketFields) /\ Len(<<d>>) = 1 /\ <<d>>[1] = d
    OBVIOUS
  <1>2. PICK w : w = <<d>>
    OBVIOUS
  <1>3. p \in Seq(PacketFields) /\ w \in Seq(PacketFields) /\ Len(w) = 1 /\ w[1] = d
    BY <1>1, <1>2 DEF Port
  <1>4. /\ Len(p \o w) = Len(p) + Len(w)
        /\ \A i \in 1 .. Len(p) + Len(w) : (p \o w)[i] = IF i <= Len(p) THEN p[i] ELSE w[i - Len(p)]
    BY <1>3, ConcatProperties
  <1>5. Len(p) \in Nat
    BY <1>3, LenProperties
  <1>6. Len(p) + 1 \in 1 .. Len(p \o w) /\ (p \o w)[Len(p) + 1] = d
    <2>1. Len(p) + 1 \in 1 .. Len(p) + Len(w) /\ ~(Len(p) + 1 <= Len(p)) /\ (Len(p) + 1) - Len(p) = 1
      BY <1>3, <1>5
    <2> QED
      BY <1>3, <1>4, <2>1
  <1> QED
    BY <1>2, <1>6

LEMMA SendNowLive ==
    ASSUME NEW q \in Port, NEW x, GoodHalf(x, q), ~x.ev.is_end, NEW n \in 1 .. Buffered(x.ev),
           NEW y, y = SendNow(x, n).x
    PROVE  Beside(x, y) /\ (WillRead(x, q) => WillRead(y, q)) /\ WillWrite(y, q)
  <1> DEFINE e == Drained(x.ev, n)
             k == Handed(x.io, x.ev.drained, n)
             out == Append(x.out, PacketOf(x, "write", 0))
  <1>1. /\ x \in Half /\ x.ev \in EventFields /\ x.io \in IoFields /\ x.out \in Port
        /\ q \o x.out \in Port /\ \A i \in 1 .. Len(x.out) : x.out[i].sock = x.sock
    BY HalfStays DEF GoodHalf, Half
  <1>2. y = [x EXCEPT !.ev = e, !.io = k, !.out = out]
    BY Outcomes DEF SendNow
  <1>3. /\ e.flags = x.ev.flags /\ e.is_in_read = x.ev.is_in_read /\ e.is_end = x.ev.is_end
        /\ e.accept_buf = x.ev.accept_buf
    <2> DEFINE b == n < Buffered(x.ev)
    <2>1. b \in BOOLEAN
      OBVIOUS
    <2>2. e = [x.ev EXCEPT !.drained = @ + n, !.is_in_write = b]
      BY DEF Drained
    <2> HIDE DEF b, e
    <2> QED
      BY <1>1, <2>1, <2>2 DEF EventFields
  <1>4. k.reads = x.io.reads /\ k.broken = x.io.broken
    <2> DEFINE b == x.io.resent \/ x.io.given > x.ev.drained
    <2>1. b \in BOOLEAN
      OBVIOUS
    <2>2. k = [x.io EXCEPT !.given = x.ev.drained + n, !.resent = b]
      BY DEF Handed
    <2> HIDE DEF b, k
    <2> QED
      BY <1>1, <2>1, <2>2 DEF IoFields
  <1> HIDE DEF e, k
  <1>5. PICK d : d = PacketOf(x, "write", 0)
    OBVIOUS
  <1>6. d \in PacketFields /\ d.sock = x.sock /\ d.kind = "write" /\ <<d>> \in Port
    BY <1>1, <1>5, PacketsAre
  <1>7. out = x.out \o <<d>>
    BY <1>1, <1>5, <1>6, AppendIsConcat DEF Port
  <1>8. q \o out = (q \o x.out) \o <<d>>
    <2>1. PICK w : w = <<d>>
      OBVIOUS
    <2>2. w \in Port /\ \A i \in 1 .. Len(w) : w[i].sock = x.sock
      BY <1>6, <2>1 DEF Port
    <2>3. q \o (x.out \o w) = (q \o x.out) \o w
      BY <1>1, <2>2, OutGrows
    <2> QED
      BY <1>7, <2>1, <2>3
  <1> HIDE DEF out
  <1>9. y.sock = x.sock /\ y.ev = e /\ y.io = k /\ y.out = out
    BY <1>1, <1>2 DEF Half
  <1>10. Beside(x, y)
    BY <1>3, <1>4, <1>9, Zenon DEF Beside
  <1>11. WillRead(x, q) => WillRead(y, q)
    <2>1. HasRead(x.sock, x.io, q \o x.out) => HasRead(x.sock, x.io, (q \o x.out) \o <<d>>)
      BY <1>1, <1>6, MoreLive
    <2>2. HasRead(x.sock, x.io, q \o out) => HasRead(x.sock, k, q \o out)
      BY <1>4 DEF HasRead
    <2> QED
      BY <1>8, <1>9, <2>1, <2>2, Zenon DEF WillRead
  <1>12. WillWrite(y, q)
    <2>1. \E i \in 1 .. Len(q \o out) : (q \o out)[i] = d
      <3>1. \E i \in 1 .. Len((q \o x.out) \o <<d>>) : ((q \o x.out) \o <<d>>)[i] = d
        BY <1>1, <1>6, LastIs
      <3> QED
        BY <1>8, <3>1, Zenon
    <2> QED
      BY <1>6, <1>9, <2>1, Zenon DEF WillWrite, HasWrite, IsWrite
  <1> QED
    BY <1>10, <1>11, <1>12

LEMMA SendPendingLive ==
    ASSUME NEW q \in Port, NEW x, GoodHalf(x, q), NEW y, y = SendPending(x).x
    PROVE  Beside(x, y) /\ (WillRead(x, q) => WillRead(y, q)) /\ WillWrite(y, q)
  <1> DEFINE h == Handed(x.io, x.ev.drained, slice2buf(Buffered(x.ev)))
             k == Pending(h)
  <1>1. x \in Half /\ x.ev \in EventFields /\ x.io \in IoFields
    BY DEF GoodHalf, Half
  <1>2. y = [x EXCEPT !.io = k]
    BY Outcomes DEF SendPending
  <1>3. /\ h.reads = x.io.reads /\ h.broken = x.io.broken /\ h.writes = x.io.writes
        /\ h \in [open : {h.open}, broken : {h.broken}, reads : {h.reads}, writes : {h.writes},
                  given : {h.given}, resent : {h.resent}, pended : {h.pended},
                  modified : {h.modified}]
    <2>1. PICK n : n = x.ev.drained + slice2buf(Buffered(x.ev))
      OBVIOUS
    <2> DEFINE b == x.io.resent \/ x.io.given > x.ev.drained
    <2>2. b \in BOOLEAN
      OBVIOUS
    <2>3. h = [x.io EXCEPT !.given = n, !.resent = b]
      BY <2>1 DEF Handed
    <2> HIDE DEF b, h
    <2> QED
      BY <1>1, <2>2, <2>3 DEF IoFields
  <1> HIDE DEF h
  <1>4. k.reads = x.io.reads /\ k.broken = x.io.broken /\ k.writes = x.io.writes + 1
    <2>1. k = [h EXCEPT !.writes = h.writes + 1, !.pended = TRUE]
      BY DEF Pending
    <2> QED
      BY <1>3, <2>1
  <1> HIDE DEF k
  <1>5. y.sock = x.sock /\ y.ev = x.ev /\ y.io = k /\ y.out = x.out
    BY <1>1, <1>2 DEF Half
  <1>6. k.writes >= 1
    BY <1>1, <1>4 DEF IoFields
  <1>7. Beside(x, y)
    BY <1>4, <1>5, Zenon DEF Beside
  <1>8. WillRead(x, q) => WillRead(y, q)
    BY <1>4, <1>5, Zenon DEF WillRead, HasRead
  <1>9. WillWrite(y, q)
    BY <1>5, <1>6, Zenon DEF WillWrite, HasWrite
  <1> QED
    BY <1>7, <1>8, <1>9

(* Whatever is buffered has a write under way after a post, unless the connection
   broke. *)
LEMMA PostWriteLive ==
    ASSUME NEW q \in Port, NEW x, GoodHalf(x, q), NEW o \in post_write_event(x)
    PROVE  /\ Beside(x, o.x) /\ o.ok \in BOOLEAN
           /\ WillRead(x, q) => WillRead(o.x, q)
           /\ WriteHalf("write", x, q) => \A c : WriteHalf(c, o.x, q)
  <1>1. /\ x \in Half /\ x.ev \in EventFields /\ x.io \in IoFields /\ Buffered(x.ev) \in Nat
        /\ x.io.broken \in BOOLEAN /\ x.ev.is_end \in BOOLEAN
    BY FieldsOfEvent DEF GoodHalf, Half, Good, Buffered, IoFields
  <1>2. Beside(x, x)
    BY Zenon DEF Beside
  <1>3. CASE o = Outcome(x, TRUE) /\ (x.ev.is_in_write \/ Buffered(x.ev) = 0 \/ x.ev.is_end)
    <2>1. o.x = x /\ o.ok = TRUE
      BY <1>3, Outcomes
    <2>2. WriteHalf("write", x, q) => \A c : WriteHalf(c, x, q)
      BY <1>3 DEF WriteHalf, WriteLive, Unsent
    <2> QED
      BY <1>2, <2>1, <2>2, Zenon
  <1>4. CASE ~x.ev.is_end /\ Buffered(x.ev) # 0
    <2>1. ASSUME NEW r \in write_overlapped(Buffered(x.ev), x.io.broken, MayPend), o = Sent(x, r)
          PROVE  /\ Beside(x, o.x) /\ o.ok \in BOOLEAN
                 /\ WillRead(x, q) => WillRead(o.x, q)
                 /\ WriteHalf("write", x, q) => \A c : WriteHalf(c, o.x, q)
      <3>1. CASE ~r.ok
        <4>1. x.io.broken
          BY <1>1, <2>1, <3>1, WriteFails
        <4>2. o.x = x /\ o.ok = FALSE
          BY <2>1, <3>1, Outcomes DEF Sent
        <4>3. WriteHalf("write", x, q) => \A c : WriteHalf(c, x, q)
          BY <4>1 DEF WriteHalf, WriteLive, Unsent
        <4> QED
          BY <1>2, <4>2, <4>3, Zenon
      <3>2. CASE r.ok /\ r.v = None
        <4>1. o = SendPending(x)
          BY <2>1, <3>2 DEF Sent
        <4>2. Beside(x, o.x) /\ (WillRead(x, q) => WillRead(o.x, q)) /\ WillWrite(o.x, q)
          BY <4>1, SendPendingLive
        <4>3. o.ok = TRUE
          BY <4>1, Outcomes DEF SendPending
        <4> QED
          BY <4>2, <4>3, Zenon DEF WriteHalf, WriteLive, WillWrite
      <3>3. CASE r.ok /\ r.v # None
        <4>1. r.v[1] \in 1 .. Buffered(x.ev)
          BY <1>1, <3>3, WriteResults, BoundAssumption
        <4>2. o = SendNow(x, r.v[1])
          BY <2>1, <3>3 DEF Sent
        <4>3. Beside(x, o.x) /\ (WillRead(x, q) => WillRead(o.x, q)) /\ WillWrite(o.x, q)
          BY <1>4, <4>1, <4>2, SendNowLive
        <4>4. o.ok = TRUE
          BY <4>2, Outcomes DEF SendNow
        <4> QED
          BY <4>3, <4>4, Zenon DEF WriteHalf, WriteLive, WillWrite
      <3> QED
        BY <3>1, <3>2, <3>3
    <2>2. \/ o = Outcome(x, TRUE) /\ x.ev.is_in_write
          \/ \E r \in write_overlapped(Buffered(x.ev), x.io.broken, MayPend) : o = Sent(x, r)
      BY <1>4 DEF post_write_event
    <2> QED
      BY <1>3, <2>1, <2>2
  <1>5. x.ev.is_end \/ Buffered(x.ev) = 0 => o = Outcome(x, TRUE)
    BY DEF post_write_event
  <1> QED
    BY <1>3, <1>4, <1>5

LEMMA BesideLive ==
    ASSUME NEW q, NEW x, NEW y, Beside(x, y), WillRead(x, q) => WillRead(y, q), NEW c,
           ReadHalf(c, x, q)
    PROVE  ReadHalf(c, y, q)
  BY DEF Beside, ReadHalf, ReadLive, ReadWanted, Asks, WillRead

(* Nothing is asked of a socket that is unregistered. *)
LEMMA EndedLive ==
    ASSUME NEW q, NEW x, x.ev.is_end, NEW c
    PROVE  ReadHalf(c, x, q) /\ WriteHalf(c, x, q)
  BY DEF ReadHalf, WriteHalf, ReadLive, WriteLive

LEMMA UnregisterLive ==
    ASSUME NEW q, NEW x \in Half, NEW o \in unregister_socket(x), NEW c
    PROVE  ReadHalf(c, o.x, q) /\ WriteHalf(c, o.x, q)
  <1>1. CASE o = Outcome(x, TRUE) /\ x.ev.is_end
    BY <1>1, Outcomes, EndedLive
  <1>2. CASE \E w, b : o = Outcome(Closed(x, w), b)
    <2>1. PICK w, b : o = Outcome(Closed(x, w), b)
      BY <1>2
    <2>2. PICK y : y = Closed(x, w)
      OBVIOUS
    <2>3. PICK yes \in BOOLEAN : yes = TRUE
      OBVIOUS
    <2>4. PICK k : k = [x.io EXCEPT !.open = FALSE, !.reads = 0, !.writes = 0]
      OBVIOUS
    <2>5. y = [x EXCEPT !.ev.is_end = yes, !.out = @ \o w, !.io = k]
      BY <2>2, <2>3, <2>4 DEF Closed
    <2>6. y.ev.is_end = yes
      BY <2>5 DEF Half, EventFields
    <2>7. o.x = y
      BY <2>1, <2>2 DEF Outcome
    <2> QED
      BY <2>3, <2>6, <2>7, EndedLive
  <1>3. x.ev.is_end \in BOOLEAN
    BY DEF Half, EventFields
  <1> QED
    BY <1>1, <1>2, <1>3 DEF unregister_socket

(* Before check_socket_event: the flags may just have come. *)
Checked(c, x, q) ==
    ~x.ev.is_end => IF c \in {"read", "accept"} THEN ~x.ev.is_in_read
                    ELSE x.ev.is_in_read => WillRead(x, q)

LEMMA ForwardReads ==
    ASSUME NEW q, NEW x, NEW y, Forward(x, y), x.io.reads \in Nat, y.io.reads \in Nat,
           NEW c, ReadWanted(c, x.ev) => x.ev.is_end \/ x.ev.is_in_read \/ y.io.reads >= 1
    PROVE  Checked(c, x, q) => ReadHalf(c, y, q)
  <1>1. WillRead(x, q) => WillRead(y, q)
    BY ForwardLive
  <1>2. y.io.reads >= 1 => WillRead(y, q)
    BY DEF WillRead, HasRead
  <1>3. /\ y.ev.flags = x.ev.flags /\ y.ev.is_in_read = x.ev.is_in_read
        /\ y.ev.is_end = x.ev.is_end
    BY DEF Forward
  <1>4. ReadWanted(c, y.ev) <=> ReadWanted(c, x.ev)
    BY <1>3 DEF ReadWanted, Asks
  <1> QED
    BY <1>1, <1>2, <1>3, <1>4 DEF ReadHalf, ReadLive, WillRead, Checked

LEMMA CheckLive ==
    ASSUME NEW q \in Port, NEW x, GoodHalf(x, q), Idle(x, q), NEW c,
           NEW o \in check_socket_event(x), o.ok
    PROVE  /\ Checked(c, x, q) => ReadHalf(c, o.x, q)
           /\ WriteHalf(c, x, q) => WriteHalf(c, o.x, q)
  <1>1. CASE "ACCEPT" \in x.ev.flags
    <2>1. o \in post_accept_event(x)
      BY <1>1 DEF check_socket_event
    <2>2. /\ Forward(x, o.x) /\ o.x.io.reads \in Nat /\ x.io.reads \in Nat
          /\ x.ev.is_in_read \/ o.x.io.reads >= 1
      BY <2>1, PostAcceptForward
    <2>3. Checked(c, x, q) => ReadHalf(c, o.x, q)
      BY <2>2, ForwardReads
    <2> QED
      BY <2>2, <2>3, ForwardLive
  <1>2. CASE "ACCEPT" \notin x.ev.flags
    <2>1. PICK a \in IF "READ" \in x.ev.flags THEN post_read_event(x) ELSE {Outcome(x, TRUE)} :
              o \in IF a.ok /\ "WRITE" \in x.ev.flags THEN post_write_event(a.x) ELSE {a}
      BY <1>2 DEF check_socket_event
    <2>2. /\ Forward(x, a.x) /\ a.x.io.reads \in Nat /\ x.io.reads \in Nat /\ GoodHalf(a.x, q)
          /\ a.ok /\ "READ" \in x.ev.flags => x.ev.is_end \/ x.ev.is_in_read \/ a.x.io.reads >= 1
      <3>1. CASE "READ" \in x.ev.flags
        <4>1. a \in post_read_event(x)
          BY <2>1, <3>1
        <4>2. GoodHalf(a.x, q)
          BY <4>1, PostReadFollows DEF Follows
        <4> QED
          BY <4>1, <4>2, PostReadForward
      <3>2. CASE "READ" \notin x.ev.flags
        <4>1. a.x = x
          BY <2>1, <3>2, Outcomes
        <4> QED
          BY <3>2, <4>1, ForwardSame DEF GoodHalf
      <3> QED
        BY <3>1, <3>2
    <2>3. a.ok
      BY <2>1
    <2>4. Checked(c, x, q) => ReadHalf(c, a.x, q)
      <3>1. ReadWanted(c, x.ev) => x.ev.is_in_read \/ "READ" \in x.ev.flags
        BY <1>2 DEF ReadWanted, Asks
      <3> QED
        BY <2>2, <2>3, <3>1, ForwardReads
    <2>5. WriteHalf(c, x, q) => WriteHalf(c, a.x, q)
      BY <2>2, ForwardLive
    <2>6. CASE o = a
      BY <2>4, <2>5, <2>6
    <2>7. CASE o \in post_write_event(a.x)
      <3>1. /\ Beside(a.x, o.x) /\ (WillRead(a.x, q) => WillRead(o.x, q))
            /\ WriteHalf("write", a.x, q) => \A d : WriteHalf(d, o.x, q)
        BY <2>2, <2>7, PostWriteLive
      <3>2. WriteHalf(c, a.x, q) => WriteHalf("write", a.x, q)
        BY DEF WriteHalf, WriteLive
      <3>3. ReadHalf(c, a.x, q) => ReadHalf(c, o.x, q)
        BY <3>1, BesideLive
      <3> QED
        BY <2>4, <2>5, <3>1, <3>2, <3>3
    <2> QED
      BY <2>1, <2>6, <2>7
  <1> QED
    BY <1>1, <1>2

-----------------------------------------------------------------------------
(* From one socket to the state. *)
LEMMA OthersLive ==
    ASSUME NEW t, NEW q \in Port, NEW w \in Port, port \in Port,
           q = port \/ (port # <<>> /\ q = Tail(port) /\ Head(port).sock # t), NEW k
    PROVE  /\ HasRead(t, k, port) => HasRead(t, k, q \o w)
           /\ HasWrite(t, k, port) => HasWrite(t, k, q \o w)
  <1>1. /\ HasRead(t, k, q) => HasRead(t, k, q \o w)
        /\ HasWrite(t, k, q) => HasWrite(t, k, q \o w)
    BY MoreLive
  <1>2. CASE q = port
    BY <1>1, <1>2
  <1>3. CASE port # <<>> /\ q = Tail(port) /\ Head(port).sock # t
    <2>1. ~IsRead(t, Head(port)) /\ ~IsWrite(t, Head(port))
      BY <1>3 DEF IsRead, IsWrite
    <2> QED
      BY <1>1, <1>3, <2>1, TailLive
  <1> QED
    BY <1>2, <1>3

LEMMA LiveStep ==
    ASSUME IocpInv, NEW q, Moved(q), NEW x \in Half, q = port \/ Head(port).sock = x.sock,
           Becomes(x, q), \A t \in Sock \ {x.sock} : CallIn(running', t) = CallIn(running, t),
           NEW c, CallIn(running', x.sock) = c
    PROVE  /\ ReadsLive /\ ReadHalf(c, x, q) => ReadsLive'
           /\ WritesLive /\ WriteHalf(c, x, q) => WritesLive'
  <1>1. /\ q \in Port /\ port \in Port /\ x.out \in Port /\ x.sock \in Sock
        /\ ev \in [Sock -> EventFields] /\ io \in [Sock -> IoFields]
    BY MovedPort DEF IocpInv, Shape, Half
  <1>2. /\ ev'[x.sock] = x.ev /\ io'[x.sock] = x.io /\ port' = q \o x.out
        /\ \A t \in Sock \ {x.sock} : ev'[t] = ev[t] /\ io'[t] = io[t]
    BY <1>1 DEF Becomes
  <1>3. ASSUME NEW t \in Sock \ {x.sock}
        PROVE  /\ HasRead(t, io[t], port) => HasRead(t, io[t], port')
               /\ HasWrite(t, io[t], port) => HasWrite(t, io[t], port')
    <2>1. q = port \/ (port # <<>> /\ q = Tail(port) /\ Head(port).sock # t)
      BY DEF Moved
    <2>2. PICK k : k = io[t]
      OBVIOUS
    <2>3. /\ HasRead(t, k, port) => HasRead(t, k, q \o x.out)
          /\ HasWrite(t, k, port) => HasWrite(t, k, q \o x.out)
      BY <1>1, <2>1, OthersLive
    <2> QED
      BY <1>2, <2>2, <2>3
  <1>4. ASSUME NEW t \in Sock \ {x.sock}, NEW d
        PROVE  /\ ReadLive(d, t, ev[t], io[t], port) => ReadLive(d, t, ev'[t], io'[t], port')
               /\ WriteLive(d, t, ev[t], io[t], port) => WriteLive(d, t, ev'[t], io'[t], port')
    BY <1>2, <1>3, Zenon DEF ReadLive, WriteLive
  <1>5. ReadsLive /\ ReadHalf(c, x, q) => ReadsLive'
    <2> SUFFICES ASSUME ReadsLive, ReadHalf(c, x, q), NEW t \in Sock
                 PROVE  ReadLive(CallIn(running', t), t, ev'[t], io'[t], port')
      BY Zenon DEF ReadsLive
    <2>1. CASE t = x.sock
      BY <1>2, <2>1, Zenon DEF ReadHalf
    <2>2. CASE t # x.sock
      <3>1. ReadLive(CallIn(running, t), t, ev[t], io[t], port)
        BY Zenon DEF ReadsLive
      <3>2. CallIn(running', t) = CallIn(running, t) /\ t \in Sock \ {x.sock}
        BY <2>2
      <3> QED
        BY <1>4, <3>1, <3>2, Zenon
    <2> QED
      BY <2>1, <2>2
  <1>6. WritesLive /\ WriteHalf(c, x, q) => WritesLive'
    <2> SUFFICES ASSUME WritesLive, WriteHalf(c, x, q), NEW t \in Sock
                 PROVE  WriteLive(CallIn(running', t), t, ev'[t], io'[t], port')
      BY Zenon DEF WritesLive
    <2>1. CASE t = x.sock
      BY <1>2, <2>1, Zenon DEF WriteHalf
    <2>2. CASE t # x.sock
      <3>1. WriteLive(CallIn(running, t), t, ev[t], io[t], port)
        BY Zenon DEF WritesLive
      <3>2. CallIn(running', t) = CallIn(running, t) /\ t \in Sock \ {x.sock}
        BY <2>2
      <3> QED
        BY <1>4, <3>1, <3>2, Zenon
    <2> QED
      BY <2>1, <2>2
  <1> QED
    BY <1>5, <1>6

(* A socket at the beginning of a method. *)
LEMMA StartLive ==
    ASSUME NEW q \in Port, NEW s, NEW e, NEW k, NEW c,
           NEW x, x = [sock |-> s, ev |-> e, io |-> k, out |-> <<>>]
    PROVE  /\ ReadHalf(c, x, q) <=> ReadLive(c, s, e, k, q)
           /\ WriteHalf(c, x, q) <=> WriteLive(c, s, e, k, q)
           /\ WillRead(x, q) <=> HasRead(s, k, q)
           /\ WillWrite(x, q) <=> HasWrite(s, k, q)
  <1>1. x.sock = s /\ x.ev = e /\ x.io = k /\ q \o x.out = q
    BY ConcatEmptySeq DEF Port
  <1> QED
    BY <1>1, Zenon DEF ReadHalf, WriteHalf, WillRead, WillWrite

LEMMA BeginsLive ==
    ASSUME port \in Port, NEW s, NEW x, Begins(x, s), NEW c
    PROVE  /\ HasRead(s, io[s], port) <=> WillRead(x, port)
           /\ HasWrite(s, io[s], port) <=> WillWrite(x, port)
           /\ ReadLive(c, s, ev[s], io[s], port) => Checked(c, x, port)
           /\ ReadLive(c, s, ev[s], io[s], port) /\ x.ev.flags = ev[s].flags => ReadHalf(c, x, port)
           /\ WriteLive(c, s, ev[s], io[s], port) => WriteHalf("write", x, port)
           /\ /\ WriteLive(c, s, ev[s], io[s], port)
              /\ Buffered(x.ev) = Buffered(ev[s]) /\ x.io.broken = io[s].broken
              => WriteHalf(c, x, port)
  <1>1. /\ x.sock = s /\ port \o x.out = port
        /\ x.ev.is_end = ev[s].is_end
        /\ x.ev.is_in_read = ev[s].is_in_read /\ x.ev.is_in_write = ev[s].is_in_write
        /\ x.io.reads = io[s].reads /\ x.io.writes = io[s].writes
    BY ConcatEmptySeq DEF Begins, Port
  <1>2. /\ HasRead(s, io[s], port) <=> WillRead(x, port)
        /\ HasWrite(s, io[s], port) <=> WillWrite(x, port)
    BY <1>1, Zenon DEF WillRead, WillWrite, HasRead, HasWrite
  <1>3. ReadLive(c, s, ev[s], io[s], port) => Checked(c, x, port)
    BY <1>1, <1>2 DEF ReadLive, Checked, ReadWanted
  <1>4. ReadLive(c, s, ev[s], io[s], port) /\ x.ev.flags = ev[s].flags => ReadHalf(c, x, port)
    <2> SUFFICES ASSUME x.ev.flags = ev[s].flags, ReadLive(c, s, ev[s], io[s], port)
                 PROVE  ReadHalf(c, x, port)
      OBVIOUS
    <2>1. ReadWanted(c, x.ev) <=> ReadWanted(c, ev[s])
      BY <1>1 DEF ReadWanted, Asks
    <2> QED
      BY <1>1, <1>2, <2>1 DEF ReadLive, ReadHalf, WillRead
  <1>5. WriteLive(c, s, ev[s], io[s], port) => WriteHalf("write", x, port)
    BY <1>1, <1>2 DEF WriteLive, WriteHalf, WillWrite
  <1>6. /\ WriteLive(c, s, ev[s], io[s], port)
        /\ Buffered(x.ev) = Buffered(ev[s]) /\ x.io.broken = io[s].broken
        => WriteHalf(c, x, port)
    BY <1>1, <1>2 DEF WriteLive, WriteHalf, WillWrite, Unsent
  <1> QED
    BY <1>2, <1>3, <1>4, <1>5, <1>6

-----------------------------------------------------------------------------
(* One lemma for each action.  A panic ends what is promised of the reads. *)
KeepsAlive == (ReadsLive => panicked' \/ ReadsLive') /\ (WritesLive => WritesLive')

LEMMA LiveHere ==
    ASSUME NEW s \in Sock
    PROVE  /\ ReadsLive => ReadLive(CallIn(running, s), s, ev[s], io[s], port)
           /\ WritesLive => WriteLive(CallIn(running, s), s, ev[s], io[s], port)
  BY Zenon DEF ReadsLive, WritesLive

LEMMA MethodLive ==
    ASSUME IocpInv, NEW s \in Sock, NEW x \in Half, x.sock = s, Becomes(x, port),
           running' = running,
           ReadsLive => ReadHalf(CallIn(running, s), x, port),
           WritesLive => WriteHalf(CallIn(running, s), x, port)
    PROVE  KeepsAlive
  <1>1. PICK c : c = CallIn(running, s)
    OBVIOUS
  <1>2. /\ ReadsLive /\ ReadHalf(c, x, port) => ReadsLive'
        /\ WritesLive /\ WriteHalf(c, x, port) => WritesLive'
    BY <1>1, LiveStep DEF Moved
  <1> QED
    BY <1>1, <1>2, Zenon DEF KeepsAlive

LEMMA ModifyAlive ==
    ASSUME IocpInv, NEW n \in Num, modify_socket(n)
    PROVE  KeepsAlive
  <1>1. UNCHANGED <<role, num, event_maps, running, panicked, ended>>
    BY ModifyComes
  <1>2. PICK s \in Sock : \E x :
            /\ InMap(s) /\ Begins(x, s) /\ x.io.modified /\ Idle(x, port)
            /\ Buffered(x.ev) = Buffered(ev[s]) /\ x.io.broken = io[s].broken
            /\ \E o \in check_socket_event(x) : \E u \in OrUnregister(o) : Becomes(u.x, port)
    BY ModifyComes
  <1>3. PICK x : /\ InMap(s) /\ Begins(x, s) /\ x.io.modified /\ Idle(x, port)
                 /\ Buffered(x.ev) = Buffered(ev[s]) /\ x.io.broken = io[s].broken
                 /\ \E o \in check_socket_event(x) :
                    \E u \in OrUnregister(o) : Becomes(u.x, port)
    BY <1>2
  <1>4. PICK o \in check_socket_event(x) : \E u \in OrUnregister(o) : Becomes(u.x, port)
    BY <1>3
  <1>5. PICK u \in OrUnregister(o) : Becomes(u.x, port)
    BY <1>4
  <1>6. port \in Port
    BY DEF IocpInv, Shape
  <1>7. Follows(x, o.x, port) /\ o.ok \in BOOLEAN
    BY <1>3, <1>4, <1>6, CheckFollows DEF Begins
  <1>8. Follows(o.x, u.x, port)
    BY <1>5, <1>6, <1>7, OrUnregisterFollows DEF Follows
  <1>9. u.x \in Half /\ u.x.sock = s /\ o.x \in Half
    BY <1>3, <1>7, <1>8 DEF Begins, Follows, GoodHalf
  <1>10. PICK c : c = CallIn(running, s)
    OBVIOUS
  <1>11. /\ ReadsLive => ReadHalf(c, u.x, port)
         /\ WritesLive => WriteHalf(c, u.x, port)
    <2>1. CASE o.ok
      <3>1. u = o
        BY <2>1 DEF OrUnregister
      <3>2. /\ ReadsLive => Checked(c, x, port)
            /\ WritesLive => WriteHalf(c, x, port)
        BY <1>3, <1>6, <1>10, BeginsLive, LiveHere
      <3>3. /\ Checked(c, x, port) => ReadHalf(c, o.x, port)
            /\ WriteHalf(c, x, port) => WriteHalf(c, o.x, port)
        BY <1>3, <1>6, <2>1, CheckLive DEF Begins
      <3> QED
        BY <3>1, <3>2, <3>3
    <2>2. CASE ~o.ok
      <3>1. u \in unregister_socket(o.x)
        BY <1>5, <2>2 DEF OrUnregister
      <3> QED
        BY <1>9, <3>1, UnregisterLive
    <2> QED
      BY <2>1, <2>2
  <1> QED
    BY <1>1, <1>5, <1>9, <1>10, <1>11, MethodLive

LEMMA SendAlive ==
    ASSUME IocpInv, NEW n \in Num, send_socket(n)
    PROVE  KeepsAlive
  <1>1. UNCHANGED <<role, num, event_maps, running, panicked, ended>>
    BY SendComes
  <1>2. PICK s \in Sock : \E x :
            /\ InMap(s) /\ Begins(x, s) /\ x.ev.flags = ev[s].flags
            /\ \E o \in post_write_event(x) : Becomes(o.x, port)
    BY SendComes
  <1>3. PICK x : /\ InMap(s) /\ Begins(x, s) /\ x.ev.flags = ev[s].flags
                 /\ \E o \in post_write_event(x) : Becomes(o.x, port)
    BY <1>2
  <1>4. PICK o \in post_write_event(x) : Becomes(o.x, port)
    BY <1>3
  <1>5. port \in Port
    BY DEF IocpInv, Shape
  <1>6. o.x \in Half /\ o.x.sock = s
    BY <1>3, <1>4, <1>5, PostWriteFollows DEF Begins, Follows, GoodHalf
  <1>7. PICK c : c = CallIn(running, s)
    OBVIOUS
  <1>8. /\ ReadsLive => ReadHalf(c, x, port)
        /\ WritesLive => WriteHalf("write", x, port)
    BY <1>3, <1>5, <1>7, BeginsLive, LiveHere
  <1>9. /\ Beside(x, o.x) /\ (WillRead(x, port) => WillRead(o.x, port))
        /\ WriteHalf("write", x, port) => \A d : WriteHalf(d, o.x, port)
    BY <1>3, <1>4, <1>5, PostWriteLive DEF Begins
  <1>10. ReadHalf(c, x, port) => ReadHalf(c, o.x, port)
    BY <1>9, BesideLive
  <1> QED
    BY <1>1, <1>4, <1>6, <1>7, <1>8, <1>9, <1>10, MethodLive

LEMMA UnregisterAlive ==
    ASSUME IocpInv, NEW n \in Num, unregister(n)
    PROVE  KeepsAlive
  <1> DEFINE t == event_maps[n]
  <1>1. Registered(n) /\ UNCHANGED <<role, num, event_maps, running, panicked, ended>>
    BY DEF unregister
  <1>2. t \in Sock /\ InMap(t)
    BY <1>1, MappedNumber
  <1>3. PICK o \in unregister_socket(Socket(t)) : Becomes(o.x, port)
    BY DEF unregister
  <1> HIDE DEF t
  <1>4. port \in Port /\ GoodHalf(Socket(t), port) /\ Socket(t).sock = t /\ Socket(t) \in Half
    BY <1>2, SocketMade DEF Moved, GoodHalf
  <1>5. o.x \in Half /\ o.x.sock = t
    BY <1>3, <1>4, UnregisterFollows DEF Follows, GoodHalf
  <1>6. PICK c : c = CallIn(running, t)
    OBVIOUS
  <1>7. ReadHalf(c, o.x, port) /\ WriteHalf(c, o.x, port)
    BY <1>3, <1>4, UnregisterLive
  <1> QED
    BY <1>1, <1>2, <1>3, <1>5, <1>6, <1>7, MethodLive

LEMMA SameAlive ==
    ASSUME UNCHANGED <<ev, io, port, running>>
    PROVE  KeepsAlive
  <1>1. ReadsLive => ReadsLive'
    BY DEF ReadsLive
  <1>2. WritesLive => WritesLive'
    BY DEF WritesLive
  <1> QED
    BY <1>1, <1>2 DEF KeepsAlive

LEMMA RegisterAlive ==
    ASSUME ~Reuse, Prefill = 0, IocpInv, NEW s \in Sock, register_socket(s)
    PROVE  KeepsAlive
  <1>1. role[s] = "none" /\ UNCHANGED <<running, panicked, ended>>
    BY RegisterComes
  <1>2. \/ UNCHANGED <<event_maps, ev, io, port>>
        \/ \E x : /\ Begins(x, s) /\ Idle(x, port) /\ Buffered(x.ev) = 0
                  /\ \E o \in check_socket_event(x) : o.ok /\ Becomes(o.x, port)
    BY RegisterComes
  <1>3. CASE UNCHANGED <<event_maps, ev, io, port>>
    BY <1>1, <1>3, SameAlive
  <1>4. CASE \E x : /\ Begins(x, s) /\ Idle(x, port) /\ Buffered(x.ev) = 0
                    /\ \E o \in check_socket_event(x) : o.ok /\ Becomes(o.x, port)
    <2>1. PICK x : /\ Begins(x, s) /\ Idle(x, port) /\ Buffered(x.ev) = 0
                   /\ \E o \in check_socket_event(x) : o.ok /\ Becomes(o.x, port)
      BY <1>4
    <2>2. PICK o \in check_socket_event(x) : o.ok /\ Becomes(o.x, port)
      BY <2>1
    <2>3. port \in Port
      BY DEF IocpInv, Shape
    <2>4. o.x \in Half /\ o.x.sock = s
      BY <2>1, <2>2, <2>3, CheckFollows DEF Begins, Follows, GoodHalf
    <2>5. PICK c : c = CallIn(running, s)
      OBVIOUS
    <2>6. ReadsLive => Checked(c, x, port)
      BY <2>1, <2>3, <2>5, BeginsLive, LiveHere
    <2>7. WriteHalf(c, x, port)
      <3>1. ~x.ev.is_in_write
        BY <1>1, <2>1, NewSocket DEF Begins, NoEvent
      <3> QED
        BY <2>1, <3>1 DEF WriteHalf, WriteLive, Unsent
    <2>8. /\ Checked(c, x, port) => ReadHalf(c, o.x, port)
          /\ WriteHalf(c, x, port) => WriteHalf(c, o.x, port)
      BY <2>1, <2>2, <2>3, CheckLive DEF Begins
    <2> QED
      BY <1>1, <2>2, <2>4, <2>5, <2>6, <2>7, <2>8, MethodLive
  <1> QED
    BY <1>2, <1>3, <1>4

(* An operation of s finishes: its packet takes its place. *)
LEMMA CompletedAlive ==
    ASSUME IocpInv, NEW s \in Sock,
           NEW e \in EventFields, e.is_end = ev[s].is_end, e.is_in_write = ev[s].is_in_write,
           e.is_in_read = ev[s].is_in_read, e.flags = ev[s].flags, Buffered(e) = Buffered(ev[s]),
           NEW d \in PacketFields, d.sock = s,
           NEW k \in IoFields, k.broken = io[s].broken,
           \/ d.kind = "read" /\ k.writes = io[s].writes
           \/ d.kind = "write" /\ k.reads = io[s].reads,
           ev' = [ev EXCEPT ![s] = e], io' = [io EXCEPT ![s] = k], port' = Append(port, d),
           running' = running
    PROVE  KeepsAlive
  <1>1. port \in Port
    BY DEF IocpInv, Shape
  <1>2. <<d>> \in Port /\ port \o <<d>> = Append(port, d)
    BY <1>1, OneMore
  <1>3. \E i \in 1 .. Len(port \o <<d>>) : (port \o <<d>>)[i] = d
    BY <1>1, LastIs
  <1>4. /\ HasRead(s, io[s], port) => HasRead(s, io[s], port \o <<d>>)
        /\ HasWrite(s, io[s], port) => HasWrite(s, io[s], port \o <<d>>)
    BY <1>1, <1>2, MoreLive
  <1>5. PICK p : p = port \o <<d>>
    OBVIOUS
  <1>6. /\ HasRead(s, io[s], port) => HasRead(s, k, p)
        /\ HasWrite(s, io[s], port) => HasWrite(s, k, p)
    <2>1. CASE d.kind = "read" /\ k.writes = io[s].writes
      <3>1. HasRead(s, k, p)
        BY <1>3, <1>5, <2>1, Zenon DEF HasRead, IsRead
      <3>2. HasWrite(s, io[s], p) => HasWrite(s, k, p)
        BY <2>1, Zenon DEF HasWrite
      <3> QED
        BY <1>4, <1>5, <3>1, <3>2
    <2>2. CASE d.kind = "write" /\ k.reads = io[s].reads
      <3>1. HasWrite(s, k, p)
        BY <1>3, <1>5, <2>2, Zenon DEF HasWrite, IsWrite
      <3>2. HasRead(s, io[s], p) => HasRead(s, k, p)
        BY <2>2, Zenon DEF HasRead
      <3> QED
        BY <1>4, <1>5, <3>1, <3>2
    <2> QED
      BY <2>1, <2>2
  <1>7. PICK c : c = CallIn(running, s)
    OBVIOUS
  <1>8. /\ ReadLive(c, s, ev[s], io[s], port) => ReadLive(c, s, e, k, p)
        /\ WriteLive(c, s, ev[s], io[s], port) => WriteLive(c, s, e, k, p)
    BY <1>6, LiveStays
  <1>9. PICK x : x = [sock |-> s, ev |-> e, io |-> k, out |-> <<d>>]
    OBVIOUS
  <1>10. x.sock = s /\ x.ev = e /\ x.io = k /\ x.out = <<d>> /\ x \in Half
    BY <1>2, <1>9 DEF Half
  <1>11. Becomes(x, port)
    BY <1>2, <1>10 DEF Becomes
  <1>12. /\ ReadLive(c, s, e, k, p) => ReadHalf(c, x, port)
         /\ WriteLive(c, s, e, k, p) => WriteHalf(c, x, port)
    BY <1>5, <1>10, Zenon DEF ReadHalf, WriteHalf
  <1>13. /\ ReadsLive => ReadHalf(c, x, port)
         /\ WritesLive => WriteHalf(c, x, port)
    BY <1>7, <1>8, <1>12, LiveHere, Zenon
  <1> QED
    BY <1>7, <1>10, <1>11, <1>13, MethodLive

LEMMA KernelAlive ==
    ASSUME IocpInv, NEW s \in Sock,
           complete_read(s) \/ complete_accept(s) \/ complete_write(s) \/ break(s)
    PROVE  KeepsAlive
  <1>1. /\ ev[s] \in EventFields /\ io[s] \in IoFields /\ port \in Port
        /\ ev \in [Sock -> EventFields] /\ io \in [Sock -> IoFields]
    BY DEF IocpInv, Shape
  <1>2. ev = [ev EXCEPT ![s] = ev[s]]
    BY <1>1
  <1>3. PICK r : r = io[s].reads - 1
    OBVIOUS
  <1>4. PICK w : w = io[s].writes - 1
    OBVIOUS
  <1>5. CASE complete_read(s)
    <2>1. /\ io[s].reads > 0 /\ io' = [io EXCEPT ![s] = [io[s] EXCEPT !.reads = r]]
          /\ UNCHANGED <<ev, running>>
      BY <1>3, <1>5 DEF complete_read
    <2>2. PICK n \in {0, 1} : port' = Append(port, PacketOf(Socket(s), "read", n))
      BY <1>5 DEF complete_read
    <2>3. PICK e : e = ev[s]
      OBVIOUS
    <2>4. PICK d : d = PacketOf(Socket(s), "read", n)
      OBVIOUS
    <2>5. d \in PacketFields /\ d.sock = s /\ d.kind = "read"
      BY <2>4, KernelPackets
    <2>6. PICK k : k = [io[s] EXCEPT !.reads = r]
      OBVIOUS
    <2>7. k \in IoFields
      BY <1>1, <1>3, <2>1, <2>6, Decreased
    <2>8. k.broken = io[s].broken /\ k.writes = io[s].writes
      BY <1>1, <2>6 DEF IoFields
    <2>9. io' = [io EXCEPT ![s] = k] /\ ev' = [ev EXCEPT ![s] = e] /\ port' = Append(port, d)
      BY <1>2, <2>1, <2>2, <2>3, <2>4, <2>6
    <2>10. /\ e \in EventFields /\ e.is_end = ev[s].is_end /\ e.is_in_write = ev[s].is_in_write
          /\ e.is_in_read = ev[s].is_in_read /\ e.flags = ev[s].flags
          /\ Buffered(e) = Buffered(ev[s]) /\ running' = running
      BY <1>1, <2>1, <2>3
    <2> QED
      BY <2>5, <2>7, <2>8, <2>9, <2>10, CompletedAlive
  <1>6. CASE complete_accept(s)
    <2>1. /\ io[s].reads > 0 /\ io' = [io EXCEPT ![s] = [io[s] EXCEPT !.reads = r]]
          /\ running' = running
      BY <1>3, <1>6 DEF complete_accept
    <2>2. PICK from \in Peer :
              /\ port' = Append(port, [PacketOf(Socket(s), "read", 0) EXCEPT !.from = from])
              /\ ev' = IF from = None THEN ev ELSE [ev EXCEPT ![s].accept_buf = Accepted(from[1])]
      BY <1>6 DEF complete_accept
    <2>3. PICK d : d = [PacketOf(Socket(s), "read", 0) EXCEPT !.from = from]
      OBVIOUS
    <2>4. d \in PacketFields /\ d.sock = s /\ d.kind = "read"
      BY <2>3, AcceptPackets
    <2>5. PICK k : k = [io[s] EXCEPT !.reads = r]
      OBVIOUS
    <2>6. k \in IoFields
      BY <1>1, <1>3, <2>1, <2>5, Decreased
    <2>7. k.broken = io[s].broken /\ k.writes = io[s].writes
      BY <1>1, <2>5 DEF IoFields
    <2>8. PICK e : e = IF from = None THEN ev[s] ELSE [ev[s] EXCEPT !.accept_buf = Accepted(from[1])]
      OBVIOUS
    <2>9. /\ e \in EventFields /\ e.is_end = ev[s].is_end /\ e.is_in_write = ev[s].is_in_write
          /\ e.is_in_read = ev[s].is_in_read /\ e.flags = ev[s].flags
          /\ Buffered(e) = Buffered(ev[s])
      <3>1. CASE from = None
        BY <1>1, <2>8, <3>1
      <3>2. CASE from # None
        <4>1. PICK a \in AddrsBuf : a = Accepted(from[1])
          <5>1. from[1] \in Peers
            BY <3>2 DEF Peer, Some
          <5> QED
            BY <5>1 DEF AddrsBuf
        <4>2. e = [ev[s] EXCEPT !.accept_buf = a]
          BY <2>8, <3>2, <4>1
        <4>3. /\ e \in EventFields /\ e.is_end = ev[s].is_end
              /\ e.is_in_write = ev[s].is_in_write /\ e.is_in_read = ev[s].is_in_read
              /\ e.flags = ev[s].flags /\ e.submitted = ev[s].submitted
              /\ e.drained = ev[s].drained
          BY <1>1, <4>2 DEF EventFields
        <4> QED
          BY <4>3 DEF Buffered
      <3> QED
        BY <3>1, <3>2
    <2>10. ev' = [ev EXCEPT ![s] = e]
      BY <1>2, <2>2, <2>8
    <2>11. io' = [io EXCEPT ![s] = k] /\ port' = Append(port, d)
      BY <2>1, <2>2, <2>3, <2>5
    <2> QED
      BY <2>1, <2>4, <2>6, <2>7, <2>9, <2>10, <2>11, CompletedAlive
  <1>7. CASE complete_write(s)
    <2>1. /\ io[s].writes > 0 /\ io' = [io EXCEPT ![s] = [io[s] EXCEPT !.writes = w]]
          /\ port' = Append(port, PacketOf(Socket(s), "write", 0)) /\ UNCHANGED <<ev, running>>
      BY <1>4, <1>7 DEF complete_write
    <2>2. PICK e : e = ev[s]
      OBVIOUS
    <2>3. PICK d : d = PacketOf(Socket(s), "write", 0)
      OBVIOUS
    <2>4. d \in PacketFields /\ d.sock = s /\ d.kind = "write"
      BY <2>3, KernelPackets
    <2>5. PICK k : k = [io[s] EXCEPT !.writes = w]
      OBVIOUS
    <2>6. k \in IoFields
      BY <1>1, <1>4, <2>1, <2>5, Decreased
    <2>7. k.broken = io[s].broken /\ k.reads = io[s].reads
      BY <1>1, <2>5 DEF IoFields
    <2>8. io' = [io EXCEPT ![s] = k] /\ ev' = [ev EXCEPT ![s] = e] /\ port' = Append(port, d)
      BY <1>2, <2>1, <2>2, <2>3, <2>5
    <2>9. /\ e \in EventFields /\ e.is_end = ev[s].is_end /\ e.is_in_write = ev[s].is_in_write
          /\ e.is_in_read = ev[s].is_in_read /\ e.flags = ev[s].flags
          /\ Buffered(e) = Buffered(ev[s]) /\ running' = running
      BY <1>1, <2>1, <2>2
    <2> QED
      BY <2>4, <2>6, <2>7, <2>8, <2>9, CompletedAlive
  <1>8. CASE break(s)
    <2>1. io' = [io EXCEPT ![s].broken = TRUE] /\ UNCHANGED <<ev, port, running>>
      BY <1>8 DEF break
    <2>2. PICK yes \in BOOLEAN : yes = TRUE
      OBVIOUS
    <2>3. PICK k : k = [io[s] EXCEPT !.broken = yes]
      OBVIOUS
    <2>4. k \in IoFields /\ k.broken = yes /\ k.reads = io[s].reads /\ k.writes = io[s].writes
      BY <1>1, <2>3 DEF IoFields
    <2>5. PICK e : e = ev[s]
      OBVIOUS
    <2>6. PICK x : x = [sock |-> s, ev |-> e, io |-> k, out |-> <<>>]
      OBVIOUS
    <2>7. x.sock = s /\ x.ev = e /\ x.io = k /\ x.out = <<>> /\ x \in Half
      BY <1>1, <2>4, <2>5, <2>6, EmptySeq DEF Half, Port
    <2>8. Becomes(x, port)
      <3>1. port \o <<>> = port
        BY <1>1, ConcatEmptySeq DEF Port
      <3>2. io' = [io EXCEPT ![s] = k]
        BY <2>1, <2>2, <2>3
      <3> QED
        BY <1>2, <2>1, <2>5, <2>7, <3>1, <3>2 DEF Becomes
    <2>9. PICK c : c = CallIn(running, s)
      OBVIOUS
    <2>10. /\ ReadLive(c, s, ev[s], io[s], port) => ReadLive(c, s, e, k, port)
           /\ WriteLive(c, s, ev[s], io[s], port) => WriteLive(c, s, e, k, port)
      BY <2>2, <2>4, <2>5 DEF ReadLive, WriteLive, HasRead, HasWrite, Unsent
    <2>11. /\ ReadHalf(c, x, port) <=> ReadLive(c, s, e, k, port)
           /\ WriteHalf(c, x, port) <=> WriteLive(c, s, e, k, port)
      BY <1>1, <2>6, StartLive
    <2>12. /\ ReadsLive => ReadHalf(c, x, port)
           /\ WritesLive => WriteHalf(c, x, port)
      BY <2>9, <2>10, <2>11, LiveHere, Zenon
    <2> QED
      BY <2>1, <2>7, <2>8, <2>9, <2>12, MethodLive
  <1> QED
    BY <1>5, <1>6, <1>7, <1>8

(* A packet of s is taken, and its callback begins, if any. *)
LEMMA DoneAlive ==
    ASSUME IocpInv, running = <<>>, port # <<>>, NEW s \in Sock, Head(port).sock = s,
           NEW e \in EventFields, NEW c,
           ev' = [ev EXCEPT ![s] = e], io' = io, port' = Tail(port),
           \A t \in Sock : CallIn(running', t) = IF t = s THEN c ELSE "none"
    PROVE  /\ /\ ReadsLive
              /\ ReadLive("none", s, ev[s], io[s], port) => ReadLive(c, s, e, io[s], Tail(port))
              => ReadsLive'
           /\ /\ WritesLive
              /\ WriteLive("none", s, ev[s], io[s], port) => WriteLive(c, s, e, io[s], Tail(port))
              => WritesLive'
  <1>1. /\ port \in Port /\ io[s] \in IoFields /\ io \in [Sock -> IoFields]
    BY DEF IocpInv, Shape
  <1>2. PICK q : q = Tail(port)
    OBVIOUS
  <1>3. q \in Port /\ Moved(q)
    BY <1>1, <1>2, TailShape DEF Moved
  <1>4. PICK k : k = io[s]
    OBVIOUS
  <1>5. PICK x : x = [sock |-> s, ev |-> e, io |-> k, out |-> <<>>]
    OBVIOUS
  <1>6. x.sock = s /\ x.ev = e /\ x.io = k /\ x.out = <<>> /\ x \in Half
    BY <1>1, <1>4, <1>5, EmptySeq DEF Half, Port
  <1>7. Becomes(x, q)
    <2>1. q \o <<>> = q
      BY <1>3, ConcatEmptySeq DEF Port
    <2>2. io' = [io EXCEPT ![s] = k]
      BY <1>1, <1>4
    <2> QED
      BY <1>2, <1>6, <2>1, <2>2 DEF Becomes
  <1>8. \A t \in Sock : CallIn(running, t) = "none"
    BY DEF CallIn
  <1>9. /\ \A t \in Sock \ {x.sock} : CallIn(running', t) = CallIn(running, t)
        /\ CallIn(running', x.sock) = c
    BY <1>6, <1>8
  <1>10. /\ ReadsLive /\ ReadHalf(c, x, q) => ReadsLive'
         /\ WritesLive /\ WriteHalf(c, x, q) => WritesLive'
    <2>1. Head(port).sock = x.sock
      BY <1>6
    <2> QED
      BY <1>3, <1>6, <1>7, <1>9, <2>1, LiveStep
  <1>11. /\ ReadHalf(c, x, q) <=> ReadLive(c, s, e, k, q)
         /\ WriteHalf(c, x, q) <=> WriteLive(c, s, e, k, q)
    BY <1>3, <1>5, StartLive
  <1>12. /\ ReadsLive => ReadLive("none", s, ev[s], io[s], port)
         /\ WritesLive => WriteLive("none", s, ev[s], io[s], port)
    BY <1>8, LiveHere
  <1> QED
    BY <1>2, <1>4, <1>10, <1>11, <1>12, Zenon

(* The calls of sockets when a callback begins. *)
LEMMA CallBegins ==
    ASSUME NEW kind, NEW s, running' = <<[kind |-> kind, sock |-> s]>>
    PROVE  \A t \in Sock : CallIn(running', t) = IF t = s THEN kind ELSE "none"
  BY DEF CallIn

LEMMA HeadLive ==
    ASSUME IocpInv, NEW kinds, Gets(kinds)
    PROVE  /\ Source \in Sock /\ running = <<>> /\ port # <<>> /\ Head(port).sock = Source
           /\ Packet.kind \in kinds
           /\ Packet.kind # "read" =>
                  (HasRead(Source, io[Source], port) => HasRead(Source, io[Source], Tail(port)))
           /\ Packet.kind # "write" =>
                  (HasWrite(Source, io[Source], port) => HasWrite(Source, io[Source], Tail(port)))
  <1>1. Source \in Sock /\ running = <<>> /\ port # <<>> /\ port \in Port /\ Packet.kind \in kinds
    BY Taken DEF IocpInv, Shape
  <1>2. Head(port).sock = Source
    BY DEF Source, Packet
  <1>3. /\ Packet.kind # "read" => ~IsRead(Source, Head(port))
        /\ Packet.kind # "write" => ~IsWrite(Source, Head(port))
    BY DEF IsRead, IsWrite, Packet
  <1>4. PICK k : k = io[Source]
    OBVIOUS
  <1>5. /\ HasRead(Source, k, port) /\ ~IsRead(Source, Head(port)) => HasRead(Source, k, Tail(port))
        /\ HasWrite(Source, k, port) /\ ~IsWrite(Source, Head(port)) => HasWrite(Source, k, Tail(port))
    BY <1>1, TailLive
  <1> QED
    BY <1>1, <1>2, <1>3, <1>4, <1>5, Zenon

LEMMA ClearedFields ==
    ASSUME NEW e \in EventFields
    PROVE  /\ [e EXCEPT !.is_in_write = FALSE].is_in_write = FALSE
           /\ [e EXCEPT !.is_in_write = FALSE].is_in_read = e.is_in_read
           /\ [e EXCEPT !.is_in_write = FALSE].flags = e.flags
           /\ [e EXCEPT !.is_in_read = FALSE].is_in_read = FALSE
           /\ [e EXCEPT !.is_in_read = FALSE].is_in_write = e.is_in_write
           /\ [e EXCEPT !.is_in_read = FALSE].flags = e.flags
           /\ [e EXCEPT !.accept_socket = FALSE, !.is_in_read = FALSE].is_in_read = FALSE
           /\ [e EXCEPT !.accept_socket = FALSE, !.is_in_read = FALSE].is_in_write = e.is_in_write
           /\ [e EXCEPT !.accept_socket = FALSE, !.is_in_read = FALSE].flags = e.flags
  <1>1. PICK no \in BOOLEAN : no = FALSE
    OBVIOUS
  <1>2. /\ [e EXCEPT !.is_in_write = no].is_in_write = no
        /\ [e EXCEPT !.is_in_write = no].is_in_read = e.is_in_read
        /\ [e EXCEPT !.is_in_write = no].flags = e.flags
        /\ [e EXCEPT !.is_in_read = no].is_in_read = no
        /\ [e EXCEPT !.is_in_read = no].is_in_write = e.is_in_write
        /\ [e EXCEPT !.is_in_read = no].flags = e.flags
        /\ [e EXCEPT !.accept_socket = no, !.is_in_read = no].is_in_read = no
        /\ [e EXCEPT !.accept_socket = no, !.is_in_read = no].is_in_write = e.is_in_write
        /\ [e EXCEPT !.accept_socket = no, !.is_in_read = no].flags = e.flags
    BY DEF EventFields
  <1> QED
    BY <1>1, <1>2, Zenon

LEMMA WriteDoneAlive ==
    ASSUME IocpInv, write_done
    PROVE  KeepsAlive
  <1>1. /\ Gets({"write"}) /\ port' = Tail(port) /\ io' = io
        /\ running' = <<[kind |-> "write", sock |-> Source]>>
    BY DEF write_done, Calls
  <1>2. PICK s : s = Source
    OBVIOUS
  <1>3. /\ s \in Sock /\ running = <<>> /\ port # <<>> /\ Head(port).sock = s
        /\ HasRead(s, io[s], port) => HasRead(s, io[s], Tail(port))
    BY <1>1, <1>2, HeadLive
  <1>4. PICK e : e = [ev[s] EXCEPT !.is_in_write = FALSE]
    OBVIOUS
  <1>5. ev[s] \in EventFields
    BY <1>3 DEF IocpInv, Shape
  <1>6. /\ e \in EventFields /\ e.is_end = ev[s].is_end /\ ~e.is_in_write
        /\ e.is_in_read = ev[s].is_in_read /\ e.flags = ev[s].flags
    BY <1>4, <1>5, Cleared, ClearedFields
  <1>7. ev' = [ev EXCEPT ![s] = e]
    BY <1>2, <1>4 DEF write_done
  <1>8. ReadLive("none", s, ev[s], io[s], port) => ReadLive("write", s, e, io[s], Tail(port))
    BY <1>3, <1>6 DEF ReadLive, ReadWanted, Asks
  <1>9. WriteLive("write", s, e, io[s], Tail(port))
    BY <1>6 DEF WriteLive
  <1>10. \A t \in Sock : CallIn(running', t) = IF t = s THEN "write" ELSE "none"
    BY <1>1, <1>2, CallBegins
  <1>11. (ReadsLive => ReadsLive') /\ (WritesLive => WritesLive')
    BY <1>1, <1>3, <1>6, <1>7, <1>8, <1>9, <1>10, DoneAlive
  <1> QED
    BY <1>11 DEF KeepsAlive

LEMMA ReadDoneAlive ==
    ASSUME IocpInv, read_done
    PROVE  KeepsAlive
  <1>1. /\ Gets({"read"}) /\ ~is_accept /\ port' = Tail(port) /\ io' = io
        /\ running' = <<[kind |-> "read", sock |-> Source]>>
    BY DEF read_done, Calls
  <1>2. PICK s : s = Source
    OBVIOUS
  <1>3. /\ s \in Sock /\ running = <<>> /\ port # <<>> /\ Head(port).sock = s
        /\ HasWrite(s, io[s], port) => HasWrite(s, io[s], Tail(port))
    BY <1>1, <1>2, HeadLive
  <1>4. PICK e : e = [ev[s] EXCEPT !.is_in_read = FALSE]
    OBVIOUS
  <1>5. ev[s] \in EventFields
    BY <1>3 DEF IocpInv, Shape
  <1>6. /\ e \in EventFields /\ e.is_end = ev[s].is_end /\ ~e.is_in_read
        /\ e.is_in_write = ev[s].is_in_write /\ e.flags = ev[s].flags
        /\ Buffered(e) = Buffered(ev[s])
    BY <1>4, <1>5, Cleared, ClearedFields DEF Buffered
  <1>7. ev' = [ev EXCEPT ![s] = e]
    BY <1>2, <1>4 DEF read_done
  <1>8. "ACCEPT" \notin e.flags
    BY <1>1, <1>2, <1>6 DEF is_accept, Own
  <1>9. ReadLive("read", s, e, io[s], Tail(port))
    BY <1>6, <1>8 DEF ReadLive, ReadWanted
  <1>10. WriteLive("none", s, ev[s], io[s], port) => WriteLive("read", s, e, io[s], Tail(port))
    BY <1>3, <1>6 DEF WriteLive, Unsent
  <1>11. \A t \in Sock : CallIn(running', t) = IF t = s THEN "read" ELSE "none"
    BY <1>1, <1>2, CallBegins
  <1>12. (ReadsLive => ReadsLive') /\ (WritesLive => WritesLive')
    BY <1>1, <1>3, <1>6, <1>7, <1>9, <1>10, <1>11, DoneAlive
  <1> QED
    BY <1>12 DEF KeepsAlive

LEMMA AcceptDoneAlive ==
    ASSUME IocpInv, accept_done
    PROVE  KeepsAlive
  <1>1. Gets({"read", "ENDED"}) /\ is_accept /\ port' = Tail(port) /\ io' = io
    BY DEF accept_done
  <1>2. PICK s : s = Source
    OBVIOUS
  <1>3. /\ s \in Sock /\ running = <<>> /\ port # <<>> /\ Head(port).sock = s
        /\ HasWrite(s, io[s], port) => HasWrite(s, io[s], Tail(port))
    BY <1>1, <1>2, HeadLive
  <1>4. ev[s] \in EventFields /\ ev \in [Sock -> EventFields]
    BY <1>3 DEF IocpInv, Shape
  <1>5. CASE Own.accept_socket
    <2>1. PICK e : e = [ev[s] EXCEPT !.accept_socket = FALSE, !.is_in_read = FALSE]
      OBVIOUS
    <2>2. /\ e \in EventFields /\ e.is_end = ev[s].is_end /\ ~e.is_in_read
          /\ e.is_in_write = ev[s].is_in_write /\ e.flags = ev[s].flags
          /\ Buffered(e) = Buffered(ev[s])
      BY <1>4, <2>1, Cleared, ClearedFields DEF Buffered
    <2>3. /\ ev' = [ev EXCEPT ![s] = e]
          /\ running' = <<[kind |-> "accept", sock |-> s]>>
      BY <1>2, <1>3, <1>4, <1>5, <2>1 DEF accept_done, Calls
    <2>4. "ACCEPT" \in e.flags
      BY <1>1, <1>2, <2>2 DEF is_accept, Own
    <2>5. ReadLive("accept", s, e, io[s], Tail(port))
      BY <2>2, <2>4 DEF ReadLive, ReadWanted
    <2>6. WriteLive("none", s, ev[s], io[s], port) => WriteLive("accept", s, e, io[s], Tail(port))
      BY <1>3, <2>2 DEF WriteLive, Unsent
    <2>7. \A t \in Sock : CallIn(running', t) = IF t = s THEN "accept" ELSE "none"
      BY <2>3, CallBegins
    <2>8. (ReadsLive => ReadsLive') /\ (WritesLive => WritesLive')
      BY <1>1, <1>3, <2>2, <2>3, <2>5, <2>6, <2>7, DoneAlive
    <2> QED
      BY <2>8 DEF KeepsAlive
  <1>6. CASE ~Own.accept_socket
    <2>1. panicked' = TRUE /\ UNCHANGED <<ev, running>>
      BY <1>6 DEF accept_done
    <2>2. PICK e : e = ev[s]
      OBVIOUS
    <2>3. ev' = [ev EXCEPT ![s] = e] /\ e \in EventFields
      BY <1>4, <2>1, <2>2
    <2>4. WriteLive("none", s, ev[s], io[s], port) => WriteLive("none", s, e, io[s], Tail(port))
      BY <1>3, <2>2 DEF WriteLive
    <2>5. \A t \in Sock : CallIn(running', t) = IF t = s THEN "none" ELSE "none"
      BY <1>3, <2>1 DEF CallIn
    <2>6. WritesLive => WritesLive'
      BY <1>1, <1>3, <2>3, <2>4, <2>5, DoneAlive
    <2> QED
      BY <2>1, <2>6 DEF KeepsAlive
  <1> QED
    BY <1>5, <1>6

LEMMA ReadNoneAlive ==
    ASSUME IocpInv, read_none
    PROVE  KeepsAlive
  <1>1. Gets({"read"}) /\ running' = running
    BY DEF read_none
  <1>2. PICK q : q = Tail(port)
    OBVIOUS
  <1>3. PICK s : s = Source
    OBVIOUS
  <1>4. PICK o \in unregister_socket(Socket(s)) : Becomes(o.x, q)
    BY <1>2, <1>3 DEF read_none
  <1>5. s \in Sock /\ Moved(q) /\ Head(port).sock = s
    BY <1>1, <1>2, <1>3, Taken, HeadLive
  <1>6. q \in Port /\ GoodHalf(Socket(s), q) /\ Socket(s).sock = s /\ Socket(s) \in Half
    BY <1>5, SocketMade DEF GoodHalf
  <1>7. o.x \in Half /\ o.x.sock = s
    BY <1>4, <1>6, UnregisterFollows DEF Follows, GoodHalf
  <1>8. PICK c : c = CallIn(running, s)
    OBVIOUS
  <1>9. ReadHalf(c, o.x, q) /\ WriteHalf(c, o.x, q)
    BY <1>4, <1>6, UnregisterLive
  <1>10. /\ \A t \in Sock \ {o.x.sock} : CallIn(running', t) = CallIn(running, t)
         /\ CallIn(running', o.x.sock) = c /\ Head(port).sock = o.x.sock
    BY <1>1, <1>5, <1>7, <1>8
  <1>11. (ReadsLive => ReadsLive') /\ (WritesLive => WritesLive')
    BY <1>4, <1>5, <1>7, <1>9, <1>10, LiveStep
  <1> QED
    BY <1>11 DEF KeepsAlive

LEMMA ReadEndedAlive ==
    ASSUME IocpInv, read_ended
    PROVE  KeepsAlive
  <1>1. /\ Gets({"ENDED"}) /\ port' = Tail(port) /\ ev' = ev /\ io' = io
        /\ running' = <<[kind |-> "end", sock |-> Source]>>
    BY DEF read_ended, Calls
  <1>2. PICK s : s = Source
    OBVIOUS
  <1>3. /\ s \in Sock /\ running = <<>> /\ port # <<>> /\ Head(port).sock = s
        /\ ev[s].is_end
    BY <1>1, <1>2, HeadLive, Taken
  <1>4. PICK e : e = ev[s]
    OBVIOUS
  <1>5. ev' = [ev EXCEPT ![s] = e] /\ e \in EventFields
    BY <1>1, <1>3, <1>4 DEF IocpInv, Shape
  <1>6. ReadLive("end", s, e, io[s], Tail(port)) /\ WriteLive("end", s, e, io[s], Tail(port))
    BY <1>3, <1>4 DEF ReadLive, WriteLive
  <1>7. \A t \in Sock : CallIn(running', t) = IF t = s THEN "end" ELSE "none"
    BY <1>1, <1>2, CallBegins
  <1>8. (ReadsLive => ReadsLive') /\ (WritesLive => WritesLive')
    BY <1>1, <1>3, <1>5, <1>6, <1>7, DoneAlive
  <1> QED
    BY <1>8 DEF KeepsAlive

(* A callback of s returns. *)
LEMMA ReturnAlive ==
    ASSUME IocpInv, running # <<>>, running' = <<>>, NEW x \in Half, x.sock = Self,
           Becomes(x, port),
           ReadLive(running[1].kind, Self, ev[Self], io[Self], port) => ReadHalf("none", x, port),
           WriteLive(running[1].kind, Self, ev[Self], io[Self], port) => WriteHalf("none", x, port)
    PROVE  KeepsAlive
  <1>1. /\ \A t \in Sock \ {x.sock} : CallIn(running', t) = CallIn(running, t)
        /\ CallIn(running', x.sock) = "none" /\ CallIn(running, Self) = running[1].kind
    BY DEF CallIn, Self
  <1>2. Self \in Sock
    BY DEF Half
  <1>3. /\ ReadsLive /\ ReadHalf("none", x, port) => ReadsLive'
        /\ WritesLive /\ WriteHalf("none", x, port) => WritesLive'
    BY <1>1, LiveStep DEF Moved
  <1>4. PICK s \in Sock : s = Self
    BY <1>2
  <1>5. /\ ReadsLive => ReadLive(CallIn(running, s), s, ev[s], io[s], port)
        /\ WritesLive => WriteLive(CallIn(running, s), s, ev[s], io[s], port)
    BY LiveHere
  <1>6. /\ ReadsLive => ReadLive(running[1].kind, Self, ev[Self], io[Self], port)
        /\ WritesLive => WriteLive(running[1].kind, Self, ev[Self], io[Self], port)
    BY <1>1, <1>4, <1>5, Zenon
  <1> QED
    BY <1>3, <1>6, Zenon DEF KeepsAlive

LEMMA CallbackOverAlive ==
    ASSUME IocpInv, callback_over
    PROVE  KeepsAlive
  <1>1. running # <<>> /\ running[1].kind # "end" /\ running' = <<>>
    BY DEF callback_over, Back
  <1>2. Self \in Sock /\ Registered(Here) /\ event_maps[Here] = Self
    BY <1>1, Running
  <1>3. PICK s \in Sock : s = Self
    BY <1>2
  <1>4. PICK o \in unregister_socket(Socket(s)) : Becomes(o.x, port)
    BY <1>2, <1>3 DEF callback_over
  <1>5. /\ port \in Port /\ GoodHalf(Socket(s), port) /\ Socket(s).sock = s
        /\ Socket(s) \in Half
    BY SocketMade DEF Moved, GoodHalf
  <1>6. o.x \in Half /\ o.x.sock = Self
    BY <1>3, <1>4, <1>5, UnregisterFollows DEF Follows, GoodHalf
  <1>7. ReadHalf("none", o.x, port) /\ WriteHalf("none", o.x, port)
    BY <1>4, <1>5, UnregisterLive
  <1> QED
    BY <1>1, <1>4, <1>6, <1>7, ReturnAlive

LEMMA SocketBegins ==
    ASSUME IocpInv, NEW s \in Sock
    PROVE  Begins(Socket(s), s) /\ port \in Port
  <1>1. GoodHalf(Socket(s), port) /\ port \in Port
    BY SocketMade DEF Moved
  <1>2. Socket(s).sock = s /\ Socket(s).ev = ev[s] /\ Socket(s).io = io[s] /\ Socket(s).out = <<>>
    BY DEF Socket
  <1> QED
    BY <1>1, <1>2 DEF Begins

LEMMA WriteReturnsAlive ==
    ASSUME IocpInv, write_returns
    PROVE  KeepsAlive
  <1>1. running # <<>> /\ running[1].kind = "write" /\ running' = <<>>
    BY DEF write_returns, Back
  <1>2. Self \in Sock /\ Registered(Here) /\ event_maps[Here] = Self
    BY <1>1, Running
  <1>3. PICK s \in Sock : s = Self
    BY <1>2
  <1>4. PICK x : x = Socket(s)
    OBVIOUS
  <1>5. Begins(x, s) /\ port \in Port /\ x.ev = ev[s]
    BY <1>4, SocketBegins DEF Socket
  <1>6. /\ ReadLive("write", s, ev[s], io[s], port) => ReadHalf("write", x, port)
        /\ WriteLive("write", s, ev[s], io[s], port) => WriteHalf("write", x, port)
    BY <1>5, BeginsLive
  <1>7. \A y : ReadHalf("write", y, port) => ReadHalf("none", y, port)
    BY DEF ReadHalf, ReadLive, ReadWanted
  <1>8. CASE \E o \in post_write_event(Socket(event_maps[Here])) : Becomes(o.x, port)
    <2>1. PICK o \in post_write_event(x) : Becomes(o.x, port)
      BY <1>2, <1>3, <1>4, <1>8
    <2>2. o.x \in Half /\ o.x.sock = Self
      BY <1>3, <1>5, <2>1, PostWriteFollows DEF Begins, Follows, GoodHalf
    <2>3. /\ Beside(x, o.x) /\ (WillRead(x, port) => WillRead(o.x, port))
          /\ WriteHalf("write", x, port) => \A d : WriteHalf(d, o.x, port)
      BY <1>5, <2>1, PostWriteLive DEF Begins
    <2>4. ReadHalf("write", x, port) => ReadHalf("write", o.x, port)
      BY <2>3, BesideLive
    <2>5. /\ ReadLive("write", s, ev[s], io[s], port) => ReadHalf("none", o.x, port)
          /\ WriteLive("write", s, ev[s], io[s], port) => WriteHalf("none", o.x, port)
      BY <1>6, <1>7, <2>3, <2>4, Zenon
    <2> QED
      BY <1>1, <1>3, <2>1, <2>2, <2>5, ReturnAlive
  <1>9. CASE ~(Buffered(ev[s]) > 0) /\ UNCHANGED <<ev, io, port>>
    <2>1. Becomes(x, port)
      <3>1. port \o <<>> = port
        BY <1>5, ConcatEmptySeq DEF Port
      <3>2. x.sock = s /\ x.ev = ev[s] /\ x.io = io[s] /\ x.out = <<>>
        BY <1>4 DEF Socket
      <3>3. ev = [ev EXCEPT ![s] = ev[s]] /\ io = [io EXCEPT ![s] = io[s]]
        BY DEF IocpInv, Shape
      <3> QED
        BY <1>9, <3>1, <3>2, <3>3 DEF Becomes
    <2>2. x \in Half /\ x.sock = Self
      BY <1>3, <1>5 DEF Begins, GoodHalf
    <2>3. WriteHalf("write", x, port) => WriteHalf("none", x, port)
      BY <1>5, <1>9 DEF WriteHalf, WriteLive, Unsent
    <2>4. /\ ReadLive("write", s, ev[s], io[s], port) => ReadHalf("none", x, port)
          /\ WriteLive("write", s, ev[s], io[s], port) => WriteHalf("none", x, port)
      BY <1>6, <1>7, <2>3, Zenon
    <2> QED
      BY <1>1, <1>3, <2>1, <2>2, <2>4, ReturnAlive
  <1>10. \/ \E o \in post_write_event(Socket(event_maps[Here])) : Becomes(o.x, port)
         \/ ~(Buffered(ev[s]) > 0) /\ UNCHANGED <<ev, io, port>>
    BY <1>2, <1>3 DEF write_returns
  <1> QED
    BY <1>8, <1>9, <1>10

(* read_done believes in a read when it posted one. *)
LEMMA RearmedLive ==
    ASSUME NEW q \in Port, NEW x, NEW o, o = Outcome(o.x, o.ok), Forward(x, o.x),
           o.x \in Half, o.x.sock = Self, o.ok \in BOOLEAN,
           x.io.reads \in Nat, o.x.io.reads \in Nat, NEW r \in Rearmed(o)
    PROVE  /\ (o.ok => x.ev.is_end \/ o.x.io.reads >= 1) => ReadHalf("none", r.x, q)
           /\ WriteHalf("none", x, q) => WriteHalf("none", r.x, q)
  <1>1. CASE ~o.ok
    BY <1>1, UnregisterLive DEF Rearmed
  <1>2. CASE o.ok
    <2>1. r = [o EXCEPT !.x.ev.is_in_read = TRUE]
      BY <1>2 DEF Rearmed
    <2>2. PICK yes \in BOOLEAN : yes = TRUE
      OBVIOUS
    <2>3. PICK y : y = o.x
      OBVIOUS
    <2>4. r.x = [y EXCEPT !.ev = [y.ev EXCEPT !.is_in_read = yes]]
      <3>1. PICK b : b = o.ok
        OBVIOUS
      <3>2. o = [x |-> y, ok |-> b]
        BY <2>3, <3>1, Zenon DEF Outcome
      <3>3. r = [o EXCEPT !.x.ev.is_in_read = yes]
        BY <2>1, <2>2
      <3>4. [[x |-> y, ok |-> b] EXCEPT !.x.ev.is_in_read = yes].x
                = [y EXCEPT !.ev = [y.ev EXCEPT !.is_in_read = yes]]
        OBVIOUS
      <3> QED
        BY <3>2, <3>3, <3>4
    <2>5. y \in Half /\ y.ev \in EventFields
      BY <2>3 DEF Half
    <2>6. PICK e : e = [y.ev EXCEPT !.is_in_read = yes]
      OBVIOUS
    <2>7. /\ e.is_end = y.ev.is_end /\ e.is_in_write = y.ev.is_in_write
          /\ e.submitted = y.ev.submitted /\ e.drained = y.ev.drained
      BY <2>5, <2>6 DEF EventFields
    <2>8. r.x.sock = y.sock /\ r.x.ev = e /\ r.x.io = y.io /\ r.x.out = y.out
      BY <2>4, <2>5, <2>6 DEF Half
    <2>9. Buffered(e) = Buffered(y.ev)
      BY <2>7 DEF Buffered
    <2>10. o.x.io.reads >= 1 => WillRead(r.x, q)
      BY <2>3, <2>8 DEF WillRead, HasRead
    <2>11. r.x.ev.is_end = x.ev.is_end
      BY <2>3, <2>7, <2>8 DEF Forward
    <2>12. x.ev.is_end \/ o.x.io.reads >= 1 => ReadHalf("none", r.x, q)
      BY <2>10, <2>11 DEF ReadHalf, ReadLive, WillRead
    <2>13. WriteHalf("none", x, q) => WriteHalf("none", y, q)
      BY <2>3, ForwardLive
    <2>14. WriteHalf("none", y, q) => WriteHalf("none", r.x, q)
      BY <2>7, <2>8, <2>9, Zenon DEF WriteHalf, WriteLive, Unsent, HasWrite
    <2> QED
      BY <1>2, <2>12, <2>13, <2>14
  <1> QED
    BY <1>1, <1>2

LEMMA ReadReturnsAlive ==
    ASSUME IocpInv, read_returns
    PROVE  KeepsAlive
  <1>1. running # <<>> /\ running[1].kind = "read" /\ running' = <<>>
    BY ReadReturnsComes
  <1>2. PICK x : /\ x = [Socket(Self) EXCEPT !.ev = OneShot(ev[Self], {"READ"})]
                 /\ \/ "READ" \notin x.ev.flags /\ Becomes(x, port)
                    \/ /\ "READ" \in x.ev.flags
                       /\ \E o \in post_read_event(x) : \E r \in Rearmed(o) : Becomes(r.x, port)
    BY ReadReturnsComes
  <1>3. PICK s : s = Self
    OBVIOUS
  <1>4. /\ s \in Sock /\ Begins(x, s) /\ Idle(x, port)
        /\ x.ev = OneShot(ev[s], {"READ"}) /\ x.io = io[s] /\ Buffered(x.ev) = Buffered(ev[s])
    BY <1>1, <1>2, <1>3, ShotBegins
  <1>5. port \in Port /\ GoodHalf(x, port) /\ x.sock = s
    BY <1>4 DEF IocpInv, Shape, Begins
  <1>6. x.ev.flags \subseteq ev[s].flags
    <2>1. ev[s] \in EventFields
      BY <1>4 DEF IocpInv, Shape
    <2>2. PICK f : f = ev[s].flags \ {"READ"}
      OBVIOUS
    <2>3. x.ev = ev[s] \/ x.ev = [ev[s] EXCEPT !.flags = f]
      BY <1>4, <2>2 DEF OneShot
    <2> QED
      BY <2>1, <2>2, <2>3 DEF EventFields
  <1>7. /\ HasRead(s, io[s], port) => WillRead(x, port)
        /\ WriteLive("read", s, ev[s], io[s], port) => WriteHalf("read", x, port)
        /\ x.ev.is_end = ev[s].is_end /\ x.ev.is_in_read = ev[s].is_in_read
    BY <1>4, <1>5, BeginsLive DEF Begins
  <1>8. WriteHalf("read", x, port) => WriteHalf("none", x, port)
    BY DEF WriteHalf, WriteLive
  <1>9. CASE "READ" \notin x.ev.flags /\ Becomes(x, port)
    <2>1. ReadLive("read", s, ev[s], io[s], port) => ReadHalf("none", x, port)
      BY <1>6, <1>7, <1>9 DEF ReadLive, ReadHalf, ReadWanted, Asks, WillRead
    <2> QED
      BY <1>1, <1>3, <1>5, <1>7, <1>8, <1>9, <2>1, ReturnAlive DEF GoodHalf
  <1>10. CASE \E o \in post_read_event(x) : \E r \in Rearmed(o) : Becomes(r.x, port)
    <2>1. PICK o \in post_read_event(x) : \E r \in Rearmed(o) : Becomes(r.x, port)
      BY <1>10
    <2>2. PICK r \in Rearmed(o) : Becomes(r.x, port)
      BY <2>1
    <2>3. GoodHalf(o.x, port) /\ o.x.sock = s /\ o.x \in Half /\ o.ok \in BOOLEAN
      BY <1>4, <1>5, <2>1, PostReadFollows DEF Follows, GoodHalf
    <2>4. o = Outcome(o.x, o.ok)
      BY <2>1, PostsAnswer
    <2>5. r.x \in Half /\ r.x.sock = Self
      BY <1>3, <1>5, <2>2, <2>3, <2>4, RearmedFollows DEF GoodHalf
    <2>6. /\ Forward(x, o.x) /\ o.x.io.reads \in Nat /\ x.io.reads \in Nat
          /\ o.ok => x.ev.is_end \/ x.ev.is_in_read \/ o.x.io.reads >= 1
      BY <1>5, <2>1, PostReadForward
    <2>7. ReadLive("read", s, ev[s], io[s], port) => x.ev.is_end \/ ~x.ev.is_in_read
      BY <1>7 DEF ReadLive
    <2>8. /\ (o.ok => x.ev.is_end \/ o.x.io.reads >= 1) => ReadHalf("none", r.x, port)
          /\ WriteHalf("none", x, port) => WriteHalf("none", r.x, port)
      BY <1>3, <1>5, <2>2, <2>3, <2>4, <2>6, RearmedLive
    <2>9. /\ ReadLive("read", s, ev[s], io[s], port) => ReadHalf("none", r.x, port)
          /\ WriteLive("read", s, ev[s], io[s], port) => WriteHalf("none", r.x, port)
      BY <1>7, <1>8, <2>6, <2>7, <2>8
    <2> QED
      BY <1>1, <1>3, <2>2, <2>5, <2>9, ReturnAlive
  <1> QED
    BY <1>2, <1>9, <1>10

LEMMA AcceptReturnsAlive ==
    ASSUME IocpInv, accept_returns
    PROVE  KeepsAlive
  <1>1. running # <<>> /\ running[1].kind = "accept" /\ running' = <<>>
    BY AcceptReturnsComes
  <1>2. PICK x : /\ x = [Socket(Self) EXCEPT !.ev = OneShot(ev[Self], {"READ", "ACCEPT"})]
                 /\ \/ "ACCEPT" \notin x.ev.flags /\ Becomes(x, port)
                    \/ /\ "ACCEPT" \in x.ev.flags
                       /\ \E o \in post_accept_event(x) : \E r \in Rearmed(o) : Becomes(r.x, port)
    BY AcceptReturnsComes
  <1>3. PICK s : s = Self
    OBVIOUS
  <1>4. /\ s \in Sock /\ Begins(x, s) /\ Idle(x, port)
        /\ x.ev = OneShot(ev[s], {"READ", "ACCEPT"}) /\ x.io = io[s] /\ Buffered(x.ev) = Buffered(ev[s])
    BY <1>1, <1>2, <1>3, ShotBegins
  <1>5. port \in Port /\ GoodHalf(x, port) /\ x.sock = s
    BY <1>4 DEF IocpInv, Shape, Begins
  <1>6. "ACCEPT" \notin x.ev.flags /\ "READ" \in x.ev.flags =>
            "READ" \in ev[s].flags /\ "ACCEPT" \notin ev[s].flags
    <2>1. ev[s] \in EventFields
      BY <1>4 DEF IocpInv, Shape
    <2>2. PICK f : f = ev[s].flags \ {"READ", "ACCEPT"}
      OBVIOUS
    <2>3. x.ev = ev[s] \/ x.ev = [ev[s] EXCEPT !.flags = f]
      BY <1>4, <2>2 DEF OneShot
    <2> QED
      BY <2>1, <2>2, <2>3 DEF EventFields
  <1>7. /\ HasRead(s, io[s], port) => WillRead(x, port)
        /\ WriteLive("accept", s, ev[s], io[s], port) => WriteHalf("accept", x, port)
        /\ x.ev.is_end = ev[s].is_end /\ x.ev.is_in_read = ev[s].is_in_read
    BY <1>4, <1>5, BeginsLive DEF Begins
  <1>8. WriteHalf("accept", x, port) => WriteHalf("none", x, port)
    BY DEF WriteHalf, WriteLive
  <1>9. CASE "ACCEPT" \notin x.ev.flags /\ Becomes(x, port)
    <2>1. ReadLive("accept", s, ev[s], io[s], port) => ReadHalf("none", x, port)
      BY <1>6, <1>7, <1>9 DEF ReadLive, ReadHalf, ReadWanted, Asks, WillRead
    <2> QED
      BY <1>1, <1>3, <1>5, <1>7, <1>8, <1>9, <2>1, ReturnAlive DEF GoodHalf
  <1>10. CASE \E o \in post_accept_event(x) : \E r \in Rearmed(o) : Becomes(r.x, port)
    <2>1. PICK o \in post_accept_event(x) : \E r \in Rearmed(o) : Becomes(r.x, port)
      BY <1>10
    <2>2. PICK r \in Rearmed(o) : Becomes(r.x, port)
      BY <2>1
    <2>3. GoodHalf(o.x, port) /\ o.x.sock = s /\ o.x \in Half /\ o.ok \in BOOLEAN
      BY <1>4, <1>5, <2>1, PostAcceptFollows DEF Follows, GoodHalf
    <2>4. o = Outcome(o.x, o.ok)
      BY <2>1, PostsAnswer
    <2>5. r.x \in Half /\ r.x.sock = Self
      BY <1>3, <1>5, <2>2, <2>3, <2>4, RearmedFollows DEF GoodHalf
    <2>6. /\ Forward(x, o.x) /\ o.x.io.reads \in Nat /\ x.io.reads \in Nat
          /\ o.ok => x.ev.is_in_read \/ o.x.io.reads >= 1
      BY <1>5, <2>1, PostAcceptForward
    <2>7. ReadLive("accept", s, ev[s], io[s], port) => x.ev.is_end \/ ~x.ev.is_in_read
      BY <1>7 DEF ReadLive
    <2>8. /\ (o.ok => x.ev.is_end \/ o.x.io.reads >= 1) => ReadHalf("none", r.x, port)
          /\ WriteHalf("none", x, port) => WriteHalf("none", r.x, port)
      BY <1>3, <1>5, <2>2, <2>3, <2>4, <2>6, RearmedLive
    <2>9. /\ ReadLive("accept", s, ev[s], io[s], port) => ReadHalf("none", r.x, port)
          /\ WriteLive("accept", s, ev[s], io[s], port) => WriteHalf("none", r.x, port)
      BY <1>7, <1>8, <2>6, <2>7, <2>8
    <2> QED
      BY <1>1, <1>3, <2>2, <2>5, <2>9, ReturnAlive
  <1> QED
    BY <1>2, <1>9, <1>10

LEMMA EndReturnsAlive ==
    ASSUME IocpInv, end_returns
    PROVE  KeepsAlive
  <1>1. /\ running # <<>> /\ running' = <<>> /\ port' = port
        /\ ev' = [ev EXCEPT ![Self] = NoEvent] /\ io' = [io EXCEPT ![Self] = NoIo]
    BY DEF end_returns, Back
  <1>2. Self \in Sock /\ port \in Port
    BY <1>1 DEF IocpInv, Shape, Self
  <1>3. PICK e : e = NoEvent
    OBVIOUS
  <1>4. PICK k : k = NoIo
    OBVIOUS
  <1>5. PICK x : x = [sock |-> Self, ev |-> e, io |-> k, out |-> <<>>]
    OBVIOUS
  <1>6. x.sock = Self /\ x.ev = e /\ x.io = k /\ x.out = <<>> /\ x \in Half
    BY <1>2, <1>3, <1>4, <1>5, NothingYet, EmptySeq DEF Half, Port
  <1>7. Becomes(x, port)
    <2>1. port \o <<>> = port
      BY <1>2, ConcatEmptySeq DEF Port
    <2> QED
      BY <1>1, <1>3, <1>4, <1>6, <2>1 DEF Becomes
  <1>8. ReadHalf("none", x, port) /\ WriteHalf("none", x, port)
    <2>1. /\ e.flags = {} /\ ~e.is_in_read /\ ~e.is_in_write
          /\ e.submitted = 0 /\ e.drained = 0
      BY <1>3 DEF NoEvent
    <2>2. ~Unsent(e, k) /\ ~ReadWanted("none", e)
      BY <2>1 DEF Unsent, Buffered, ReadWanted, Asks
    <2> QED
      BY <1>6, <2>1, <2>2 DEF ReadHalf, WriteHalf, ReadLive, WriteLive
  <1> QED
    BY <1>1, <1>6, <1>7, <1>8, ReturnAlive

-----------------------------------------------------------------------------
LEMMA NextAlive ==
    ASSUME ~Reuse, Prefill = 0, IocpInv, [Next]_vars
    PROVE  KeepsAlive
  <1>1. CASE UserCall
    BY <1>1, RegisterAlive, ModifyAlive, SendAlive, UnregisterAlive DEF UserCall
  <1>2. CASE Kernel
    BY <1>2, KernelAlive DEF Kernel
  <1>3. CASE select_timeout \/ UNCHANGED vars
    BY <1>3, SameAlive DEF select_timeout, vars
  <1>4. CASE Dispatch
    BY <1>4, WriteDoneAlive, AcceptDoneAlive, ReadDoneAlive, ReadNoneAlive, ReadEndedAlive
       DEF Dispatch
  <1>5. CASE Return
    BY <1>5, CallbackOverAlive, WriteReturnsAlive, ReadReturnsAlive, AcceptReturnsAlive,
       EndReturnsAlive DEF Return
  <1> QED
    BY <1>1, <1>2, <1>3, <1>4, <1>5 DEF Next

LEMMA PanicStays ==
    ASSUME panicked, [Next]_vars
    PROVE  panicked'
  <1>1. ASSUME UserCall \/ Kernel \/ select_timeout \/ UNCHANGED vars
        PROVE  panicked' = panicked
    BY <1>1 DEF UserCall, register_socket, modify_socket, send_socket, unregister, Kernel,
       complete_read, complete_accept, complete_write, break, select_timeout, vars
  <1>2. CASE Dispatch
    BY <1>2 DEF Dispatch, write_done, accept_done, read_done, read_none, read_ended
  <1>3. ASSUME Return
        PROVE  panicked' = panicked
    BY <1>3 DEF Return, callback_over, write_returns, read_returns, accept_returns, end_returns
  <1> QED
    BY <1>1, <1>2, <1>3 DEF Next

LEMMA InitAlive == Init => Alive
  <1> SUFFICES ASSUME Init, NEW s \in Sock, NEW c
               PROVE  ReadLive(c, s, ev[s], io[s], port) /\ WriteLive(c, s, ev[s], io[s], port)
    BY Zenon DEF Alive, ReadsLive, WritesLive
  <1>1. /\ ev[s].flags = {} /\ ~ev[s].is_in_read /\ ~ev[s].is_in_write
        /\ ev[s].submitted = 0 /\ ev[s].drained = 0
    BY DEF Init, NoEvent
  <1>2. ~Unsent(ev[s], io[s]) /\ ~ReadWanted(c, ev[s])
    BY <1>1 DEF Unsent, Buffered, ReadWanted, Asks
  <1> QED
    BY <1>1, <1>2 DEF ReadLive, WriteLive

(* What is under way counts. *)
LEMMA UnderWay ==
    ASSUME IocpInv, NEW s \in Sock
    PROVE  /\ HasRead(s, io[s], port) => Reading(s) >= 1
           /\ HasWrite(s, io[s], port) => Writing(s) >= 1
  <1>1. io[s].reads \in Nat /\ io[s].writes \in Nat
    BY DEF IocpInv, Shape, IoFields
  <1>2. DOMAIN port = 1 .. Len(port) /\ Len(port) \in Nat
    BY LenProperties DEF IocpInv, Shape, Port
  <1>3. ASSUME NEW kind
        PROVE  /\ Cardinality(PacketsAt(s, kind)) \in Nat
               /\ PacketsAt(s, kind) # {} => Cardinality(PacketsAt(s, kind)) >= 1
    <2>1. IsFiniteSet(1 .. Len(port))
      BY <1>2, FS_Interval
    <2>2. IsFiniteSet(PacketsAt(s, kind))
      BY <1>2, <2>1, FS_Subset DEF PacketsAt
    <2> QED
      BY <2>2, FS_CardinalityType, FS_EmptySet
  <1>4. \A i \in 1 .. Len(port) : /\ IsRead(s, port[i]) => i \in PacketsAt(s, "read")
                                  /\ IsWrite(s, port[i]) => i \in PacketsAt(s, "write")
    BY <1>2 DEF PacketsAt, IsRead, IsWrite
  <1> QED
    BY <1>1, <1>3, <1>4 DEF HasRead, HasWrite, Reading, Writing

(* Every state keeps the promises of Alive. *)
THEOREM IocpAlive ==
    ASSUME ~Reuse, Prefill = 0
    PROVE  Spec => []Alive
  <1>1. IocpInv /\ Alive /\ [Next]_vars => Alive'
    BY NextAlive, PanicStays DEF Alive, KeepsAlive
  <1> QED
    BY <1>1, InitAlive, IocpInvariant, PTL DEF Spec

LEMMA NobodyCalled ==
    ASSUME IocpInv, running = <<>>, NEW s \in Range(event_maps)
    PROVE  s \in Sock /\ CallIn(running, s) = "none"
  BY DEF IocpInv, Shape, Range, CallIn

(* Buffered data of a registered socket whose connection has not broken always has
   a write with the kernel or in the port while the loop has the thread: is_in_write
   never stays set with nothing to clear it, whichever way sends, callbacks and
   their errors follow each other (selector.rs:159-206, 330-355). *)
THEOREM IocpWriteProgress ==
    ASSUME ~Reuse, Prefill = 0
    PROVE  Spec => []WriteProgress
  <1>1. IocpInv /\ Alive => WriteProgress
    <2> SUFFICES ASSUME IocpInv, Alive, running = <<>>, NEW s \in Range(event_maps),
                        ~ev[s].is_end, ~io[s].broken, Buffered(ev[s]) > 0
                 PROVE  Writing(s) >= 1
      BY DEF WriteProgress
    <2>1. s \in Sock /\ CallIn(running, s) = "none"
      BY NobodyCalled
    <2>2. WriteLive("none", s, ev[s], io[s], port)
      BY <2>1, LiveHere DEF Alive
    <2>3. HasWrite(s, io[s], port)
      BY <2>2 DEF WriteLive, Unsent
    <2> QED
      BY <2>1, <2>3, UnderWay
  <1> QED
    BY <1>1, IocpInvariant, IocpAlive, PTL

(* A registered socket that asks for reads or accepts always has one with the
   kernel or in the port while the loop has the thread, whatever posts fail and
   whatever modify_socket and the callbacks do, until the loop is dead
   (selector.rs:122-158, 208-224, 312-327). *)
THEOREM IocpReadArmed ==
    ASSUME ~Reuse, Prefill = 0
    PROVE  Spec => [](panicked \/ ReadArmed)
  <1>1. IocpInv /\ Alive => panicked \/ ReadArmed
    <2> SUFFICES ASSUME IocpInv, Alive, ~panicked, running = <<>>,
                        NEW s \in Range(event_maps),
                        ~ev[s].is_end, ev[s].flags \cap {"READ", "ACCEPT"} # {}
                 PROVE  Reading(s) >= 1
      BY DEF ReadArmed
    <2>1. s \in Sock /\ CallIn(running, s) = "none"
      BY NobodyCalled
    <2>2. ReadLive("none", s, ev[s], io[s], port)
      BY <2>1, LiveHere DEF Alive
    <2>3. HasRead(s, io[s], port)
      BY <2>2 DEF ReadLive, ReadWanted, Asks
    <2> QED
      BY <2>1, <2>3, UnderWay
  <1> QED
    BY <1>1, IocpInvariant, IocpAlive, PTL

-----------------------------------------------------------------------------
(* Bytes in network order: what ntoh and the shifts of ptrs_to_socket_addr give
   back of a number that was written byte by byte. *)

LEMMA Division ==
    ASSUME NEW n \in Nat, NEW d \in Nat \ {0}
    PROVE  /\ n \div d \in Nat /\ n % d \in 0 .. d - 1
           /\ n = d * (n \div d) + (n % d)
  OBVIOUS

LEMMA Digits ==
    ASSUME NEW d \in Nat \ {0}, NEW q \in Nat, NEW r \in 0 .. d - 1
    PROVE  (q * d + r) \div d = q /\ (q * d + r) % d = r
  <1> DEFINE n == q * d + r
             p == n \div d
  <1>1. n \in Nat
    BY SMT
  <1>2. p \in Nat /\ n % d \in 0 .. d - 1 /\ n = d * p + (n % d)
    BY <1>1, Division
  <1> QED
    OBVIOUS

LEMMA OneDigit ==
    ASSUME NEW d \in Nat \ {0}, NEW r \in 0 .. d - 1
    PROVE  r \div d = 0 /\ r % d = r
  OBVIOUS

LEMMA Weights ==
    Weight[1] = 1 /\ Weight[2] = Byte /\ Weight[3] = Byte * Byte
        /\ Weight[4] = Byte * Byte * Byte
  BY DEF Weight

LEMMA NetworkBytes ==
    ASSUME NEW n, NEW len \in {2, 4}
    PROVE  /\ Len(Bytes(n, len)) = len
           /\ \A i \in 1 .. len : Bytes(n, len)[i] = ByteOf(n, len - i)
  <1>1. len \in Nat
    OBVIOUS
  <1> DEFINE S == {ByteOf(n, len - i) : i \in 1 .. len}
  <1>2. Bytes(n, len) = [i \in 1 .. len |-> ByteOf(n, len - i)]
    BY DEF Bytes
  <1>3. PICK b : b = Bytes(n, len)
    OBVIOUS
  <1>4. b \in [1 .. len -> S]
    BY <1>2, <1>3, Zenon
  <1> HIDE DEF S
  <1>5. Len(b) = len
    BY <1>1, <1>4
  <1> QED
    BY <1>2, <1>3, <1>5, Zenon

LEMMA TwoDigits ==
    ASSUME NEW n \in U16
    PROVE  ByteOf(n, 1) * Byte + ByteOf(n, 0) = n
  <1>1. n \in Nat /\ n < Byte * Byte /\ Byte \in Nat \ {0}
    BY WidthAssumption, SMT DEF U16
  <1>2. n \div Byte \in Nat /\ n % Byte \in 0 .. Byte - 1 /\ n = Byte * (n \div Byte) + (n % Byte)
    BY <1>1, Division
  <1>3. n \div Byte < Byte
    <2>1. SUFFICES ASSUME n \div Byte >= Byte PROVE FALSE
      BY <1>1, <1>2
    <2>2. Byte * (n \div Byte) >= Byte * Byte
      BY <1>1, <1>2, <2>1
    <2> QED
      BY <1>1, <1>2, <2>2
  <1>4. ByteOf(n, 1) = n \div Byte
    <2>1. n \div Byte \in 0 .. Byte - 1
      BY <1>1, <1>2, <1>3
    <2>2. (n \div Byte) % Byte = n \div Byte
      BY <1>1, <2>1, OneDigit
    <2> QED
      BY <2>2, Weights DEF ByteOf
  <1>5. ByteOf(n, 0) = n % Byte
    BY <1>1, Weights DEF ByteOf
  <1>6. (n \div Byte) * Byte + (n % Byte) = n
    BY <1>1, <1>2
  <1> QED
    BY <1>4, <1>5, <1>6, Zenon

LEMMA TwoBytes ==
    ASSUME NEW n \in U16
    PROVE  ntoh(Bytes(n, 2)) = n
  <1>1. from_be(Bytes(n, 2)) = ByteOf(n, 1) * Byte + ByteOf(n, 0)
    BY NetworkBytes DEF from_be
  <1> QED
    BY <1>1, TwoDigits DEF ntoh

LEMMA DivisionTwice ==
    ASSUME NEW n \in Nat, NEW d \in Nat \ {0}, NEW e \in Nat \ {0}
    PROVE  n \div (d * e) = (n \div d) \div e
  <1>1. PICK q \in Nat, r \in 0 .. d - 1 : q = n \div d /\ n = d * q + r
    BY Division
  <1>2. PICK p \in Nat, t \in 0 .. e - 1 : p = q \div e /\ q = e * p + t
    BY Division
  <1>3. PICK m \in Nat \ {0} : m = d * e
    BY SMT
  <1>4. d * t + r \in 0 .. m - 1
    <2>1. d * t <= d * (e - 1)
      BY SMT
    <2>2. d * (e - 1) = m - d
      BY <1>3, SMT
    <2> QED
      BY <2>1, <2>2, SMT
  <1>5. n = p * m + (d * t + r)
    <2>1. d * (e * p + t) = p * m + d * t
      BY <1>3, SMT
    <2>2. n = (p * m + d * t) + r
      BY <1>1, <1>2, <2>1, Zenon
    <2>3. (p * m + d * t) + r = p * m + (d * t + r)
      BY SMT
    <2> QED
      BY <2>2, <2>3, Zenon
  <1>6. n \div m = p
    <2>1. PICK u \in 0 .. m - 1 : u = d * t + r
      BY <1>4
    <2> QED
      BY <1>5, <2>1, Digits
  <1> QED
    BY <1>1, <1>2, <1>3, <1>6

LEMMA FourBytes ==
    ASSUME NEW n \in U32
    PROVE  ntoh(Bytes(n, 4)) = n
  <1>1. n \in Nat /\ n < Byte * Byte * Byte * Byte /\ Byte \in Nat \ {0}
    BY WidthAssumption, SMT DEF U32
  <1>2. PICK q1 \in Nat, r0 \in 0 .. Byte - 1 :
            q1 = n \div Byte /\ r0 = n % Byte /\ n = Byte * q1 + r0
    BY <1>1, Division
  <1>3. PICK q2 \in Nat, r1 \in 0 .. Byte - 1 :
            q2 = q1 \div Byte /\ r1 = q1 % Byte /\ q1 = Byte * q2 + r1
    BY <1>1, Division
  <1>4. PICK q3 \in Nat, r2 \in 0 .. Byte - 1 :
            q3 = q2 \div Byte /\ r2 = q2 % Byte /\ q2 = Byte * q3 + r2
    BY <1>1, Division
  <1>5. PICK b2 \in Nat \ {0} : b2 = Byte * Byte
    BY <1>1, SMT
  <1>6. PICK b3 \in Nat \ {0} : b3 = Byte * Byte * Byte /\ b3 = b2 * Byte
    BY <1>1, <1>5, SMT
  <1>7. n \div b2 = q2
    BY <1>1, <1>2, <1>3, <1>5, DivisionTwice
  <1>8. n \div b3 = q3
    <2>1. n \div (b2 * Byte) = (n \div b2) \div Byte
      BY <1>1, DivisionTwice
    <2> QED
      BY <1>4, <1>6, <1>7, <2>1, Zenon
  <1>9. q3 < Byte
    <2> SUFFICES ASSUME q3 >= Byte PROVE FALSE
      BY <1>1
    <2>1. q2 >= b2
      <3>1. Byte * q3 >= Byte * Byte
        BY <1>1
      <3> QED
        BY <1>1, <1>4, <1>5, <3>1
    <2>2. q1 >= b3
      <3>1. Byte * q2 >= Byte * b2
        BY <1>1, <2>1
      <3> QED
        BY <1>1, <1>3, <1>6, <3>1
    <2>3. n >= Byte * b3
      <3>1. Byte * q1 >= Byte * b3
        BY <1>1, <2>2
      <3> QED
        BY <1>1, <1>2, <3>1
    <2> QED
      BY <1>1, <1>6, <2>3
  <1>10. ByteOf(n, 0) = r0 /\ ByteOf(n, 1) = r1 /\ ByteOf(n, 2) = r2
    <2>1. ByteOf(n, 0) = n % Byte
      BY <1>1, Weights DEF ByteOf
    <2>2. ByteOf(n, 1) = (n \div Byte) % Byte
      BY Weights DEF ByteOf
    <2>3. ByteOf(n, 2) = (n \div b2) % Byte
      BY <1>5, Weights DEF ByteOf
    <2> QED
      BY <1>2, <1>3, <1>4, <1>7, <2>1, <2>2, <2>3, Zenon
  <1>11. ByteOf(n, 3) = q3
    <2>1. q3 % Byte = q3
      BY <1>1, <1>9, OneDigit
    <2> QED
      BY <1>6, <1>8, <2>1, Weights DEF ByteOf
  <1>12. from_be(Bytes(n, 4)) = ((q3 * Byte + r2) * Byte + r1) * Byte + r0
    <2>1. PICK b : b = Bytes(n, 4)
      OBVIOUS
    <2>2. Len(b) = 4 /\ b[1] = q3 /\ b[2] = r2 /\ b[3] = r1 /\ b[4] = r0
      BY <1>10, <1>11, <2>1, NetworkBytes
    <2> QED
      BY <2>1, <2>2 DEF from_be
  <1>13. q3 * Byte + r2 = q2 /\ q2 * Byte + r1 = q1 /\ q1 * Byte + r0 = n
    BY <1>1, <1>2, <1>3, <1>4
  <1> QED
    BY <1>12, <1>13, Zenon DEF ntoh

LEMMA FourOctets ==
    ASSUME NEW ip \in [1 .. 4 -> U8]
    PROVE  LET n == ntoh(ip)
           IN  <<ByteOf(n, 3), ByteOf(n, 2), ByteOf(n, 1), ByteOf(n, 0)>> = ip
  <1>1. Byte \in Nat \ {0} /\ Len(ip) = 4
    BY WidthAssumption
  <1>2. PICK a \in 0 .. Byte - 1, b \in 0 .. Byte - 1, c \in 0 .. Byte - 1, d \in 0 .. Byte - 1 :
            a = ip[1] /\ b = ip[2] /\ c = ip[3] /\ d = ip[4]
    BY DEF U8
  <1>3. PICK m1 \in Nat : m1 = a * Byte + b
    BY <1>1, SMT
  <1>4. PICK m2 \in Nat : m2 = m1 * Byte + c
    BY <1>1, SMT
  <1>5. PICK n \in Nat : n = m2 * Byte + d
    BY <1>1, SMT
  <1>6. ntoh(ip) = n
    BY <1>1, <1>2, <1>3, <1>4, <1>5 DEF ntoh, from_be
  <1>7. n \div Byte = m2 /\ n % Byte = d
    BY <1>1, <1>5, Digits
  <1>8. m2 \div Byte = m1 /\ m2 % Byte = c
    BY <1>1, <1>4, Digits
  <1>9. m1 \div Byte = a /\ m1 % Byte = b
    BY <1>1, <1>3, Digits
  <1>10. PICK b2 \in Nat \ {0} : b2 = Byte * Byte
    BY <1>1, SMT
  <1>11. n \div b2 = m1
    <2>1. n \div (Byte * Byte) = (n \div Byte) \div Byte
      BY <1>1, DivisionTwice
    <2> QED
      BY <1>7, <1>8, <1>10, <2>1, Zenon
  <1>12. n \div (b2 * Byte) = a
    <2>1. n \div (b2 * Byte) = (n \div b2) \div Byte
      BY <1>1, DivisionTwice
    <2> QED
      BY <1>9, <1>11, <2>1, Zenon
  <1>13. /\ ByteOf(n, 0) = n % Byte /\ ByteOf(n, 1) = (n \div Byte) % Byte
         /\ ByteOf(n, 2) = (n \div b2) % Byte /\ ByteOf(n, 3) = (n \div (b2 * Byte)) % Byte
    <2>1. ByteOf(n, 0) = n % Byte
      BY <1>1, Weights DEF ByteOf
    <2>2. ByteOf(n, 1) = (n \div Byte) % Byte
      BY Weights DEF ByteOf
    <2>3. ByteOf(n, 2) = (n \div b2) % Byte
      BY <1>10, Weights DEF ByteOf
    <2>4. ByteOf(n, 3) = (n \div (b2 * Byte)) % Byte
      BY <1>1, <1>10, Weights DEF ByteOf
    <2> QED
      BY <2>1, <2>2, <2>3, <2>4
  <1>14. a % Byte = a
    BY <1>1, OneDigit
  <1>15. ByteOf(n, 3) = a /\ ByteOf(n, 2) = b /\ ByteOf(n, 1) = c /\ ByteOf(n, 0) = d
    BY <1>7, <1>8, <1>9, <1>11, <1>12, <1>13, <1>14, Zenon
  <1>16. <<a, b, c, d>> = ip
    BY <1>2
  <1> QED
    BY <1>6, <1>15, <1>16, Zenon

LEMMA EightGroups ==
    ASSUME NEW ip \in [1 .. 8 -> U16],
           NEW addr, addr = [i \in 1 .. 16 |-> ByteOf(ip[(i + 1) \div 2], i % 2)]
    PROVE  [i \in 1 .. 8 |-> addr[2 * i - 1] * Byte + addr[2 * i]] = ip
  <1>1. ASSUME NEW i \in 1 .. 8
        PROVE  addr[2 * i - 1] * Byte + addr[2 * i] = ip[i]
    <2>1. /\ 2 * i - 1 \in 1 .. 16 /\ 2 * i \in 1 .. 16
          /\ (2 * i - 1 + 1) \div 2 = i /\ (2 * i + 1) \div 2 = i
          /\ (2 * i - 1) % 2 = 1 /\ (2 * i) % 2 = 0
      BY SMT
    <2>2. addr[2 * i - 1] = ByteOf(ip[i], 1)
      BY <2>1
    <2>3. addr[2 * i] = ByteOf(ip[i], 0)
      BY <2>1
    <2>4. ByteOf(ip[i], 1) * Byte + ByteOf(ip[i], 0) = ip[i]
      BY TwoDigits
    <2> QED
      BY <2>2, <2>3, <2>4, Zenon
  <1> QED
    BY <1>1

LEMMA V4IsFound ==
    ASSUME NEW p \in SocketAddrV4
    PROVE  ptrs_to_socket_addr(Sockaddr(p)) = Some(p)
  <1>1. /\ p.family = "V4" /\ p.flow = 0 /\ p.scope = 0
        /\ p.ip \in [1 .. 4 -> U8] /\ p.port \in U16
        /\ p = [family |-> "V4", ip |-> p.ip, port |-> p.port, flow |-> 0, scope |-> 0]
    BY DEF SocketAddrV4
  <1>2. PICK a : a = Sockaddr(p)
    OBVIOUS
  <1>3. /\ a.sa_family = "AF_INET" /\ a.len = SizeOfIn
        /\ a.port = Bytes(p.port, 2) /\ a.addr = p.ip
    BY <1>1, <1>2 DEF Sockaddr
  <1>4. ntoh(a.port) = p.port
    BY <1>1, <1>3, TwoBytes
  <1>5. PICK n : n = ntoh(a.addr)
    OBVIOUS
  <1>6. <<ByteOf(n, 3), ByteOf(n, 2), ByteOf(n, 1), ByteOf(n, 0)>> = p.ip
    BY <1>1, <1>3, <1>5, FourOctets
  <1>7. ptrs_to_socket_addr(a) =
            Some([family |-> "V4", port |-> ntoh(a.port), flow |-> 0, scope |-> 0,
                  ip |-> <<ByteOf(n, 3), ByteOf(n, 2), ByteOf(n, 1), ByteOf(n, 0)>>])
    BY <1>3, <1>5 DEF ptrs_to_socket_addr, SizeOfInt, SizeOfIn
  <1> QED
    BY <1>1, <1>2, <1>4, <1>6, <1>7

LEMMA V6IsFound ==
    ASSUME NEW p \in SocketAddrV6
    PROVE  ptrs_to_socket_addr(Sockaddr(p)) = Some(p)
  <1>1. /\ p.family = "V6" /\ p.flow \in U32 /\ p.scope \in U32
        /\ p.ip \in [1 .. 8 -> U16] /\ p.port \in U16
        /\ p = [family |-> "V6", ip |-> p.ip, port |-> p.port, flow |-> p.flow,
                scope |-> p.scope]
    BY DEF SocketAddrV6
  <1>2. PICK a : a = Sockaddr(p)
    OBVIOUS
  <1>3. /\ a.sa_family = "AF_INET6" /\ a.len = SizeOfIn6
        /\ a.port = Bytes(p.port, 2) /\ a.flowinfo = Bytes(p.flow, 4)
        /\ a.scope = Bytes(p.scope, 4)
        /\ a.addr = [i \in 1 .. 16 |-> ByteOf(p.ip[(i + 1) \div 2], i % 2)]
    BY <1>1, <1>2 DEF Sockaddr
  <1>4. ntoh(a.port) = p.port /\ ntoh(a.flowinfo) = p.flow /\ ntoh(a.scope) = p.scope
    BY <1>1, <1>3, TwoBytes, FourBytes
  <1>5. [i \in 1 .. 8 |-> a.addr[2 * i - 1] * Byte + a.addr[2 * i]] = p.ip
    BY <1>1, <1>3, EightGroups
  <1>6. ptrs_to_socket_addr(a) =
            Some([family |-> "V6", port |-> ntoh(a.port), flow |-> ntoh(a.flowinfo),
                  scope |-> ntoh(a.scope),
                  ip |-> [i \in 1 .. 8 |-> a.addr[2 * i - 1] * Byte + a.addr[2 * i]]])
    BY <1>3 DEF ptrs_to_socket_addr, SizeOfInt, SizeOfIn, SizeOfIn6
  <1> QED
    BY <1>1, <1>2, <1>4, <1>5, <1>6

(* The peer that connected is found in the buffer AcceptEx filled. *)
LEMMA PeerIsFound ==
    ASSUME NEW p \in Peers
    PROVE  AcceptResult(TRUE, Accepted(p)) = Ok(Some(p))
  <1>1. ptrs_to_socket_addr(Sockaddr(p)) = Some(p)
    BY PeersAssumption, V4IsFound, V6IsFound
  <1>2. parse(Accepted(p)).remote = Sockaddr(p)
    BY DEF parse, Accepted, AcceptAddrsBuf, args, Storage, Padding
  <1>3. remote(parse(Accepted(p))) = Some(p)
    BY <1>1, <1>2, Zenon DEF remote
  <1>4. Some(p) # None
    BY DEF Some, None
  <1> QED
    BY <1>3, <1>4 DEF AcceptResult

-----------------------------------------------------------------------------
(* The buffer of a listener and the packets of its accepts. *)
HasPeer(s, packet) == IsRead(s, packet) /\ packet.from # None

(* The peer of the accept that finished last is in the buffer until its packet is
   handled. *)
PeerHeld(s, e, k, p) ==
    k.modified \/ \A i \in 1 .. Len(p) :
                      HasPeer(s, p[i]) => e.accept_buf = Accepted(p[i].from[1])

PeersHeld == \A s \in Sock : PeerHeld(s, ev[s], io[s], port)

(* No packet of p is of an accept with a peer. *)
Unpeered(p) == \A i \in 1 .. Len(p) : p[i].from = None

(* y is x after a method: nothing was written into its buffer. *)
Plain(x, y) ==
    y.ev.accept_buf = x.ev.accept_buf /\ (Unpeered(x.out) => Unpeered(y.out))

LEMMA PlainTrans ==
    ASSUME NEW x, NEW y, NEW z, Plain(x, y), Plain(y, z)
    PROVE  Plain(x, z)
  BY DEF Plain

LEMMA PlainSame == \A x : Plain(x, x)
  BY DEF Plain

LEMMA UnpeeredMore ==
    ASSUME NEW p \in Port, NEW w \in Port, Unpeered(p), Unpeered(w)
    PROVE  Unpeered(p \o w)
  <1> SUFFICES ASSUME NEW i \in 1 .. Len(p \o w)
               PROVE  (p \o w)[i].from = None
    BY DEF Unpeered
  <1>1. \/ i \in 1 .. Len(p) /\ (p \o w)[i] = p[i]
        \/ i - Len(p) \in 1 .. Len(w) /\ (p \o w)[i] = w[i - Len(p)]
    BY ConcatShape
  <1> QED
    BY <1>1, Zenon DEF Unpeered

LEMMA UnpeeredOne ==
    ASSUME NEW d \in PacketFields, d.from = None
    PROVE  <<d>> \in Port /\ Unpeered(<<d>>)
  <1>1. PICK w : w = <<d>>
    OBVIOUS
  <1>2. w \in Port /\ \A i \in 1 .. Len(w) : w[i] = d
    BY <1>1 DEF Port
  <1> QED
    BY <1>1, <1>2, Zenon DEF Unpeered

LEMMA PostReadPlain ==
    ASSUME NEW q \in Port, NEW x, GoodHalf(x, q), NEW o \in post_read_event(x)
    PROVE  Plain(x, o.x)
  BY PostReadForward, Zenon DEF Forward, Plain

LEMMA PostAcceptPlain ==
    ASSUME NEW q \in Port, NEW x, GoodHalf(x, q), NEW o \in post_accept_event(x)
    PROVE  Plain(x, o.x)
  BY PostAcceptForward, Zenon DEF Forward, Plain

LEMMA PostWritePlain ==
    ASSUME NEW q \in Port, NEW x, GoodHalf(x, q), NEW o \in post_write_event(x)
    PROVE  Plain(x, o.x)
  <1>1. o.x.ev.accept_buf = x.ev.accept_buf
    BY PostWriteLive, Zenon DEF Beside
  <1>2. x \in Half /\ x.out \in Port
    BY DEF GoodHalf, Half
  <1>3. ASSUME NEW n
        PROVE  SendNow(x, n).x.out = Append(x.out, PacketOf(x, "write", 0))
    BY <1>2 DEF SendNow, Outcome, Half
  <1>4. SendPending(x).x.out = x.out
    BY <1>2 DEF SendPending, Outcome, Half
  <1>5. \/ o.x = x
        \/ o = SendPending(x)
        \/ \E n : o = SendNow(x, n)
    <2>1. CASE o = Outcome(x, TRUE) \/ o = Outcome(x, FALSE)
      BY <2>1 DEF Outcome
    <2>2. CASE \E r \in write_overlapped(Buffered(x.ev), x.io.broken, MayPend) : o = Sent(x, r)
      BY <2>1, <2>2 DEF Sent
    <2> QED
      BY <2>1, <2>2 DEF post_write_event
  <1>6. CASE \E n : o = SendNow(x, n)
    <2>1. PICK d : d = PacketOf(x, "write", 0)
      OBVIOUS
    <2>2. d.from = None
      BY <2>1 DEF PacketOf
    <2>3. d \in PacketFields /\ <<d>> \in Port /\ Unpeered(<<d>>)
      <3>1. d \in PacketFields
        BY <1>2, <2>1, PacketsAre
      <3> QED
        BY <2>2, <3>1, UnpeeredOne
    <2>4. o.x.out = x.out \o <<d>>
      <3>1. o.x.out = Append(x.out, d)
        BY <1>3, <1>6, <2>1
      <3>2. Append(x.out, d) = x.out \o <<d>>
        BY <1>2, <2>3, AppendIsConcat DEF Port
      <3> QED
        BY <3>1, <3>2
    <2> QED
      BY <1>1, <1>2, <2>3, <2>4, UnpeeredMore DEF Plain
  <1>7. CASE o.x = x \/ o = SendPending(x)
    BY <1>1, <1>4, <1>7 DEF Plain
  <1> QED
    BY <1>5, <1>6, <1>7

LEMMA AbortedUnpeered ==
    ASSUME NEW x \in Half
    PROVE  /\ Aborted(x) \in Port /\ Unpeered(Aborted(x))
           /\ EndedFor(x) \in Port /\ Unpeered(EndedFor(x))
  <1>1. x.io.reads \in Nat /\ x.io.writes \in Nat
    BY DEF Half, IoFields
  <1>2. ASSUME NEW n \in Nat, NEW kind \in {"read", "write"}, NEW a,
               a = [i \in 1 .. n |-> PacketOf(x, kind, 0)]
        PROVE  a \in Port /\ Unpeered(a)
    <2>1. PICK d \in PacketFields : d = PacketOf(x, kind, 0)
      BY PacketsAre
    <2>2. d.from = None
      BY <2>1 DEF PacketOf
    <2>3. a = [i \in 1 .. n |-> d]
      BY <1>2, <2>1
    <2>4. a \in Port /\ \A i \in 1 .. Len(a) : a[i] = d
      BY <2>3, Repeated
    <2> QED
      BY <2>2, <2>4, Zenon DEF Unpeered
  <1>3. PICK a : a = [i \in 1 .. x.io.reads |-> PacketOf(x, "read", 0)]
    OBVIOUS
  <1>4. PICK b : b = [i \in 1 .. x.io.writes |-> PacketOf(x, "write", 0)]
    OBVIOUS
  <1>5. a \in Port /\ Unpeered(a) /\ b \in Port /\ Unpeered(b)
    BY <1>1, <1>2, <1>3, <1>4
  <1>6. Aborted(x) = a \o b
    BY <1>3, <1>4 DEF Aborted
  <1>7. EndedFor(x) \in Port /\ Unpeered(EndedFor(x))
    <2>1. PICK d : d = PacketOf(x, "ENDED", 0)
      OBVIOUS
    <2>2. d \in PacketFields /\ d.from = None
      BY <2>1, PacketsAre DEF PacketOf
    <2> QED
      BY <2>1, <2>2, UnpeeredOne DEF EndedFor
  <1> QED
    BY <1>5, <1>6, <1>7, UnpeeredMore, ConcatShape

LEMMA UnregisterPlain ==
    ASSUME NEW x \in Half, NEW o \in unregister_socket(x)
    PROVE  Plain(x, o.x)
  <1>1. CASE o = Outcome(x, TRUE)
    BY <1>1, PlainSame, Outcomes
  <1>2. CASE \E r \in post_info(PostFails) :
                 o = Outcome(Closed(x, Aborted(x) \o IF r.ok THEN EndedFor(x) ELSE <<>>), r.ok)
    <2>1. PICK r \in post_info(PostFails) :
                 o = Outcome(Closed(x, Aborted(x) \o IF r.ok THEN EndedFor(x) ELSE <<>>), r.ok)
      BY <1>2
    <2>2. PICK z : z = IF r.ok THEN EndedFor(x) ELSE <<>>
      OBVIOUS
    <2>3. z \in Port /\ Unpeered(z)
      <3>1. <<>> \in Port /\ Unpeered(<<>>)
        BY DEF Port, Unpeered
      <3> QED
        BY <2>2, <3>1, AbortedUnpeered
    <2>4. PICK w : w = Aborted(x) \o z
      OBVIOUS
    <2>5. w \in Port /\ Unpeered(w)
      BY <2>3, <2>4, AbortedUnpeered, UnpeeredMore, ConcatShape
    <2>6. PICK yes \in BOOLEAN : yes = TRUE
      OBVIOUS
    <2>7. PICK k : k = [x.io EXCEPT !.open = FALSE, !.reads = 0, !.writes = 0]
      OBVIOUS
    <2>8. PICK y : y = [x EXCEPT !.ev.is_end = yes, !.out = @ \o w, !.io = k]
      OBVIOUS
    <2>9. o.x = y
      BY <2>1, <2>2, <2>4, <2>6, <2>7, <2>8 DEF Outcome, Closed
    <2>10. y.ev.accept_buf = x.ev.accept_buf /\ y.out = x.out \o w /\ x.out \in Port
      BY <2>8 DEF Half, EventFields
    <2> QED
      BY <2>5, <2>9, <2>10, UnpeeredMore DEF Plain
  <1> QED
    BY <1>1, <1>2 DEF unregister_socket

LEMMA OrUnregisterPlain ==
    ASSUME NEW o, o.x \in Half, NEW u \in OrUnregister(o)
    PROVE  Plain(o.x, u.x)
  BY PlainSame, UnregisterPlain DEF OrUnregister

LEMMA CheckPlain ==
    ASSUME NEW q \in Port, NEW x, GoodHalf(x, q), Idle(x, q), NEW o \in check_socket_event(x)
    PROVE  Plain(x, o.x)
  <1>1. CASE "ACCEPT" \in x.ev.flags
    <2>1. o \in post_accept_event(x)
      BY <1>1 DEF check_socket_event
    <2> QED
      BY <2>1, PostAcceptPlain
  <1>2. CASE "ACCEPT" \notin x.ev.flags
    <2> DEFINE after == IF "READ" \in x.ev.flags THEN post_read_event(x) ELSE {Outcome(x, TRUE)}
    <2>1. PICK a \in after : o \in IF a.ok /\ "WRITE" \in x.ev.flags THEN post_write_event(a.x)
                                    ELSE {a}
      BY <1>2 DEF check_socket_event
    <2>2. GoodHalf(a.x, q) /\ Plain(x, a.x)
      <3>1. CASE a \in post_read_event(x)
        BY <3>1, PostReadFollows, PostReadPlain DEF Follows
      <3>2. CASE a = Outcome(x, TRUE)
        BY <3>2, Outcomes, PlainSame
      <3> QED
        BY <3>1, <3>2
    <2> HIDE DEF after
    <2>3. o = a \/ o \in post_write_event(a.x)
      BY <2>1
    <2>4. CASE o \in post_write_event(a.x)
      <3>1. Plain(a.x, o.x)
        BY <2>2, <2>4, PostWritePlain
      <3> QED
        BY <2>2, <3>1, PlainTrans
    <2> QED
      BY <2>2, <2>3, <2>4
  <1> QED
    BY <1>1, <1>2

(* Packets with a peer stay or go, and what is behind them stays. *)
LEMMA PeersMove ==
    ASSUME PeersHeld,
           \A i \in 1 .. Len(port') :
               port'[i].from = None \/ \E j \in 1 .. Len(port) : port'[i] = port[j],
           \A s \in Sock :
               \/ ev'[s].accept_buf = ev[s].accept_buf /\ (io[s].modified => io'[s].modified)
               \/ \A i \in 1 .. Len(port') : port'[i].sock # s
    PROVE  PeersHeld'
  <1> SUFFICES ASSUME NEW s \in Sock, ~io'[s].modified, NEW i \in 1 .. Len(port'),
                      HasPeer(s, port'[i])
               PROVE  ev'[s].accept_buf = Accepted(port'[i].from[1])
    BY DEF PeersHeld, PeerHeld, HasPeer, IsRead
  <1>1. port'[i].sock = s /\ port'[i].from # None
    BY DEF HasPeer, IsRead
  <1>2. ev'[s].accept_buf = ev[s].accept_buf /\ ~io[s].modified
    BY <1>1
  <1>3. PICK j \in 1 .. Len(port) : port'[i] = port[j]
    BY <1>1
  <1>4. HasPeer(s, port[j])
    BY <1>3, Zenon
  <1>5. ev[s].accept_buf = Accepted(port[j].from[1])
    BY <1>2, <1>4, Zenon DEF PeersHeld, PeerHeld
  <1> QED
    BY <1>2, <1>3, <1>5, Zenon

LEMMA MovedPackets ==
    ASSUME IocpInv, NEW q, Moved(q)
    PROVE  q \in Port /\ \A i \in 1 .. Len(q) : \E j \in 1 .. Len(port) : q[i] = port[j]
  <1>1. port \in Port
    BY DEF IocpInv, Shape
  <1>2. CASE q = port
    BY <1>1, <1>2
  <1>3. CASE port # <<>> /\ q = Tail(port)
    BY <1>1, <1>3, TailShape, Zenon
  <1> QED
    BY <1>2, <1>3 DEF Moved

LEMMA PeersBecome ==
    ASSUME IocpInv, PeersHeld, NEW q, Moved(q), NEW x \in Half, Becomes(x, q), Unpeered(x.out),
           x.ev.accept_buf = ev[x.sock].accept_buf, io[x.sock].modified => x.io.modified
    PROVE  PeersHeld'
  <1>1. /\ ev' = [ev EXCEPT ![x.sock] = x.ev] /\ io' = [io EXCEPT ![x.sock] = x.io]
        /\ port' = q \o x.out
    BY DEF Becomes
  <1>2. x.sock \in Sock /\ x.out \in Port /\ ev \in [Sock -> EventFields] /\ io \in [Sock -> IoFields]
    BY DEF Half, IocpInv, Shape
  <1>3. ASSUME NEW s \in Sock
        PROVE  ev'[s].accept_buf = ev[s].accept_buf /\ (io[s].modified => io'[s].modified)
    <2>1. CASE s = x.sock
      BY <1>1, <1>2, <2>1
    <2>2. CASE s # x.sock
      BY <1>1, <1>2, <2>2
    <2> QED
      BY <2>1, <2>2
  <1>4. ASSUME NEW i \in 1 .. Len(port')
        PROVE  port'[i].from = None \/ \E j \in 1 .. Len(port) : port'[i] = port[j]
    <2>1. PICK r : r = q \o x.out
      OBVIOUS
    <2>2. \/ i \in 1 .. Len(q) /\ r[i] = q[i]
          \/ i - Len(q) \in 1 .. Len(x.out) /\ r[i] = x.out[i - Len(q)]
      BY <1>1, <1>2, <2>1, MovedPackets, ConcatShape
    <2>3. CASE i \in 1 .. Len(q) /\ r[i] = q[i]
      BY <1>1, <2>1, <2>3, MovedPackets, Zenon
    <2>4. CASE i - Len(q) \in 1 .. Len(x.out) /\ r[i] = x.out[i - Len(q)]
      BY <1>1, <2>1, <2>4, Zenon DEF Unpeered
    <2> QED
      BY <2>2, <2>3, <2>4
  <1> QED
    BY <1>3, <1>4, PeersMove

LEMMA NothingUnpeered == Unpeered(<<>>)
  BY DEF Unpeered

LEMMA MethodPeers ==
    ASSUME IocpInv, PeersHeld, NEW s \in Sock, NEW x, Begins(x, s),
           NEW y \in Half, y.sock = s, y.io.modified = x.io.modified, Plain(x, y),
           Becomes(y, port)
    PROVE  PeersHeld'
  <1>1. Unpeered(x.out) /\ x.ev.accept_buf = ev[s].accept_buf /\ (io[s].modified => x.io.modified)
    BY NothingUnpeered DEF Begins
  <1>2. /\ Unpeered(y.out) /\ y.ev.accept_buf = ev[y.sock].accept_buf
        /\ io[y.sock].modified => y.io.modified
    BY <1>1 DEF Plain
  <1> QED
    BY <1>2, PeersBecome DEF Moved

LEMMA ModifyPeers ==
    ASSUME IocpInv, PeersHeld, NEW n \in Num, modify_socket(n)
    PROVE  PeersHeld'
  <1>1. PICK s \in Sock : \E x :
            /\ Begins(x, s) /\ Idle(x, port)
            /\ \E o \in check_socket_event(x) : \E u \in OrUnregister(o) : Becomes(u.x, port)
    BY ModifyComes
  <1>2. PICK x : /\ Begins(x, s) /\ Idle(x, port)
                 /\ \E o \in check_socket_event(x) :
                    \E u \in OrUnregister(o) : Becomes(u.x, port)
    BY <1>1
  <1>3. PICK o \in check_socket_event(x) : \E u \in OrUnregister(o) : Becomes(u.x, port)
    BY <1>2
  <1>4. PICK u \in OrUnregister(o) : Becomes(u.x, port)
    BY <1>3
  <1>5. port \in Port /\ GoodHalf(x, port)
    BY <1>2 DEF IocpInv, Shape, Begins
  <1>6. Follows(x, o.x, port) /\ o.ok \in BOOLEAN /\ Plain(x, o.x)
    BY <1>2, <1>3, <1>5, CheckFollows, CheckPlain
  <1>7. Follows(o.x, u.x, port) /\ Plain(o.x, u.x)
    BY <1>4, <1>5, <1>6, OrUnregisterFollows, OrUnregisterPlain DEF Follows, GoodHalf
  <1>8. PICK y : y = u.x
    OBVIOUS
  <1>9. y \in Half /\ y.sock = s /\ y.io.modified = x.io.modified /\ Plain(x, y) /\ Becomes(y, port)
    BY <1>2, <1>4, <1>6, <1>7, <1>8, PlainTrans DEF Follows, GoodHalf, Begins
  <1> QED
    BY <1>2, <1>9, MethodPeers

LEMMA SendPeers ==
    ASSUME IocpInv, PeersHeld, NEW n \in Num, send_socket(n)
    PROVE  PeersHeld'
  <1>1. PICK s \in Sock : \E x :
            Begins(x, s) /\ \E o \in post_write_event(x) : Becomes(o.x, port)
    BY SendComes
  <1>2. PICK x : Begins(x, s) /\ \E o \in post_write_event(x) : Becomes(o.x, port)
    BY <1>1
  <1>3. PICK o \in post_write_event(x) : Becomes(o.x, port)
    BY <1>2
  <1>4. port \in Port /\ GoodHalf(x, port)
    BY <1>2 DEF IocpInv, Shape, Begins
  <1>5. PICK y : y = o.x
    OBVIOUS
  <1>6. y \in Half /\ y.sock = s /\ y.io.modified = x.io.modified /\ Plain(x, y) /\ Becomes(y, port)
    BY <1>2, <1>3, <1>4, <1>5, PostWriteFollows, PostWritePlain DEF Follows, GoodHalf, Begins
  <1> QED
    BY <1>2, <1>6, MethodPeers

LEMMA UnregisterPeers ==
    ASSUME IocpInv, PeersHeld, NEW q, Moved(q), NEW s \in Sock,
           NEW o \in unregister_socket(Socket(s)), Becomes(o.x, q)
    PROVE  PeersHeld'
  <1>1. PICK x : x = Socket(s)
    OBVIOUS
  <1>2. /\ q \in Port /\ GoodHalf(x, q) /\ x \in Half
        /\ x.sock = s /\ x.ev = ev[s] /\ x.io = io[s] /\ x.out = <<>>
    BY <1>1, SocketMade DEF GoodHalf, Socket
  <1>3. Follows(x, o.x, q) /\ Plain(x, o.x)
    BY <1>1, <1>2, UnregisterFollows, UnregisterPlain
  <1>4. PICK y : y = o.x
    OBVIOUS
  <1>5. /\ y \in Half /\ y.sock = s /\ y.io.modified = io[s].modified
        /\ y.ev.accept_buf = ev[s].accept_buf /\ Unpeered(y.out) /\ Becomes(y, q)
    <2>1. Unpeered(x.out)
      BY <1>2, NothingUnpeered
    <2> QED
      BY <1>2, <1>3, <1>4, <2>1 DEF Follows, GoodHalf, Plain
  <1> QED
    BY <1>5, PeersBecome

LEMMA RegisterPeers ==
    ASSUME ~Reuse, Prefill = 0, IocpInv, PeersHeld, NEW s \in Sock, register_socket(s)
    PROVE  PeersHeld'
  <1>1. \/ UNCHANGED <<ev, io, port>>
        \/ \E x : /\ Begins(x, s) /\ Idle(x, port)
                  /\ \E o \in check_socket_event(x) : Becomes(o.x, port)
    BY RegisterComes
  <1>2. CASE UNCHANGED <<ev, io, port>>
    BY <1>2 DEF PeersHeld, PeerHeld, HasPeer, IsRead
  <1>3. CASE \E x : /\ Begins(x, s) /\ Idle(x, port)
                    /\ \E o \in check_socket_event(x) : Becomes(o.x, port)
    <2>1. PICK x : /\ Begins(x, s) /\ Idle(x, port)
                   /\ \E o \in check_socket_event(x) : Becomes(o.x, port)
      BY <1>3
    <2>2. PICK o \in check_socket_event(x) : Becomes(o.x, port)
      BY <2>1
    <2>3. port \in Port /\ GoodHalf(x, port)
      BY <2>1 DEF IocpInv, Shape, Begins
    <2>4. PICK y : y = o.x
      OBVIOUS
    <2>5. /\ y \in Half /\ y.sock = s /\ y.io.modified = x.io.modified /\ Plain(x, y)
          /\ Becomes(y, port)
      BY <2>1, <2>2, <2>3, <2>4, CheckFollows, CheckPlain DEF Follows, GoodHalf, Begins
    <2> QED
      BY <2>1, <2>5, MethodPeers
  <1> QED
    BY <1>1, <1>2, <1>3

(* The kernel finishes an operation: a packet d of socket s comes in. *)
LEMMA CompletedPeers ==
    ASSUME IocpInv, PeersHeld, NEW s \in Sock,
           NEW e \in EventFields, NEW d \in PacketFields, d.sock = s,
           NEW k \in IoFields, k.modified = io[s].modified,
           \/ d.from = None /\ e.accept_buf = ev[s].accept_buf
           \/ d.kind = "read" /\ d.from # None /\ io[s].reads > 0
              /\ e.accept_buf = Accepted(d.from[1]),
           ev' = [ev EXCEPT ![s] = e], io' = [io EXCEPT ![s] = k], port' = Append(port, d)
    PROVE  PeersHeld'
  <1>1. /\ port \in Port /\ ev \in [Sock -> EventFields] /\ io \in [Sock -> IoFields]
        /\ Good(s, ev[s], io[s], port)
    BY DEF IocpInv, Shape
  <1>2. /\ ev'[s] = e /\ io'[s] = k
        /\ \A t \in Sock \ {s} : ev'[t] = ev[t] /\ io'[t] = io[t]
    BY <1>1
  <1>3. \A i \in 1 .. Len(port') :
            \/ i \in 1 .. Len(port) /\ port'[i] = port[i]
            \/ port'[i] = d
    <2>1. PICK r : r = port \o <<d>>
      OBVIOUS
    <2>2. \A i \in 1 .. Len(r) : (i \in 1 .. Len(port) /\ r[i] = port[i]) \/ r[i] = d
      BY <1>1, <2>1, OneMore
    <2>3. port' = r
      BY <1>1, <2>1, OneMore
    <2> QED
      BY <2>2, <2>3
  <1>4. CASE d.from = None /\ e.accept_buf = ev[s].accept_buf
    <2>1. \A t \in Sock : /\ ev'[t].accept_buf = ev[t].accept_buf
                          /\ io[t].modified => io'[t].modified
      BY <1>2, <1>4
    <2>2. \A i \in 1 .. Len(port') :
              port'[i].from = None \/ \E j \in 1 .. Len(port) : port'[i] = port[j]
      BY <1>3, <1>4, Zenon
    <2> QED
      BY <2>1, <2>2, PeersMove
  <1>5. CASE /\ d.kind = "read" /\ d.from # None /\ io[s].reads > 0
             /\ e.accept_buf = Accepted(d.from[1])
    <2> SUFFICES ASSUME NEW t \in Sock, ~io'[t].modified, NEW i \in 1 .. Len(port'),
                        HasPeer(t, port'[i])
                 PROVE  ev'[t].accept_buf = Accepted(port'[i].from[1])
      BY DEF PeersHeld, PeerHeld, HasPeer, IsRead
    <2>1. CASE port'[i] = d
      <3>1. t = s
        BY <2>1 DEF HasPeer, IsRead
      <3> QED
        BY <1>2, <1>5, <2>1, <3>1
    <2>2. CASE i \in 1 .. Len(port) /\ port'[i] = port[i]
      <3>1. HasPeer(t, port[i])
        BY <2>2, Zenon
      <3>2. t # s
        <4> SUFFICES ASSUME t = s PROVE FALSE
          OBVIOUS
        <4>1. ~io[s].modified
          BY <1>2
        <4>2. OneReadAt(s, io[s], port)
          BY <1>1, <4>1 DEF Good
        <4>3. io[s].reads = 0
          BY <2>2, <3>1, <4>2 DEF OneReadAt, HasPeer
        <4> QED
          BY <1>5, <4>3
      <3>3. ev'[t] = ev[t] /\ ~io[t].modified
        BY <1>2, <3>2
      <3>4. ev[t].accept_buf = Accepted(port[i].from[1])
        BY <2>2, <3>1, <3>3, Zenon DEF PeersHeld, PeerHeld
      <3> QED
        BY <2>2, <3>3, <3>4
    <2> QED
      BY <1>3, <2>1, <2>2
  <1> QED
    BY <1>4, <1>5

LEMMA KernelPeers ==
    ASSUME IocpInv, PeersHeld, NEW s \in Sock,
           complete_read(s) \/ complete_accept(s) \/ complete_write(s) \/ break(s)
    PROVE  PeersHeld'
  <1>1. /\ port \in Port /\ ev \in [Sock -> EventFields] /\ io \in [Sock -> IoFields]
        /\ ev[s] \in EventFields /\ io[s] \in IoFields
    BY DEF IocpInv, Shape
  <1>2. ev = [ev EXCEPT ![s] = ev[s]]
    BY <1>1
  <1>3. CASE complete_read(s)
    <2>1. PICK n \in {0, 1} : port' = Append(port, PacketOf(Socket(s), "read", n))
      BY <1>3 DEF complete_read
    <2>2. PICK k : k = [io[s] EXCEPT !.reads = io[s].reads - 1]
      OBVIOUS
    <2>3. io' = [io EXCEPT ![s] = k] /\ io[s].reads > 0 /\ ev' = ev
      BY <1>3, <2>2 DEF complete_read
    <2>4. k \in IoFields /\ k.modified = io[s].modified
      BY <1>1, <2>2, <2>3, Decreased DEF IoFields
    <2>5. PICK d : d = PacketOf(Socket(s), "read", n)
      OBVIOUS
    <2>6. d \in PacketFields /\ d.sock = s /\ d.from = None /\ port' = Append(port, d)
      BY <2>1, <2>5, KernelPackets DEF PacketOf
    <2> QED
      BY <1>1, <1>2, <2>3, <2>4, <2>6, CompletedPeers
  <1>4. CASE complete_write(s)
    <2>1. PICK k : k = [io[s] EXCEPT !.writes = io[s].writes - 1]
      OBVIOUS
    <2>2. io' = [io EXCEPT ![s] = k] /\ io[s].writes > 0 /\ ev' = ev
      BY <1>4, <2>1 DEF complete_write
    <2>3. k \in IoFields /\ k.modified = io[s].modified
      BY <1>1, <2>1, <2>2, Decreased DEF IoFields
    <2>4. PICK d : d = PacketOf(Socket(s), "write", 0)
      OBVIOUS
    <2>5. d \in PacketFields /\ d.sock = s /\ d.from = None /\ port' = Append(port, d)
      BY <1>4, <2>4, KernelPackets DEF PacketOf, complete_write
    <2> QED
      BY <1>1, <1>2, <2>2, <2>3, <2>5, CompletedPeers
  <1>5. CASE complete_accept(s)
    <2>1. PICK from \in Peer :
              /\ port' = Append(port, [PacketOf(Socket(s), "read", 0) EXCEPT !.from = from])
              /\ ev' = IF from = None THEN ev ELSE [ev EXCEPT ![s].accept_buf = Accepted(from[1])]
      BY <1>5 DEF complete_accept
    <2>2. PICK k : k = [io[s] EXCEPT !.reads = io[s].reads - 1]
      OBVIOUS
    <2>3. io' = [io EXCEPT ![s] = k] /\ io[s].reads > 0
      BY <1>5, <2>2 DEF complete_accept
    <2>4. k \in IoFields /\ k.modified = io[s].modified
      BY <1>1, <2>2, <2>3, Decreased DEF IoFields
    <2>5. PICK d : d = [PacketOf(Socket(s), "read", 0) EXCEPT !.from = from]
      OBVIOUS
    <2>6. d \in PacketFields /\ d.sock = s /\ d.kind = "read" /\ port' = Append(port, d)
      BY <2>1, <2>5, AcceptPackets
    <2>7. d.from = from
      BY <2>5 DEF PacketOf
    <2>8. CASE from = None
      BY <1>1, <1>2, <2>1, <2>3, <2>4, <2>6, <2>7, <2>8, CompletedPeers
    <2>9. CASE from # None
      <3>1. PICK b : b = Accepted(from[1])
        OBVIOUS
      <3>2. b \in AddrsBuf
        BY <2>9, <3>1 DEF Peer, Some, AddrsBuf
      <3>3. PICK e : e = [ev[s] EXCEPT !.accept_buf = b]
        OBVIOUS
      <3>4. e \in EventFields /\ e.accept_buf = b /\ ev' = [ev EXCEPT ![s] = e]
        BY <1>1, <2>1, <2>9, <3>1, <3>2, <3>3 DEF EventFields
      <3>5. d.from # None /\ e.accept_buf = Accepted(d.from[1])
        BY <2>7, <2>9, <3>1, <3>4
      <3> QED
        BY <2>3, <2>4, <2>6, <3>4, <3>5, CompletedPeers
    <2> QED
      BY <2>8, <2>9
  <1>6. CASE break(s)
    <2>1. port' = port /\ ev' = ev /\ io' = [io EXCEPT ![s].broken = TRUE]
      BY <1>6 DEF break
    <2>2. \A t \in Sock : io[t].modified => io'[t].modified
      BY <1>1, <2>1 DEF IoFields
    <2>3. \A i \in 1 .. Len(port') : \E j \in 1 .. Len(port) : port'[i] = port[j]
      BY <2>1
    <2>4. \A t \in Sock : ev'[t].accept_buf = ev[t].accept_buf
      BY <2>1
    <2> QED
      BY <2>2, <2>3, <2>4, PeersMove
  <1> QED
    BY <1>3, <1>4, <1>5, <1>6

LEMMA UnregisterModified ==
    ASSUME NEW x \in Half, NEW o \in unregister_socket(x)
    PROVE  o.x.io.modified = x.io.modified
  <1>1. CASE o = Outcome(x, TRUE)
    BY <1>1, Outcomes
  <1>2. CASE \E r \in post_info(PostFails) :
                 o = Outcome(Closed(x, Aborted(x) \o IF r.ok THEN EndedFor(x) ELSE <<>>), r.ok)
    <2>1. PICK w, b : o = Outcome(Closed(x, w), b)
      BY <1>2
    <2>2. PICK k : k = [x.io EXCEPT !.open = FALSE, !.reads = 0, !.writes = 0]
      OBVIOUS
    <2>3. PICK y : y = [x EXCEPT !.ev.is_end = TRUE, !.out = @ \o w, !.io = k]
      OBVIOUS
    <2>4. o.x = y /\ x.io \in IoFields
      BY <2>1, <2>2, <2>3 DEF Outcome, Closed, Half
    <2>5. y.io = k
      BY <2>3 DEF Half
    <2> QED
      BY <2>2, <2>4, <2>5 DEF IoFields
  <1> QED
    BY <1>1, <1>2 DEF unregister_socket

(* A packet is taken off the port, and no buffer is written into. *)
LEMMA TakenPeers ==
    ASSUME IocpInv, PeersHeld, NEW kinds, Gets(kinds), port' = Tail(port), io' = io,
           NEW e, e.accept_buf = ev[Source].accept_buf, ev' = [ev EXCEPT ![Source] = e]
    PROVE  PeersHeld'
  <1>1. Moved(Tail(port)) /\ ev \in [Sock -> EventFields]
    BY Taken DEF IocpInv, Shape
  <1>2. \A i \in 1 .. Len(port') : \E j \in 1 .. Len(port) : port'[i] = port[j]
    BY <1>1, MovedPackets
  <1>3. ASSUME NEW s \in Sock
        PROVE  ev'[s].accept_buf = ev[s].accept_buf /\ (io[s].modified => io'[s].modified)
    BY <1>1
  <1> QED
    BY <1>2, <1>3, PeersMove

LEMMA ClearedKeeps ==
    ASSUME NEW e \in EventFields
    PROVE  /\ [e EXCEPT !.is_in_write = FALSE].accept_buf = e.accept_buf
           /\ [e EXCEPT !.is_in_read = FALSE].accept_buf = e.accept_buf
           /\ [e EXCEPT !.accept_socket = FALSE, !.is_in_read = FALSE].accept_buf = e.accept_buf
  <1>1. PICK no \in BOOLEAN : no = FALSE
    OBVIOUS
  <1>2. /\ [e EXCEPT !.is_in_write = no].accept_buf = e.accept_buf
        /\ [e EXCEPT !.is_in_read = no].accept_buf = e.accept_buf
        /\ [e EXCEPT !.accept_socket = no, !.is_in_read = no].accept_buf = e.accept_buf
    BY DEF EventFields
  <1> QED
    BY <1>1, <1>2, Zenon

LEMMA DispatchPeers ==
    ASSUME IocpInv, PeersHeld, Dispatch
    PROVE  PeersHeld'
  <1>1. ev \in [Sock -> EventFields]
    BY DEF IocpInv, Shape
  <1>2. CASE write_done
    <2>1. Gets({"write"}) /\ port' = Tail(port) /\ io' = io
      BY <1>2 DEF write_done
    <2>2. Source \in Sock /\ ev[Source] \in EventFields
      BY <2>1, Taken
    <2>3. PICK e : e = [ev[Source] EXCEPT !.is_in_write = FALSE]
      OBVIOUS
    <2>4. e.accept_buf = ev[Source].accept_buf
      BY <2>2, <2>3, ClearedKeeps
    <2>5. ev' = [ev EXCEPT ![Source] = e]
      BY <1>1, <1>2, <2>2, <2>3 DEF write_done
    <2> QED
      BY <2>1, <2>4, <2>5, TakenPeers
  <1>3. CASE read_done
    <2>1. Gets({"read"}) /\ port' = Tail(port) /\ io' = io
      BY <1>3 DEF read_done
    <2>2. Source \in Sock /\ ev[Source] \in EventFields
      BY <2>1, Taken
    <2>3. PICK e : e = [ev[Source] EXCEPT !.is_in_read = FALSE]
      OBVIOUS
    <2>4. e.accept_buf = ev[Source].accept_buf
      BY <2>2, <2>3, ClearedKeeps
    <2>5. ev' = [ev EXCEPT ![Source] = e]
      BY <1>1, <1>3, <2>2, <2>3 DEF read_done
    <2> QED
      BY <2>1, <2>4, <2>5, TakenPeers
  <1>4. CASE accept_done
    <2>1. Gets({"read", "ENDED"}) /\ port' = Tail(port) /\ io' = io
      BY <1>4 DEF accept_done
    <2>2. Source \in Sock /\ ev[Source] \in EventFields
      BY <2>1, Taken
    <2>3. PICK e : e = IF Own.accept_socket
                       THEN [ev[Source] EXCEPT !.accept_socket = FALSE, !.is_in_read = FALSE]
                       ELSE ev[Source]
      OBVIOUS
    <2>4. e.accept_buf = ev[Source].accept_buf
      BY <2>2, <2>3, ClearedKeeps
    <2>5. ev' = [ev EXCEPT ![Source] = e]
      <3>1. CASE Own.accept_socket
        BY <1>1, <1>4, <2>2, <2>3, <3>1 DEF accept_done
      <3>2. CASE ~Own.accept_socket
        BY <1>1, <1>4, <2>2, <2>3, <3>2 DEF accept_done
      <3> QED
        BY <3>1, <3>2
    <2> QED
      BY <2>1, <2>4, <2>5, TakenPeers
  <1>5. CASE read_none
    <2>1. Gets({"read"})
      BY <1>5 DEF read_none
    <2>2. PICK q : q = Tail(port)
      OBVIOUS
    <2>3. PICK s : s = Source
      OBVIOUS
    <2>4. PICK o \in unregister_socket(Socket(s)) : Becomes(o.x, q)
      BY <1>5, <2>2, <2>3 DEF read_none
    <2>5. s \in Sock /\ Moved(q)
      BY <2>1, <2>2, <2>3, Taken
    <2> QED
      BY <2>4, <2>5, UnregisterPeers
  <1>6. CASE read_ended
    <2>1. Gets({"ENDED"}) /\ port' = Tail(port) /\ io' = io /\ ev' = ev
      BY <1>6 DEF read_ended
    <2>2. PICK e : e = ev[Source]
      OBVIOUS
    <2>3. ev' = [ev EXCEPT ![Source] = e]
      BY <1>1, <2>1, <2>2, Taken
    <2> QED
      BY <2>1, <2>2, <2>3, TakenPeers
  <1> QED
    BY <1>2, <1>3, <1>4, <1>5, <1>6 DEF Dispatch

LEMMA RearmedPlain ==
    ASSUME NEW o, o = Outcome(o.x, o.ok), o.x \in Half, NEW r \in Rearmed(o)
    PROVE  Plain(o.x, r.x) /\ r.x.io.modified = o.x.io.modified
  <1>1. CASE ~o.ok
    <2>1. r \in unregister_socket(o.x)
      BY <1>1 DEF Rearmed
    <2>2. Plain(o.x, r.x)
      BY <2>1, UnregisterPlain
    <2>3. r.x.io.modified = o.x.io.modified
      BY <2>1, UnregisterModified
    <2> QED
      BY <2>2, <2>3
  <1>2. CASE o.ok /\ r = o
    BY <1>2, PlainSame
  <1>3. CASE o.ok /\ r # o
    <2>1. r = [o EXCEPT !.x.ev.is_in_read = TRUE]
      BY <1>3 DEF Rearmed
    <2>2. PICK yes \in BOOLEAN : yes = TRUE
      OBVIOUS
    <2>3. PICK x : x = o.x
      OBVIOUS
    <2>4. r.x = [x EXCEPT !.ev = [x.ev EXCEPT !.is_in_read = yes]]
      <3>1. PICK b : b = o.ok
        OBVIOUS
      <3>2. o = [x |-> x, ok |-> b]
        BY <2>3, <3>1, Zenon DEF Outcome
      <3>3. r = [o EXCEPT !.x.ev.is_in_read = yes]
        BY <2>1, <2>2
      <3>4. [[x |-> x, ok |-> b] EXCEPT !.x.ev.is_in_read = yes].x
                = [x EXCEPT !.ev = [x.ev EXCEPT !.is_in_read = yes]]
        OBVIOUS
      <3> QED
        BY <3>2, <3>3, <3>4
    <2>5. x \in Half /\ x.ev \in EventFields
      BY <2>3 DEF Half
    <2>6. PICK e : e = [x.ev EXCEPT !.is_in_read = yes]
      OBVIOUS
    <2>7. e.accept_buf = x.ev.accept_buf
      BY <2>5, <2>6 DEF EventFields
    <2>8. r.x.ev = e /\ r.x.io = x.io /\ r.x.out = x.out
      BY <2>4, <2>5, <2>6 DEF Half
    <2> QED
      BY <2>3, <2>7, <2>8 DEF Plain
  <1> QED
    BY <1>1, <1>2, <1>3

(* The rest of read_done, from x. *)
LEMMA RepostPeers ==
    ASSUME IocpInv, PeersHeld, running # <<>>, running[1].kind \in {"read", "accept"},
           NEW drop, NEW x, x = [Socket(Self) EXCEPT !.ev = OneShot(ev[Self], drop)],
           \/ \E o \in post_read_event(x) \cup post_accept_event(x) :
              \E r \in Rearmed(o) : Becomes(r.x, port)
           \/ Becomes(x, port)
    PROVE  PeersHeld'
  <1>1. PICK s : s = Self
    OBVIOUS
  <1>2. s \in Sock /\ Begins(x, s) /\ Idle(x, port)
    BY <1>1, ShotBegins
  <1>3. /\ GoodHalf(x, port) /\ x.sock = s /\ x \in Half /\ port \in Port
    BY <1>2 DEF Begins, GoodHalf, IocpInv, Shape
  <1>4. CASE Becomes(x, port)
    BY <1>2, <1>3, <1>4, PlainSame, MethodPeers
  <1>5. CASE \E o \in post_read_event(x) \cup post_accept_event(x) :
             \E r \in Rearmed(o) : Becomes(r.x, port)
    <2>1. PICK o \in post_read_event(x) \cup post_accept_event(x) :
              \E r \in Rearmed(o) : Becomes(r.x, port)
      BY <1>5
    <2>2. PICK r \in Rearmed(o) : Becomes(r.x, port)
      BY <2>1
    <2>3. /\ GoodHalf(o.x, port) /\ o.x.sock = s /\ o.ok \in BOOLEAN
          /\ o.x.io.modified = x.io.modified
      <3>1. CASE o \in post_read_event(x)
        BY <1>2, <1>3, <3>1, PostReadFollows DEF Follows
      <3>2. CASE o \in post_accept_event(x)
        BY <1>2, <1>3, <3>2, PostAcceptFollows DEF Follows
      <3> QED
        BY <2>1, <3>1, <3>2
    <2>4. Plain(x, o.x)
      BY <1>3, <2>1, PostReadPlain, PostAcceptPlain
    <2>5. o = Outcome(o.x, o.ok) /\ o.x \in Half
      BY <2>1, <2>3, PostsAnswer DEF GoodHalf
    <2>6. PICK y : y = r.x
      OBVIOUS
    <2>7. y \in Half /\ y.sock = s
      BY <1>3, <2>2, <2>3, <2>5, <2>6, RearmedFollows DEF GoodHalf
    <2>8. Plain(o.x, y) /\ y.io.modified = o.x.io.modified
      BY <2>2, <2>5, <2>6, RearmedPlain
    <2>9. Plain(x, y) /\ y.io.modified = x.io.modified
      BY <2>3, <2>4, <2>8, PlainTrans
    <2> QED
      BY <1>2, <2>2, <2>6, <2>7, <2>9, MethodPeers
  <1> QED
    BY <1>4, <1>5

LEMMA ReturnPeers ==
    ASSUME IocpInv, PeersHeld, Return
    PROVE  PeersHeld'
  <1>1. CASE callback_over
    <2>1. running # <<>> /\ running[1].kind # "end"
      BY <1>1 DEF callback_over, Back
    <2>2. Self \in Sock /\ Registered(Here) /\ event_maps[Here] = Self
      BY <2>1, Running
    <2>3. PICK s \in Sock : s = Self
      BY <2>2
    <2>4. PICK o \in unregister_socket(Socket(s)) : Becomes(o.x, port)
      BY <1>1, <2>2, <2>3 DEF callback_over
    <2> QED
      BY <2>4, UnregisterPeers DEF Moved
  <1>2. CASE write_returns
    <2>1. running # <<>> /\ running[1].kind # "end"
      BY <1>2 DEF write_returns, Back
    <2>2. Self \in Sock /\ Registered(Here) /\ event_maps[Here] = Self
      BY <2>1, Running
    <2>3. PICK s \in Sock : s = Self
      BY <2>2
    <2>4. PICK x : x = Socket(s)
      OBVIOUS
    <2>5. Begins(x, s) /\ port \in Port
      BY <2>4, SocketBegins
    <2>6. CASE \E o \in post_write_event(Socket(event_maps[Here])) : Becomes(o.x, port)
      <3>1. PICK o \in post_write_event(x) : Becomes(o.x, port)
        BY <2>2, <2>3, <2>4, <2>6
      <3>2. PICK y : y = o.x
        OBVIOUS
      <3>3. /\ y \in Half /\ y.sock = s /\ y.io.modified = x.io.modified /\ Plain(x, y)
            /\ Becomes(y, port)
        BY <2>5, <3>1, <3>2, PostWriteFollows, PostWritePlain DEF Follows, GoodHalf, Begins
      <3> QED
        BY <2>5, <3>3, MethodPeers
    <2>7. CASE UNCHANGED <<ev, io, port>>
      BY <2>7 DEF PeersHeld, PeerHeld, HasPeer, IsRead
    <2> QED
      BY <1>2, <2>6, <2>7 DEF write_returns
  <1>3. CASE read_returns
    <2>1. PICK x : /\ x = [Socket(Self) EXCEPT !.ev = OneShot(ev[Self], {"READ"})]
                   /\ \/ Becomes(x, port)
                      \/ \E o \in post_read_event(x) : \E r \in Rearmed(o) : Becomes(r.x, port)
      BY <1>3, ReadReturnsComes
    <2>2. running # <<>> /\ running[1].kind = "read"
      BY <1>3, ReadReturnsComes
    <2> QED
      BY <2>1, <2>2, RepostPeers
  <1>4. CASE accept_returns
    <2>1. PICK x : /\ x = [Socket(Self) EXCEPT !.ev = OneShot(ev[Self], {"READ", "ACCEPT"})]
                   /\ \/ Becomes(x, port)
                      \/ \E o \in post_accept_event(x) : \E r \in Rearmed(o) : Becomes(r.x, port)
      BY <1>4, AcceptReturnsComes
    <2>2. running # <<>> /\ running[1].kind = "accept"
      BY <1>4, AcceptReturnsComes
    <2> QED
      BY <2>1, <2>2, RepostPeers
  <1>5. CASE end_returns
    <2>1. /\ running # <<>> /\ running[1].kind = "end" /\ port' = port
          /\ ev' = [ev EXCEPT ![Self] = NoEvent] /\ io' = [io EXCEPT ![Self] = NoIo]
      BY <1>5 DEF end_returns, Back
    <2>2. Self \in Sock /\ Self \in ended
      BY <2>1 DEF IocpInv, Shape, CallOK, Self
    <2>3. ~InMap(Self)
      BY <2>2, MappedSocket
    <2>4. \A i \in 1 .. Len(port) : port[i].sock # Self
      BY <2>2, <2>3 DEF IocpInv, Quiet
    <2>5. \A t \in Sock \ {Self} : ev'[t] = ev[t] /\ io'[t] = io[t]
      BY <2>1, <2>2 DEF IocpInv, Shape
    <2>6. ASSUME NEW s \in Sock
          PROVE  \/ ev'[s].accept_buf = ev[s].accept_buf /\ (io[s].modified => io'[s].modified)
                 \/ \A i \in 1 .. Len(port') : port'[i].sock # s
      BY <2>1, <2>4, <2>5
    <2>7. \A i \in 1 .. Len(port') : \E j \in 1 .. Len(port) : port'[i] = port[j]
      BY <2>1
    <2> QED
      BY <2>6, <2>7, PeersMove
  <1> QED
    BY <1>1, <1>2, <1>3, <1>4, <1>5 DEF Return

LEMMA NextPeers ==
    ASSUME ~Reuse, Prefill = 0, IocpInv, PeersHeld, [Next]_vars
    PROVE  PeersHeld'
  <1>1. CASE UserCall
    <2>1. ASSUME NEW n \in Num, unregister(n)
          PROVE  PeersHeld'
      <3>1. Registered(n) /\ \E o \in unregister_socket(Socket(event_maps[n])) : Becomes(o.x, port)
        BY <2>1 DEF unregister
      <3>2. PICK s \in Sock : s = event_maps[n]
        BY <3>1, MappedNumber
      <3>3. PICK o \in unregister_socket(Socket(s)) : Becomes(o.x, port)
        BY <3>1, <3>2
      <3> QED
        BY <3>3, UnregisterPeers DEF Moved
    <2> QED
      BY <1>1, <2>1, RegisterPeers, ModifyPeers, SendPeers DEF UserCall
  <1>2. CASE Kernel
    BY <1>2, KernelPeers DEF Kernel
  <1>3. CASE select_timeout \/ UNCHANGED vars
    BY <1>3 DEF select_timeout, vars, PeersHeld, PeerHeld, HasPeer, IsRead
  <1>4. CASE Dispatch
    BY <1>4, DispatchPeers
  <1>5. CASE Return
    BY <1>5, ReturnPeers
  <1> QED
    BY <1>1, <1>2, <1>3, <1>4, <1>5 DEF Next

(* The address that accept_cb is called with is the one the connection came from:
   between the accept that wrote it into the buffer and the handling of its packet
   no other accept of the listener is under way, so none writes over it, and its
   bytes are read back in the order they went in (selector.rs:126-138,
   net.rs:370-385, 421-460, 831-856).  Once modify_socket has put a second accept next to the first
   this no longer holds. *)
THEOREM IocpAcceptedPeer ==
    ASSUME ~Reuse, Prefill = 0
    PROVE  Spec => []AcceptedPeer
  <1>1. Init => PeersHeld
    BY DEF Init, PeersHeld, PeerHeld
  <1>2. IocpInv /\ PeersHeld /\ [Next]_vars => PeersHeld'
    BY NextPeers
  <1>3. IocpInv /\ PeersHeld => AcceptedPeer
    <2> SUFFICES ASSUME IocpInv, PeersHeld, Gets({"read"}), Packet.from # None,
                        ~io[Source].modified
                 PROVE  AcceptResult(TRUE, Own.accept_buf) = Ok(Packet.from)
      BY DEF AcceptedPeer
    <2>1. Source \in Sock /\ port # <<>> /\ port \in Port /\ Packet.kind = "read"
      BY Taken DEF IocpInv, Shape
    <2>2. Len(port) >= 1 /\ Packet = port[1] /\ Packet \in PacketFields
      BY <2>1, TailShape DEF Packet
    <2>3. HasPeer(Source, port[1])
      BY <2>1, <2>2 DEF HasPeer, IsRead, Source
    <2>4. Own.accept_buf = Accepted(Packet.from[1])
      BY <2>1, <2>2, <2>3 DEF PeersHeld, PeerHeld, Own
    <2>5. PICK p \in Peers : Packet.from = Some(p)
      BY <2>2 DEF PacketFields, Peer
    <2>6. Packet.from[1] = p
      BY <2>5 DEF Some
    <2> QED
      BY <2>4, <2>5, <2>6, PeerIsFound
  <1> QED
    BY <1>1, <1>2, <1>3, IocpInvariant, PTL DEF Spec

-----------------------------------------------------------------------------
(* Refinement of SocketService. *)
ServiceStep == [Service!Next]_<<Range(event_maps), running, ended>>

LEMMA NothingSeen ==
    ASSUME UNCHANGED <<event_maps, running, ended>>
    PROVE  ServiceStep
  BY DEF ServiceStep

LEMMA RegisterMaps ==
    ASSUME ~Reuse, NEW s \in Sock, register_socket(s)
    PROVE  \E n \in Num : /\ ~Registered(n)
                          /\ \/ event_maps' = Bind(event_maps, n, s)
                             \/ event_maps' = Without(event_maps, n)
  <1>1. \E n \in Num \ OpenNums :
            /\ Reuse \/ ~Registered(n)
            /\ \/ event_maps' = Bind(event_maps, n, s)
               \/ event_maps' = Without(event_maps, n)
    BY DEF register_socket
  <1> QED
    BY <1>1

LEMMA RegisterServes ==
    ASSUME ~Reuse, IocpInv, NEW s \in Sock, register_socket(s)
    PROVE  ServiceStep
  <1>1. role[s] = "none" /\ UNCHANGED <<running, ended>>
    BY DEF register_socket
  <1>2. PICK n \in Num : /\ n \notin DOMAIN event_maps
                         /\ \/ event_maps' = Bind(event_maps, n, s)
                            \/ event_maps' = Without(event_maps, n)
    BY RegisterMaps DEF Registered
  <1>3. CASE event_maps' = Bind(event_maps, n, s)
    <2>1. s \notin Range(event_maps) \cup ended
      BY <1>1, NewSocket DEF Range
    <2>2. Range(event_maps') = Range(event_maps) \cup {s}
      BY <1>2, <1>3 DEF Bind, Range
    <2>3. Service!Register(s)
      BY <1>1, <2>1, <2>2 DEF Service!Register
    <2> QED
      BY <2>3 DEF ServiceStep, Service!Next
  <1>4. CASE event_maps' = Without(event_maps, n)
    <2>1. event_maps' = event_maps
      BY <1>2, <1>4 DEF Without, Restrict, IocpInv, Shape
    <2> QED
      BY <1>1, <2>1, NothingSeen
  <1> QED
    BY <1>2, <1>3, <1>4

LEMMA MappedLives ==
    ASSUME IocpInv, NEW s \in Sock, InMap(s)
    PROVE  s \in Range(event_maps)
  BY DEF InMap, Registered, Range

LEMMA BeginServes ==
    ASSUME IocpInv, NEW kinds, Gets(kinds), NEW kind \in {"accept", "read", "write"},
           Calls(kind), UNCHANGED <<event_maps, ended>>
    PROVE  ServiceStep
  <1>1. Source \in Sock /\ Source \in Range(event_maps) /\ running = <<>>
    BY Taken, MappedLives
  <1>2. Service!Begin(kind, Source)
    BY <1>1 DEF Service!Begin, Service!Call, Calls
  <1> QED
    BY <1>1, <1>2 DEF ServiceStep, Service!Next

LEMMA EndServes ==
    ASSUME IocpInv, read_ended
    PROVE  ServiceStep
  <1>1. /\ Gets({"ENDED"}) /\ running' = <<[kind |-> "end", sock |-> Source]>>
        /\ event_maps' = Without(event_maps, num[Source]) /\ ended' = ended \cup {Source}
    BY DEF read_ended, Calls
  <1>2. Source \in Sock /\ InMap(Source) /\ running = <<>>
    BY <1>1, Taken
  <1>3. Source \in Range(event_maps)
    BY <1>2, MappedLives
  <1>4. Range(event_maps') = Range(event_maps) \ {Source}
    <2>1. /\ num[Source] \in DOMAIN event_maps /\ event_maps[num[Source]] = Source
          /\ \A n \in DOMAIN event_maps : num[event_maps[n]] = n
      BY <1>2 DEF IocpInv, MapOK, InMap, Registered
    <2>2. /\ DOMAIN event_maps' = DOMAIN event_maps \ {num[Source]}
          /\ \A n \in DOMAIN event_maps' : event_maps'[n] = event_maps[n]
      BY <1>1 DEF Without, Restrict
    <2> QED
      BY <2>1, <2>2 DEF Range
  <1>5. running' = Append(running, Service!Call("end", Source))
    <2> DEFINE c == Service!Call("end", Source)
    <2>1. Append(<<>>, c) = <<c>>
      <3> HIDE DEF c
      <3> QED
        BY SMT
    <2>2. c = [kind |-> "end", sock |-> Source]
      BY DEF Service!Call
    <2> QED
      BY <1>1, <1>2, <2>1, <2>2
  <1>6. Service!End(Source)
    BY <1>1, <1>3, <1>4, <1>5 DEF Service!End, Service!Ends
  <1> QED
    BY <1>2, <1>6 DEF ServiceStep, Service!Next

LEMMA ReturnServes ==
    ASSUME IocpInv, NEW kind, Back(kind), UNCHANGED <<event_maps, ended>>
    PROVE  ServiceStep
  <1>1. running # <<>> /\ running' = <<>>
    BY DEF Back
  <1>2. PICK k \in {"accept", "read", "write", "end"}, s \in Sock :
            running = <<[kind |-> k, sock |-> s]>>
    BY <1>1 DEF IocpInv, Shape
  <1>3. Service!Front(running) = <<>>
    <2> DEFINE c == [kind |-> k, sock |-> s]
    <2>1. Service!Front(<<c>>) = <<>>
      <3> HIDE DEF c
      <3> QED
        BY SMT DEF Service!Front
    <2> QED
      BY <1>2, <2>1
  <1>4. Service!Return
    BY <1>1, <1>3 DEF Service!Return
  <1> QED
    BY <1>4 DEF ServiceStep, Service!Next

LEMMA DispatchServes ==
    ASSUME IocpInv, Dispatch
    PROVE  ServiceStep
  <1>1. CASE write_done
    BY <1>1, Kinds, BeginServes DEF write_done
  <1>2. CASE accept_done
    <2>1. CASE Own.accept_socket
      BY <1>2, <2>1, Kinds, BeginServes DEF accept_done
    <2>2. CASE ~Own.accept_socket
      BY <1>2, <2>2, NothingSeen DEF accept_done
    <2> QED
      BY <2>1, <2>2
  <1>3. CASE read_done
    BY <1>3, Kinds, BeginServes DEF read_done
  <1>4. CASE read_none
    BY <1>4, NothingSeen DEF read_none
  <1>5. CASE read_ended
    BY <1>5, EndServes
  <1> QED
    BY <1>1, <1>2, <1>3, <1>4, <1>5 DEF Dispatch

LEMMA ServiceFollows ==
    ASSUME ~Reuse, IocpInv, [Next]_vars
    PROVE  ServiceStep
  <1>1. CASE UserCall
    <2>1. ASSUME NEW n \in Num, modify_socket(n) \/ send_socket(n) \/ unregister(n)
          PROVE  UNCHANGED <<event_maps, running, ended>>
      BY <2>1 DEF modify_socket, send_socket, unregister
    <2> QED
      BY <1>1, <2>1, RegisterServes, NothingSeen DEF UserCall
  <1>2. CASE Kernel
    BY <1>2, NothingSeen DEF Kernel, complete_read, complete_accept, complete_write, break
  <1>3. CASE select_timeout \/ UNCHANGED vars
    BY <1>3, NothingSeen DEF select_timeout, vars
  <1>4. CASE Dispatch
    BY <1>4, DispatchServes
  <1>5. CASE Return
    BY <1>5, ReturnServes
    DEF Return, callback_over, write_returns, read_returns, accept_returns, end_returns
  <1> QED
    BY <1>1, <1>2, <1>3, <1>4, <1>5 DEF Next

(* The selector implements SocketService, with the registered sockets as the live
   ones, for every program: a socket's callbacks begin between its registration
   and its one end callback, and no callback runs inside another
   (selector.rs:122-246, 400-482). *)
THEOREM IocpImplementsSocketService ==
    ASSUME ~Reuse, Prefill = 0
    PROVE  Spec => ImplementsSocketService
  <1>1. Init => Service!Init
    BY SMT DEF Init, Service!Init, Range
  <1>2. IocpInv /\ [Next]_vars => ServiceStep
    BY ServiceFollows
  <1> QED
    BY <1>1, <1>2, IocpInvariant, PTL
    DEF Spec, ImplementsSocketService, Service!Spec, Service!serviceVars, ServiceStep
=============================================================================
