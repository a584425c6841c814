------------------------- MODULE UnixSocketsProofs -------------------------
(***************************************************************************)
(* Lemmas about the sockets of the two unix selectors, for every set of    *)
(* descriptors and sockets.  SockInv relates what only the model knows,    *)
(* which socket is which, to what the code goes by, the descriptors: who   *)
(* owns a descriptor, what the map holds, and what the running callbacks   *)
(* stand for.  There is one lemma for each way a step of a selector        *)
(* changes the sockets; EpollProofs and KqueueProofs cite them.            *)
(***************************************************************************)
EXTENDS UnixSockets, TLAPS

Shape ==
    /\ fd_of \in [Sock -> Fd \cup {NotOpen}]
    /\ used \subseteq Sock
    /\ DOMAIN event_maps \subseteq Fd /\ event_maps \in [DOMAIN event_maps -> Sock]
    /\ stack \in Seq(Frame)
    /\ ended \subseteq used

(* A descriptor is that of one socket, and only sockets of the past and the
   present have one. *)
OneOwner ==
    \A s \in Sock : fd_of[s] # NotOpen =>
        s \in used /\ \A t \in Sock : fd_of[t] = fd_of[s] => t = s

(* What is in the map has not ended. *)
RegisteredLives == \A f \in DOMAIN event_maps : event_maps[f] \in used \ ended

(* A callback runs for a socket that is still in the map under the callback's
   descriptor, or that has ended since. *)
FramesKnown ==
    \A i \in 1 .. Len(stack) : stack[i].sock \notin ended =>
        stack[i].fd \in DOMAIN event_maps /\ event_maps[stack[i].fd] = stack[i].sock

(* A socket an accept callback has been given is open and not in the map, and
   no other callback has it. *)
GivenWaits ==
    \A i \in 1 .. Len(stack) : stack[i].given # NoSock =>
        /\ fd_of[stack[i].given] \in Fd
        /\ stack[i].given \notin ended
        /\ \A f \in DOMAIN event_maps : event_maps[f] # stack[i].given
        /\ \A j \in 1 .. Len(stack) : stack[j].given = stack[i].given => j = i

SockInv == Shape /\ OneOwner /\ RegisteredIsOpen /\ RegisteredLives /\ FramesKnown /\ GivenWaits

-----------------------------------------------------------------------------
LEMMA NotOpenIsNoFd == NotOpen \notin Fd
  BY FdAssumption DEF NotOpen

(* The stack without its top, and with one more. *)
LEMMA PopShape ==
    ASSUME stack \in Seq(Frame), stack # <<>>
    PROVE  /\ Pop \in Seq(Frame) /\ Len(Pop) = Len(stack) - 1
           /\ \A i \in 1 .. Len(Pop) : Pop[i] = stack[i]
           /\ Len(stack) \in 1 .. Len(stack) /\ Top \in Frame
  <1>1. Len(stack) \in Nat /\ Len(stack) # 0
    BY SMT
  <1>2. Pop = [i \in 1 .. Len(stack) - 1 |-> stack[i]]
    BY <1>1, SMT DEF Pop
  <1>3. \A i \in 1 .. Len(stack) : stack[i] \in Frame
    BY SMT
  <1> QED
    BY <1>1, <1>2, <1>3, SMT DEF Top

LEMMA PushShape ==
    ASSUME NEW stk \in Seq(Frame), NEW kind \in Where \ {"outside"}, NEW s \in Sock,
           NEW f \in Fd, NEW g \in Sock \cup {NoSock}, Push(stk, kind, s, f, g)
    PROVE  /\ stack' \in Seq(Frame) /\ Len(stack') = Len(stk) + 1
           /\ \A i \in 1 .. Len(stk) : stack'[i] = stk[i]
           /\ stack'[Len(stk) + 1] = [kind |-> kind, sock |-> s, fd |-> f, given |-> g]
  <1> DEFINE r == [kind |-> kind, sock |-> s, fd |-> f, given |-> g]
  <1>1. r \in Frame /\ stack' = Append(stk, r)
    BY DEF Push, Frame
  <1> HIDE DEF r
  <1>2. stack' \in Seq(Frame) /\ Len(stack') = Len(stk) + 1
    BY <1>1, SMT
  <1>3. \A i \in 1 .. Len(stk) : stack'[i] = stk[i]
    BY <1>1, SMT
  <1>4. stack'[Len(stk) + 1] = r
    BY <1>1, SMT
  <1> QED
    BY <1>2, <1>3, <1>4 DEF r

LEMMA GivenAreUsed ==
    ASSUME SockInv, NEW i \in 1 .. Len(stack), stack[i].given # NoSock
    PROVE  stack[i].given \in Sock /\ stack[i].given \in used
  <1>1. stack[i] \in Frame
    BY DEF SockInv, Shape
  <1>2. stack[i].given \in Sock
    BY <1>1 DEF Frame
  <1>3. fd_of[stack[i].given] # NotOpen
    BY NotOpenIsNoFd DEF SockInv, GivenWaits
  <1> QED
    BY <1>2, <1>3 DEF SockInv, OneOwner

-----------------------------------------------------------------------------
(* One lemma for each way a step changes the sockets. *)

LEMMA SocketsInitial == SocketsInit => SockInv
  BY NotOpenIsNoFd DEF SocketsInit, SockInv, Shape, OneOwner, RegisteredIsOpen, RegisteredLives,
     FramesKnown, GivenWaits

LEMMA SocketsStay ==
    ASSUME SockInv, UNCHANGED <<fd_of, used, event_maps, stack, ended>>
    PROVE  SockInv'
  BY DEF SockInv, Shape, OneOwner, RegisteredIsOpen, RegisteredLives, FramesKnown, GivenWaits

(* The top of the stack goes. *)
LEMMA PopKeeps ==
    ASSUME SockInv, stack # <<>>, stack' = Pop, UNCHANGED <<fd_of, used, event_maps, ended>>
    PROVE  SockInv'
  <1>1. /\ Pop \in Seq(Frame) /\ Len(Pop) = Len(stack) - 1
        /\ \A i \in 1 .. Len(Pop) : Pop[i] = stack[i]
    BY PopShape DEF SockInv, Shape
  <1>2. Shape' /\ OneOwner' /\ RegisteredIsOpen' /\ RegisteredLives'
    BY <1>1 DEF SockInv, Shape, OneOwner, RegisteredIsOpen, RegisteredLives
  <1>3. Len(stack) \in Nat /\ \A i \in 1 .. Len(Pop) : i \in 1 .. Len(stack)
    BY <1>1 DEF SockInv, Shape
  <1>4. FramesKnown'
    BY <1>1, <1>3 DEF SockInv, FramesKnown
  <1>5. GivenWaits'
    BY <1>1, <1>3 DEF SockInv, GivenWaits
  <1> QED
    BY <1>2, <1>4, <1>5 DEF SockInv

(* A callback of a registered socket begins, with nothing given to it. *)
LEMMA PushKeeps ==
    ASSUME SockInv, NEW kind \in Where \ {"outside"}, NEW f \in DOMAIN event_maps,
           Push(stack, kind, event_maps[f], f, NoSock),
           UNCHANGED <<fd_of, used, event_maps, ended>>
    PROVE  SockInv'
  <1>1. f \in Fd /\ event_maps[f] \in Sock
    BY DEF SockInv, Shape
  <1>2. /\ stack' \in Seq(Frame) /\ Len(stack') = Len(stack) + 1
        /\ \A i \in 1 .. Len(stack) : stack'[i] = stack[i]
        /\ stack'[Len(stack) + 1] = [kind |-> kind, sock |-> event_maps[f], fd |-> f, given |-> NoSock]
    BY <1>1, PushShape DEF SockInv, Shape
  <1>3. Len(stack) \in Nat
    BY DEF SockInv, Shape
  <1>4. Shape' /\ OneOwner' /\ RegisteredIsOpen' /\ RegisteredLives'
    BY <1>2 DEF SockInv, Shape, OneOwner, RegisteredIsOpen, RegisteredLives
  <1>5. \A i \in 1 .. Len(stack') : i \in 1 .. Len(stack) \/ i = Len(stack) + 1
    BY <1>2, <1>3
  <1>6. FramesKnown'
    BY <1>2, <1>5 DEF SockInv, FramesKnown
  <1>7. GivenWaits'
    BY <1>2, <1>5 DEF SockInv, GivenWaits
  <1> QED
    BY <1>4, <1>6, <1>7 DEF SockInv

(* A socket comes to life. *)
LEMMA OpenedFacts ==
    ASSUME SockInv, NEW s, NEW f \in Fd, Opened(s, f)
    PROVE  /\ s \in Sock \ used /\ f # NotOpen
           /\ \A t \in Sock : fd_of'[t] = IF t = s THEN f ELSE fd_of[t]
           /\ fd_of' \in [Sock -> Fd \cup {NotOpen}]
           /\ used' = used \cup {s}
           /\ \A t \in Sock : fd_of[t] # f
           /\ f \notin DOMAIN event_maps
           /\ OneOwner'
  <1>1. /\ s \in Sock \ used /\ f # NotOpen
        /\ \A t \in Sock : fd_of'[t] = IF t = s THEN f ELSE fd_of[t]
        /\ fd_of' \in [Sock -> Fd \cup {NotOpen}]
        /\ used' = used \cup {s}
    BY NotOpenIsNoFd DEF Opened, SockInv, Shape
  <1>2. \A t \in Sock : fd_of[t] # f
    BY <1>1 DEF Opened, LowestFree, OpenFds, SockInv, OneOwner
  <1>3. f \notin DOMAIN event_maps
    BY <1>2 DEF SockInv, Shape, RegisteredIsOpen
  <1>4. OneOwner'
    BY <1>1, <1>2 DEF SockInv, OneOwner, Shape
  <1> QED
    BY <1>1, <1>2, <1>3, <1>4

(* accept: the listener's callback begins with the new socket. *)
LEMMA AcceptKeeps ==
    ASSUME SockInv, NEW s, NEW f \in Fd, Opened(s, f), NEW g \in DOMAIN event_maps,
           Push(stack, "accept", event_maps[g], g, s), UNCHANGED <<event_maps, ended>>
    PROVE  SockInv'
  <1>1. g \in Fd /\ event_maps[g] \in Sock
    BY DEF SockInv, Shape
  <1>2. /\ s \in Sock \ used /\ f # NotOpen
        /\ \A t \in Sock : fd_of'[t] = IF t = s THEN f ELSE fd_of[t]
        /\ fd_of' \in [Sock -> Fd \cup {NotOpen}]
        /\ used' = used \cup {s}
        /\ OneOwner'
    BY OpenedFacts
  <1>3. /\ stack' \in Seq(Frame) /\ Len(stack') = Len(stack) + 1
        /\ \A i \in 1 .. Len(stack) : stack'[i] = stack[i]
        /\ stack'[Len(stack) + 1] = [kind |-> "accept", sock |-> event_maps[g], fd |-> g, given |-> s]
    BY <1>1, <1>2, PushShape DEF SockInv, Shape, Where
  <1>4. Len(stack) \in Nat
    BY DEF SockInv, Shape
  <1>5. Shape' /\ RegisteredIsOpen' /\ RegisteredLives'
    BY <1>2, <1>3 DEF SockInv, Shape, RegisteredIsOpen, RegisteredLives
  <1>6. \A i \in 1 .. Len(stack') : i \in 1 .. Len(stack) \/ i = Len(stack) + 1
    BY <1>3, <1>4
  <1>7. FramesKnown'
    BY <1>3, <1>6 DEF SockInv, FramesKnown
  <1>8. \A i \in 1 .. Len(stack) : stack[i].given # NoSock =>
            stack[i].given \in used /\ stack[i].given # s
    BY <1>2, GivenAreUsed
  <1>9. GivenWaits'
    <2> SUFFICES ASSUME NEW i \in 1 .. Len(stack'), stack'[i].given # NoSock
                 PROVE  /\ fd_of'[stack'[i].given] \in Fd
                        /\ stack'[i].given \notin ended
                        /\ \A h \in DOMAIN event_maps : event_maps[h] # stack'[i].given
                        /\ \A j \in 1 .. Len(stack') : stack'[j].given = stack'[i].given => j = i
      BY DEF GivenWaits
    <2>1. CASE i \in 1 .. Len(stack)
      BY <1>2, <1>3, <1>6, <1>8, <2>1 DEF SockInv, GivenWaits, Shape
    <2>2. CASE i = Len(stack) + 1
      BY <1>2, <1>3, <1>6, <1>8, <2>2, SockAssumption DEF SockInv, Shape, RegisteredLives
    <2> QED
      BY <1>6, <2>1, <2>2
  <1> QED
    BY <1>2, <1>5, <1>7, <1>9 DEF SockInv

(* The frames when the top one no longer has a socket to give. *)
LEMMA TakenShape ==
    ASSUME Shape, stack # <<>>, stack' = [stack EXCEPT ![Len(stack)].given = NoSock]
    PROVE  /\ stack' \in Seq(Frame) /\ Len(stack') = Len(stack) /\ Len(stack) \in 1 .. Len(stack)
           /\ \A i \in 1 .. Len(stack) : /\ stack'[i].kind = stack[i].kind
                                         /\ stack'[i].sock = stack[i].sock
                                         /\ stack'[i].fd = stack[i].fd
                                         /\ i # Len(stack) => stack'[i].given = stack[i].given
           /\ stack'[Len(stack)].given = NoSock
  <1> DEFINE n == Len(stack)
             r == [stack[n] EXCEPT !.given = NoSock]
  <1>1. n \in 1 .. n /\ n \in Nat
    BY SMT DEF Shape
  <1>2. \A i \in 1 .. n : stack[i] \in Frame
    BY SMT DEF Shape
  <1>3. r \in Frame /\ r.kind = stack[n].kind /\ r.sock = stack[n].sock /\ r.fd = stack[n].fd
        /\ r.given = NoSock
    BY <1>1, <1>2 DEF Frame
  <1>4. stack' = [stack EXCEPT ![n] = r]
    BY DEF Shape
  <1> HIDE DEF r
  <1>5. stack' \in Seq(Frame) /\ Len(stack') = n
    BY <1>1, <1>3, <1>4, SMT DEF Shape
  <1>6. \A i \in 1 .. n : stack'[i] = IF i = n THEN r ELSE stack[i]
    BY <1>1, <1>4, SMT DEF Shape
  <1> QED
    BY <1>1, <1>3, <1>5, <1>6

(* The socket given to the top callback closes. *)
LEMMA GivenCloses ==
    ASSUME SockInv, stack # <<>>, Top.given # NoSock,
           fd_of' = [fd_of EXCEPT ![Top.given] = NotOpen],
           stack' = [stack EXCEPT ![Len(stack)].given = NoSock],
           UNCHANGED <<used, event_maps, ended>>
    PROVE  SockInv'
  <1> DEFINE s == Top.given
  <1>1. /\ stack' \in Seq(Frame) /\ Len(stack') = Len(stack) /\ Len(stack) \in 1 .. Len(stack)
        /\ \A i \in 1 .. Len(stack) : /\ stack'[i].sock = stack[i].sock
                                      /\ stack'[i].fd = stack[i].fd
                                      /\ i # Len(stack) => stack'[i].given = stack[i].given
        /\ stack'[Len(stack)].given = NoSock
    BY TakenShape DEF SockInv
  <1>2. /\ \A f \in DOMAIN event_maps : event_maps[f] # s
        /\ \A j \in 1 .. Len(stack) : stack[j].given = s => j = Len(stack)
    BY <1>1 DEF SockInv, GivenWaits, Top
  <1>3. \A t \in Sock : fd_of'[t] = IF t = s THEN NotOpen ELSE fd_of[t]
    BY DEF SockInv, Shape
  <1>4. Shape'
    BY <1>1 DEF SockInv, Shape
  <1>5. OneOwner' /\ RegisteredLives'
    BY <1>3 DEF SockInv, OneOwner, RegisteredLives
  <1>6. RegisteredIsOpen'
    BY <1>2, <1>3 DEF SockInv, Shape, RegisteredIsOpen
  <1>7. FramesKnown'
    BY <1>1 DEF SockInv, FramesKnown
  <1>8. \A i \in 1 .. Len(stack) : stack[i].given # NoSock => stack[i].given \in Sock
    BY GivenAreUsed
  <1>9. GivenWaits'
    BY <1>1, <1>2, <1>3, <1>8 DEF SockInv, GivenWaits
  <1> QED
    BY <1>4, <1>5, <1>6, <1>7, <1>9 DEF SockInv

(* The socket given to the top callback is registered. *)
LEMMA GivenRegisters ==
    ASSUME SockInv, stack # <<>>, Top.given # NoSock,
           event_maps' = Bind(event_maps, fd_of[Top.given], Top.given),
           stack' = [stack EXCEPT ![Len(stack)].given = NoSock],
           UNCHANGED <<fd_of, used, ended>>
    PROVE  SockInv' /\ fd_of[Top.given] \in Fd /\ fd_of[Top.given] \notin DOMAIN event_maps
  <1> DEFINE s == Top.given
             f == fd_of[s]
  <1>1. /\ stack' \in Seq(Frame) /\ Len(stack') = Len(stack) /\ Len(stack) \in 1 .. Len(stack)
        /\ \A i \in 1 .. Len(stack) : /\ stack'[i].sock = stack[i].sock
                                      /\ stack'[i].fd = stack[i].fd
                                      /\ i # Len(stack) => stack'[i].given = stack[i].given
        /\ stack'[Len(stack)].given = NoSock
    BY TakenShape DEF SockInv
  <1>2. /\ f \in Fd /\ s \notin ended /\ s \in Sock
        /\ \A g \in DOMAIN event_maps : event_maps[g] # s
        /\ \A j \in 1 .. Len(stack) : stack[j].given = s => j = Len(stack)
    BY <1>1, PopShape DEF SockInv, Shape, GivenWaits, Top, Frame
  <1>3. s \in used /\ \A t \in Sock : fd_of[t] = f => t = s
    BY <1>2, NotOpenIsNoFd DEF SockInv, OneOwner
  <1>4. f \notin DOMAIN event_maps
    BY <1>2, <1>3 DEF SockInv, Shape, RegisteredIsOpen
  <1>5. /\ DOMAIN event_maps' = DOMAIN event_maps \cup {f}
        /\ event_maps'[f] = s
        /\ \A g \in DOMAIN event_maps : event_maps'[g] = event_maps[g]
        /\ event_maps' \in [DOMAIN event_maps' -> Sock]
    BY <1>2, <1>4 DEF SockInv, Shape, Bind
  <1>6. Shape' /\ OneOwner'
    BY <1>1, <1>2, <1>5 DEF SockInv, Shape, OneOwner
  <1>7. RegisteredIsOpen' /\ RegisteredLives'
    BY <1>2, <1>3, <1>5 DEF SockInv, RegisteredIsOpen, RegisteredLives
  <1>8. FramesKnown'
    BY <1>1, <1>5 DEF SockInv, FramesKnown
  <1>9. GivenWaits'
    BY <1>1, <1>2, <1>5 DEF SockInv, GivenWaits
  <1> QED
    BY <1>2, <1>4, <1>6, <1>7, <1>8, <1>9 DEF SockInv

(* A socket the program opened is registered. *)
LEMMA RegisterKeeps ==
    ASSUME SockInv, NEW s, NEW f \in Fd, Opened(s, f), event_maps' = Bind(event_maps, f, s),
           UNCHANGED <<stack, ended>>
    PROVE  SockInv'
  <1>1. /\ s \in Sock \ used /\ f # NotOpen
        /\ \A t \in Sock : fd_of'[t] = IF t = s THEN f ELSE fd_of[t]
        /\ fd_of' \in [Sock -> Fd \cup {NotOpen}]
        /\ used' = used \cup {s}
        /\ f \notin DOMAIN event_maps
        /\ OneOwner'
    BY OpenedFacts
  <1>2. /\ DOMAIN event_maps' = DOMAIN event_maps \cup {f}
        /\ event_maps'[f] = s
        /\ \A g \in DOMAIN event_maps : event_maps'[g] = event_maps[g]
        /\ event_maps' \in [DOMAIN event_maps' -> Sock]
    BY <1>1 DEF SockInv, Shape, Bind
  <1>3. Shape'
    BY <1>1, <1>2 DEF SockInv, Shape
  <1>4. RegisteredIsOpen' /\ RegisteredLives'
    BY <1>1, <1>2 DEF SockInv, Shape, RegisteredIsOpen, RegisteredLives
  <1>5. FramesKnown'
    BY <1>2 DEF SockInv, FramesKnown
  <1>6. \A i \in 1 .. Len(stack) : stack[i].given # NoSock => stack[i].given \in used
    BY GivenAreUsed
  <1>7. GivenWaits'
    BY <1>1, <1>2, <1>6 DEF SockInv, Shape, GivenWaits
  <1> QED
    BY <1>1, <1>3, <1>4, <1>5, <1>7 DEF SockInv

(* A socket the program opened is refused, and closes. *)
LEMMA RefusalKeeps ==
    ASSUME SockInv, NEW s \in Sock \ used, used' = used \cup {s},
           UNCHANGED <<fd_of, event_maps, stack, ended>>
    PROVE  SockInv'
  BY DEF SockInv, Shape, OneOwner, RegisteredIsOpen, RegisteredLives, FramesKnown, GivenWaits
(* The stack a callback is put on: all of it, or all but the frame that
   returns OVER. *)
Base(stk) == stk = stack \/ (stack # <<>> /\ stk = Pop)

LEMMA BaseShape ==
    ASSUME stack \in Seq(Frame), NEW stk, Base(stk)
    PROVE  /\ stk \in Seq(Frame) /\ Len(stk) \in Nat /\ Len(stk) <= Len(stack)
           /\ \A i \in 1 .. Len(stk) : i \in 1 .. Len(stack) /\ stk[i] = stack[i]
  <1>1. CASE stk = stack
    BY <1>1
  <1>2. CASE stack # <<>> /\ stk = Pop
    BY <1>2, PopShape
  <1> QED
    BY <1>1, <1>2 DEF Base

(* A registered socket ends. *)
LEMMA EndsKeeps ==
    ASSUME SockInv, NEW f \in DOMAIN event_maps, NEW stk, Base(stk), Ends(f, stk), UNCHANGED used
    PROVE  SockInv'
  <1> DEFINE s == event_maps[f]
  <1>1. /\ f \in Fd /\ s \in Sock /\ s \in used /\ fd_of[s] = f /\ f # NotOpen
    BY NotOpenIsNoFd DEF SockInv, Shape, RegisteredIsOpen, RegisteredLives
  <1>2. /\ stk \in Seq(Frame) /\ Len(stk) \in Nat
        /\ \A i \in 1 .. Len(stk) : i \in 1 .. Len(stack) /\ stk[i] = stack[i]
    BY BaseShape DEF SockInv, Shape
  <1>3. /\ stack' \in Seq(Frame) /\ Len(stack') = Len(stk) + 1
        /\ \A i \in 1 .. Len(stk) : stack'[i] = stk[i]
        /\ stack'[Len(stk) + 1] = [kind |-> "end", sock |-> s, fd |-> f, given |-> NoSock]
    BY <1>1, <1>2, PushShape DEF Ends, Where
  <1>4. /\ \A t \in Sock : fd_of'[t] = IF t = s THEN NotOpen ELSE fd_of[t]
        /\ fd_of' \in [Sock -> Fd \cup {NotOpen}]
        /\ ended' = ended \cup {s}
    BY <1>1 DEF Ends, SockInv, Shape
  <1>5. /\ DOMAIN event_maps' = DOMAIN event_maps \ {f}
        /\ \A g \in DOMAIN event_maps' : event_maps'[g] = event_maps[g] /\ event_maps[g] # s
        /\ event_maps' \in [DOMAIN event_maps' -> Sock]
    BY <1>1 DEF Ends, Without, Restrict, SockInv, Shape, RegisteredIsOpen
  <1>6. Shape'
    BY <1>1, <1>3, <1>4, <1>5 DEF SockInv, Shape
  <1>7. OneOwner'
    BY <1>4 DEF SockInv, OneOwner
  <1>8. RegisteredIsOpen' /\ RegisteredLives'
    BY <1>4, <1>5 DEF SockInv, Shape, RegisteredIsOpen, RegisteredLives
  <1>9. \A i \in 1 .. Len(stack') : (i \in 1 .. Len(stack) /\ stack'[i] = stack[i])
                                   \/ i = Len(stk) + 1
    BY <1>2, <1>3
  <1>10. FramesKnown'
    <2> SUFFICES ASSUME NEW i \in 1 .. Len(stack'), stack'[i].sock \notin ended'
                 PROVE  stack'[i].fd \in DOMAIN event_maps' /\ event_maps'[stack'[i].fd] = stack'[i].sock
      BY DEF FramesKnown
    <2>1. i \in 1 .. Len(stack) /\ stack'[i] = stack[i]
      BY <1>3, <1>4, <1>9
    <2>2. stack[i].fd \in DOMAIN event_maps /\ event_maps[stack[i].fd] = stack[i].sock
      BY <2>1, <1>4 DEF SockInv, FramesKnown
    <2> QED
      BY <1>4, <1>5, <2>1, <2>2
  <1>11. GivenWaits'
    <2> SUFFICES ASSUME NEW i \in 1 .. Len(stack'), stack'[i].given # NoSock
                 PROVE  /\ fd_of'[stack'[i].given] \in Fd
                        /\ stack'[i].given \notin ended'
                        /\ \A h \in DOMAIN event_maps' : event_maps'[h] # stack'[i].given
                        /\ \A j \in 1 .. Len(stack') : stack'[j].given = stack'[i].given => j = i
      BY DEF GivenWaits
    <2>1. i \in 1 .. Len(stack) /\ stack'[i] = stack[i]
      BY <1>3, <1>9
    <2>2. stack[i].given \in Sock /\ stack[i].given # s
      BY <2>1, GivenAreUsed DEF SockInv, GivenWaits
    <2>3. /\ fd_of'[stack[i].given] \in Fd
          /\ stack[i].given \notin ended'
          /\ \A h \in DOMAIN event_maps' : event_maps'[h] # stack[i].given
      BY <1>4, <1>5, <2>1, <2>2 DEF SockInv, GivenWaits
    <2>4. \A j \in 1 .. Len(stack') : stack'[j].given = stack[i].given => j = i
      BY <1>3, <1>9, <2>1 DEF SockInv, GivenWaits
    <2> QED
      BY <2>1, <2>3, <2>4
  <1> QED
    BY <1>6, <1>7, <1>8, <1>10, <1>11 DEF SockInv

-----------------------------------------------------------------------------
(* The Events, and which callbacks are running. *)
Events == [flags : SUBSET Flag, is_in_write : BOOLEAN,
           submitted : 0 .. MaxSend, sent : 0 .. MaxSend]

LEMMA NoEventYet ==
    NoEvent \in Events /\ NoEvent.sent = NoEvent.submitted /\ NoEvent.is_in_write = FALSE
  BY SizeAssumption DEF NoEvent, Events

LEMMA HereIsKnown ==
    ASSUME SockInv
    PROVE  Here \in Where
  <1>1. stack # <<>> => Len(stack) \in 1 .. Len(stack) /\ stack[Len(stack)] \in Frame
    BY DEF SockInv, Shape
  <1> QED
    BY <1>1 DEF Here, Frame, Where

(* Only end callbacks run inside another callback, the descriptor that one of
   them will take off the kernel's list when it returns has no entry, and only
   accept callbacks are given sockets. *)
Apart ==
    \A i \in 1 .. Len(stack) :
        /\ i > 1 => stack[i].kind = "end"
        /\ stack[i].kind = "end" => stack[i].fd \notin DOMAIN event_maps
        /\ stack[i].given # NoSock => stack[i].kind = "accept"

(* The entries of the map are those of different sockets. *)
LEMMA OneEntry ==
    ASSUME SockInv, NEW f \in DOMAIN event_maps, NEW g \in DOMAIN event_maps \ {f}
    PROVE  event_maps[f] \in Sock /\ event_maps[g] \in Sock /\ event_maps[g] # event_maps[f]
  BY DEF SockInv, Shape, RegisteredIsOpen

LEMMA ApartStays ==
    ASSUME SockInv, Apart, DOMAIN event_maps' \subseteq DOMAIN event_maps,
           \/ stack' = stack
           \/ stack # <<>> /\ stack' = [stack EXCEPT ![Len(stack)].given = NoSock]
           \/ stack # <<>> /\ stack' = Pop
    PROVE  Apart'
  <1>1. CASE stack' = stack
    BY <1>1 DEF Apart
  <1>2. CASE stack # <<>> /\ stack' = [stack EXCEPT ![Len(stack)].given = NoSock]
    <2>1. /\ Len(stack') = Len(stack)
          /\ \A i \in 1 .. Len(stack) :
                 /\ stack'[i].kind = stack[i].kind /\ stack'[i].fd = stack[i].fd
                 /\ stack'[i].given # NoSock => stack[i].given # NoSock
      BY <1>2, TakenShape DEF SockInv
    <2> QED
      BY <2>1 DEF Apart
  <1>3. CASE stack # <<>> /\ stack' = Pop
    <2>1. /\ Len(stack') = Len(stack) - 1 /\ Len(stack) \in 1 .. Len(stack)
          /\ \A i \in 1 .. Len(stack') : stack'[i] = stack[i]
      BY <1>3, PopShape DEF SockInv, Shape
    <2> QED
      BY <2>1 DEF Apart
  <1> QED
    BY <1>1, <1>2, <1>3

LEMMA ApartPush ==
    ASSUME stack = <<>>, NEW kind \in {"accept", "read"}, NEW s, NEW f, NEW given,
           Push(stack, kind, s, f, given), given # NoSock => kind = "accept"
    PROVE  Apart'
  <1>1. PICK frame : frame = [kind |-> kind, sock |-> s, fd |-> f, given |-> given]
    OBVIOUS
  <1>2. stack' = Append(<<>>, frame) /\ frame.kind = kind /\ frame.given = given
    BY <1>1 DEF Push
  <1>3. Len(stack') = 1 /\ stack'[1] = frame
    BY <1>2
  <1> QED
    BY <1>2, <1>3 DEF Apart

LEMMA ApartEnds ==
    ASSUME SockInv, Apart, NEW f \in DOMAIN event_maps, NEW stk, Base(stk), Ends(f, stk)
    PROVE  Apart'
  <1>1. f \in Fd /\ event_maps[f] \in Sock
    BY DEF SockInv, Shape
  <1>2. /\ stk \in Seq(Frame) /\ Len(stk) \in Nat
        /\ \A i \in 1 .. Len(stk) : i \in 1 .. Len(stack) /\ stk[i] = stack[i]
    BY BaseShape DEF SockInv, Shape
  <1>3. /\ Len(stack') = Len(stk) + 1
        /\ \A i \in 1 .. Len(stk) : stack'[i] = stk[i]
        /\ stack'[Len(stk) + 1].kind = "end" /\ stack'[Len(stk) + 1].fd = f
        /\ stack'[Len(stk) + 1].given = NoSock
    <2>1. /\ Len(stack') = Len(stk) + 1
          /\ \A i \in 1 .. Len(stk) : stack'[i] = stk[i]
          /\ stack'[Len(stk) + 1] = [kind |-> "end", sock |-> event_maps[f], fd |-> f, given |-> NoSock]
      BY <1>1, <1>2, PushShape DEF Ends, Where
    <2> QED
      BY <2>1
  <1>4. DOMAIN event_maps' = DOMAIN event_maps \ {f}
    BY DEF Ends, Without, Restrict
  <1> QED
    BY <1>2, <1>3, <1>4 DEF Apart

(* Outside of end callbacks at most one callback runs. *)
LEMMA OneCallback ==
    ASSUME SockInv, Apart, Here # "end"
    PROVE  \A i \in 1 .. Len(stack) : i = 1 /\ stack[i].kind # "end"
  <1>1. stack \in Seq(Frame)
    BY DEF SockInv, Shape
  <1>2. CASE stack = <<>>
    BY <1>2
  <1>3. CASE stack # <<>>
    <2>1. Len(stack) \in 1 .. Len(stack) /\ stack[Len(stack)].kind # "end"
      BY <1>1, <1>3 DEF Here
    <2> QED
      BY <1>1, <2>1 DEF Apart
  <1> QED
    BY <1>2, <1>3

(* There a socket may be opened. *)
LEMMA ApartOpens ==
    ASSUME SockInv, Apart, Here # "end",
           \/ stack' = stack
           \/ stack # <<>> /\ stack' = [stack EXCEPT ![Len(stack)].given = NoSock]
    PROVE  Apart'
  <1>1. stack \in Seq(Frame)
    BY DEF SockInv, Shape
  <1>2. \A i \in 1 .. Len(stack) : i = 1 /\ stack[i].kind # "end"
    BY OneCallback
  <1>3. CASE stack' = stack
    BY <1>2, <1>3 DEF Apart
  <1>4. CASE stack # <<>> /\ stack' = [stack EXCEPT ![Len(stack)].given = NoSock]
    <2>1. /\ Len(stack') = Len(stack)
          /\ \A i \in 1 .. Len(stack) :
                 /\ stack'[i].kind = stack[i].kind
                 /\ stack'[i].given # NoSock => stack[i].given # NoSock
      BY <1>4, TakenShape DEF SockInv
    <2> QED
      BY <1>2, <2>1 DEF Apart
  <1> QED
    BY <1>3, <1>4

-----------------------------------------------------------------------------
(* Refinement of SocketService: one lemma for each way a step changes what the
   service sees of the sockets. *)
ServiceStep == [Service!Next]_<<Range(event_maps), Ran(stack), ended>>

(* No callback whose socket has ended returns OVER while another socket has its
   number: unregister_socket would end that one. *)
OwnOver == \A w \in Where : <<w, "over_reused">> \notin Permits

(* What a step of such a program is to the service. *)
StepServes == OwnOver => ServiceStep

Called == [kind : Where, sock : Sock]

LEMMA RanShape ==
    ASSUME NEW stk \in Seq(Frame)
    PROVE  /\ Ran(stk) \in Seq(Called) /\ Len(Ran(stk)) = Len(stk) /\ Len(stk) \in Nat
           /\ DOMAIN stk = 1 .. Len(stk) /\ DOMAIN Ran(stk) = 1 .. Len(stk)
           /\ \A i \in 1 .. Len(stk) : Ran(stk)[i] = [kind |-> stk[i].kind, sock |-> stk[i].sock]
           /\ Ran(stk) = <<>> <=> stk = <<>>
  <1>1. DOMAIN stk = 1 .. Len(stk) /\ Len(stk) \in Nat
    BY SMT
  <1>2. \A i \in 1 .. Len(stk) : [kind |-> stk[i].kind, sock |-> stk[i].sock] \in Called
    <2> SUFFICES ASSUME NEW i \in 1 .. Len(stk)
                 PROVE  [kind |-> stk[i].kind, sock |-> stk[i].sock] \in Called
      OBVIOUS
    <2>1. stk[i] \in Frame
      BY SMT
    <2> QED
      BY <2>1 DEF Frame, Called
  <1>3. Ran(stk) \in [1 .. Len(stk) -> Called]
    BY <1>1, <1>2 DEF Ran
  <1>4. Ran(stk) \in Seq(Called) /\ Len(Ran(stk)) = Len(stk)
    BY <1>1, <1>3, SMT
  <1> QED
    BY <1>1, <1>3, <1>4, SMT DEF Ran

(* The same frames, or what is given taken from the top one: nothing that the
   service sees. *)
LEMMA SameCalls ==
    ASSUME SockInv,
           \/ stack' = stack
           \/ stack # <<>> /\ stack' = [stack EXCEPT ![Len(stack)].given = NoSock]
    PROVE  UNCHANGED Ran(stack)
  <1>1. CASE stack' = stack
    BY <1>1 DEF Ran
  <1>2. CASE stack # <<>> /\ stack' = [stack EXCEPT ![Len(stack)].given = NoSock]
    <2>1. /\ stack \in Seq(Frame) /\ stack' \in Seq(Frame) /\ Len(stack') = Len(stack)
          /\ \A i \in 1 .. Len(stack) : stack'[i].kind = stack[i].kind /\ stack'[i].sock = stack[i].sock
      BY <1>2, TakenShape DEF SockInv, Shape
    <2>2. DOMAIN stack = 1 .. Len(stack) /\ DOMAIN stack' = 1 .. Len(stack)
      BY <2>1, RanShape
    <2> QED
      BY <2>1, <2>2 DEF Ran
  <1> QED
    BY <1>1, <1>2

LEMMA NoCall ==
    ASSUME SockInv, UNCHANGED <<event_maps, ended>>,
           \/ stack' = stack
           \/ stack # <<>> /\ stack' = [stack EXCEPT ![Len(stack)].given = NoSock]
    PROVE  ServiceStep
  BY SameCalls DEF ServiceStep

LEMMA PopServes ==
    ASSUME SockInv, stack # <<>>, stack' = Pop, UNCHANGED <<event_maps, ended>>
    PROVE  ServiceStep
  <1>1. /\ stack \in Seq(Frame) /\ stack' \in Seq(Frame) /\ Len(stack') = Len(stack) - 1
        /\ \A i \in 1 .. Len(stack') : stack'[i] = stack[i]
    BY PopShape DEF SockInv, Shape
  <1>2. /\ Ran(stack) \in Seq(Called) /\ Len(Ran(stack)) = Len(stack) /\ Ran(stack) # <<>>
        /\ \A i \in 1 .. Len(stack) : Ran(stack)[i] = [kind |-> stack[i].kind, sock |-> stack[i].sock]
        /\ Len(stack) \in Nat /\ Len(stack) # 0
    BY <1>1, RanShape, SMT
  <1>3. DOMAIN stack' = 1 .. Len(stack) - 1
    BY <1>1, RanShape
  <1>4. Ran(stack') = [i \in 1 .. Len(stack) - 1 |-> Ran(stack)[i]]
    BY <1>1, <1>2, <1>3 DEF Ran
  <1>5. Service!Front(Ran(stack)) = [i \in 1 .. Len(stack) - 1 |-> Ran(stack)[i]]
    BY <1>2, SMT DEF Service!Front
  <1>6. Service!Return
    BY <1>2, <1>4, <1>5 DEF Service!Return, Ran
  <1> QED
    BY <1>6 DEF ServiceStep, Service!Next

LEMMA AppendIs ==
    ASSUME NEW T, NEW r \in Seq(T), NEW c \in T
    PROVE  Append(r, c) = [i \in 1 .. Len(r) + 1 |-> IF i = Len(r) + 1 THEN c ELSE r[i]]
  <1> DEFINE n == Len(r) + 1
  <1>1. Append(r, c) \in Seq(T) /\ Len(Append(r, c)) = n /\ n \in Nat
    BY SMT
  <1>2. \A i \in 1 .. n : Append(r, c)[i] = IF i = n THEN c ELSE r[i]
    BY SMT
  <1>3. Append(r, c) = [i \in 1 .. n |-> Append(r, c)[i]]
    <2> DEFINE q == Append(r, c)
    <2> HIDE DEF q
    <2>1. q \in Seq(T) /\ Len(q) = n
      BY <1>1 DEF q
    <2>2. q = [i \in 1 .. n |-> q[i]]
      BY <2>1, SMT
    <2> QED
      BY <2>2 DEF q
  <1> QED
    BY <1>2, <1>3

(* What Push on stk is to the service. *)
LEMMA PushRuns ==
    ASSUME NEW stk \in Seq(Frame), NEW kind \in Where \ {"outside"}, NEW s \in Sock,
           NEW f \in Fd, NEW g \in Sock \cup {NoSock}, Push(stk, kind, s, f, g)
    PROVE  Ran(stack') = Append(Ran(stk), [kind |-> kind, sock |-> s])
  <1> DEFINE c == [kind |-> kind, sock |-> s]
  <1>1. /\ stack' \in Seq(Frame) /\ Len(stack') = Len(stk) + 1
        /\ \A i \in 1 .. Len(stk) : stack'[i] = stk[i]
        /\ stack'[Len(stk) + 1].kind = kind /\ stack'[Len(stk) + 1].sock = s
    <2>1. /\ stack' \in Seq(Frame) /\ Len(stack') = Len(stk) + 1
          /\ \A i \in 1 .. Len(stk) : stack'[i] = stk[i]
          /\ stack'[Len(stk) + 1] = [kind |-> kind, sock |-> s, fd |-> f, given |-> g]
      BY PushShape
    <2> QED
      BY <2>1
  <1>2. /\ Ran(stk) \in Seq(Called) /\ Len(Ran(stk)) = Len(stk) /\ Len(stk) \in Nat
        /\ \A i \in 1 .. Len(stk) : Ran(stk)[i] = [kind |-> stk[i].kind, sock |-> stk[i].sock]
    BY RanShape
  <1>3. DOMAIN stack' = 1 .. Len(stk) + 1
    BY <1>1, RanShape
  <1>4. Ran(stack') = [i \in 1 .. Len(stk) + 1 |-> IF i = Len(stk) + 1 THEN c ELSE Ran(stk)[i]]
    BY <1>1, <1>2, <1>3 DEF Ran
  <1>5. c \in Called
    BY DEF Called
  <1> HIDE DEF c
  <1>6. Append(Ran(stk), c) =
            [i \in 1 .. Len(stk) + 1 |-> IF i = Len(stk) + 1 THEN c ELSE Ran(stk)[i]]
    BY <1>2, <1>5, AppendIs
  <1> QED
    BY <1>4, <1>6 DEF c

(* A callback of a registered socket begins, and no other runs. *)
LEMMA PushServes ==
    ASSUME SockInv, stack = <<>>, NEW kind \in {"accept", "read"}, NEW f \in DOMAIN event_maps,
           NEW g \in Sock \cup {NoSock}, Push(stack, kind, event_maps[f], f, g),
           UNCHANGED <<event_maps, ended>>
    PROVE  ServiceStep
  <1> DEFINE s == event_maps[f]
  <1>1. f \in Fd /\ s \in Sock /\ s \in Range(event_maps) /\ stack \in Seq(Frame)
    BY DEF SockInv, Shape, Range
  <1>2. Ran(stack') = Append(Ran(stack), [kind |-> kind, sock |-> s])
    BY <1>1, PushRuns DEF Where
  <1>3. Ran(stack) = <<>>
    BY <1>1, RanShape
  <1>4. Ran(stack') = <<[kind |-> kind, sock |-> s]>>
    <2> DEFINE c == [kind |-> kind, sock |-> s]
    <2>1. Append(<<>>, c) = <<c>>
      <3> HIDE DEF c
      <3> QED
        BY SMT
    <2> QED
      BY <1>2, <1>3, <2>1
  <1>5. Service!Begin(kind, s)
    BY <1>1, <1>3, <1>4 DEF Service!Begin, Service!Call, Ran
  <1> QED
    BY <1>1, <1>5 DEF ServiceStep, Service!Next

(* A socket goes into the map. *)
LEMMA RegisterServes ==
    ASSUME SockInv, NEW f, NEW s \in Sock, f \notin DOMAIN event_maps,
           s \notin Range(event_maps) \cup ended,
           event_maps' = Bind(event_maps, f, s), UNCHANGED ended,
           \/ stack' = stack
           \/ stack # <<>> /\ stack' = [stack EXCEPT ![Len(stack)].given = NoSock]
    PROVE  ServiceStep
  <1>1. UNCHANGED Ran(stack)
    BY SameCalls
  <1>2. Range(event_maps') = Range(event_maps) \cup {s}
    BY DEF Bind, Range
  <1>3. Service!Register(s)
    BY <1>1, <1>2 DEF Service!Register, Range
  <1> QED
    BY <1>3 DEF ServiceStep, Service!Next

(* Two kinds of socket that have not been in the map. *)
LEMMA UnusedIsNew ==
    ASSUME SockInv, NEW s \in Sock \ used
    PROVE  s \notin Range(event_maps) \cup ended
  BY DEF SockInv, Shape, RegisteredLives, Range

LEMMA GivenIsNew ==
    ASSUME SockInv, stack # <<>>, Top.given # NoSock
    PROVE  /\ Top.given \in Sock \ (Range(event_maps) \cup ended)
           /\ fd_of[Top.given] \notin DOMAIN event_maps
  <1>1. Top \in Frame /\ Len(stack) \in 1 .. Len(stack)
    BY PopShape DEF SockInv, Shape
  <1>2. /\ Top.given \in Sock /\ Top.given \notin ended /\ fd_of[Top.given] \in Fd
        /\ \A f \in DOMAIN event_maps : event_maps[f] # Top.given
    BY <1>1 DEF SockInv, GivenWaits, Top, Frame
  <1>3. \A t \in Sock : fd_of[t] = fd_of[Top.given] => t = Top.given
    BY <1>2, NotOpenIsNoFd DEF SockInv, OneOwner
  <1> QED
    BY <1>2, <1>3 DEF SockInv, Shape, RegisteredIsOpen, Range

(* A registered socket ends, its end callback over the whole stack or in place
   of the frame of its own callback. *)
LEMMA EndsServes ==
    ASSUME SockInv, NEW f \in DOMAIN event_maps, NEW stk,
           \/ stk = stack
           \/ /\ stack # <<>> /\ stk = Pop /\ Top.kind # "end" /\ f = Top.fd
              /\ Top.sock \notin ended,
           Ends(f, stk)
    PROVE  ServiceStep
  <1> DEFINE s == event_maps[f]
  <1>1. f \in Fd /\ s \in Sock /\ s \in Range(event_maps) /\ stack \in Seq(Frame)
    BY DEF SockInv, Shape, Range
  <1>2. stk \in Seq(Frame)
    BY <1>1, BaseShape DEF Base
  <1>3. Ran(stack') = Append(Ran(stk), [kind |-> "end", sock |-> s])
    BY <1>1, <1>2, PushRuns DEF Ends, Where
  <1>4. Range(event_maps') = Range(event_maps) \ {s}
    BY DEF Ends, Without, Restrict, Range, SockInv, Shape, RegisteredIsOpen
  <1>5. ended' = ended \cup {s}
    BY DEF Ends
  <1>6. CASE stk = stack
    <2>1. Service!End(s)
      BY <1>1, <1>3, <1>4, <1>5, <1>6 DEF Service!End, Service!Ends, Service!Call, Ran, Range
    <2> QED
      BY <1>1, <2>1 DEF ServiceStep, Service!Next
  <1>7. CASE /\ stack # <<>> /\ stk = Pop /\ Top.kind # "end" /\ f = Top.fd
             /\ Top.sock \notin ended
    <2>1. /\ Len(Ran(stack)) = Len(stack) /\ Ran(stack) # <<>> /\ Ran(stack) \in Seq(Called)
          /\ \A i \in 1 .. Len(stack) : Ran(stack)[i] = [kind |-> stack[i].kind, sock |-> stack[i].sock]
      BY <1>1, <1>7, RanShape
    <2>2. /\ Len(stack) \in 1 .. Len(stack) /\ Len(Pop) = Len(stack) - 1 /\ Pop \in Seq(Frame)
          /\ \A i \in 1 .. Len(Pop) : Pop[i] = stack[i]
      BY <1>1, <1>7, PopShape
    <2>3. Service!Last(Ran(stack)) = [kind |-> Top.kind, sock |-> Top.sock]
      BY <2>1, <2>2 DEF Service!Last, Top
    <2>4. Ran(stk) = Service!Front(Ran(stack))
      <3>1. DOMAIN Pop = 1 .. Len(stack) - 1 /\ Len(stack) \in Nat
        BY <1>1, <2>2, RanShape
      <3>2. Ran(stk) = [i \in 1 .. Len(stack) - 1 |-> Ran(stack)[i]]
        BY <1>7, <2>1, <2>2, <3>1 DEF Ran
      <3>3. Service!Front(Ran(stack)) = [i \in 1 .. Len(stack) - 1 |-> Ran(stack)[i]]
        BY <2>1, <2>2, <3>1, SMT DEF Service!Front
      <3> QED
        BY <3>2, <3>3
    <2>5. s = Top.sock
      BY <1>7, <2>2 DEF SockInv, FramesKnown, Top
    <2>6. Service!Over(s)
      <3>1. /\ Service!Last(Ran(stack)).kind # "end"
            /\ s = Service!Last(Ran(stack)).sock
        BY <1>7, <2>3, <2>5
      <3>2. Ran(stack') = Append(Service!Front(Ran(stack)), Service!Call("end", s))
        BY <1>3, <2>4 DEF Service!Call
      <3>3. Service!Ends(s, Service!Front(Ran(stack)))
        BY <1>1, <1>4, <1>5, <3>2 DEF Service!Ends, Ran, Range
      <3> QED
        BY <2>1, <3>1, <3>3 DEF Service!Over
    <2> QED
      BY <1>1, <2>6 DEF ServiceStep, Service!Next
  <1> QED
    BY <1>6, <1>7

(* When the program returns OVER, the socket that ends is the callback's own. *)
LEMMA OverIsOwn ==
    ASSUME SockInv, OwnOver, ReturnsOver, Top.fd \in DOMAIN event_maps
    PROVE  Top.sock \notin ended
  <1>1. stack # <<>> /\ Top \in Frame
    BY PopShape DEF ReturnsOver, Returning, SockInv, Shape
  <1>2. Here \in Where
    BY <1>1 DEF Here, Top, Frame, Where
  <1> QED
    BY <1>2 DEF OwnOver, ReturnsOver, Permitted

LEMMA ServiceInitial == SocketsInit => Service!Init
  BY SMT DEF SocketsInit, Service!Init, Range, Ran
=============================================================================
