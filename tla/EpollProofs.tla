----------------------------- MODULE EpollProofs -----------------------------
(***************************************************************************)
(* What the epoll selector keeps, proved for every set of descriptors and  *)
(* sockets and for every program (Permits): the map, the interest list and *)
(* the events of a batch that is half dispatched all speak of the same     *)
(* sockets, whatever the callbacks register, unregister or close.  For     *)
(* programs that stay clear of modify_socket and of opening sockets in end *)
(* callbacks, also: flags, write buffer and interest list agree.           *)
(***************************************************************************)
EXTENDS EpollSelector, UnixSocketsProofs

Event == [fd : Fd, ready : SUBSET {"IN", "OUT"}, sock : Sock]

(* An event that is still to be dispatched is for a socket that is in the map
   under the event's descriptor, or that has ended since epoll_wait returned. *)
EventsKnown ==
    \A i \in 1 .. Len(batch) : batch[i].sock \notin ended =>
        batch[i].fd \in DOMAIN event_maps /\ event_maps[batch[i].fd] = batch[i].sock

EpollInv == SockInv /\ WatchedIsRegistered /\ batch \in Seq(Event) /\ EventsKnown

(* A step leaves the entries of the map alone, but those of sockets it ends. *)
EntriesStay ==
    /\ ended \subseteq ended'
    /\ \A f \in DOMAIN event_maps : event_maps[f] \notin ended' =>
           f \in DOMAIN event_maps' /\ event_maps'[f] = event_maps[f]

(* What every step does to the sockets and to the interest list. *)
StepKeeps == SockInv' /\ StepServes /\ EntriesStay /\ WatchedIsRegistered'

-----------------------------------------------------------------------------
(* The ways the interest list changes with the map. *)

LEMMA WatchLess ==
    ASSUME WatchedIsRegistered, NEW f, watch' = Without(watch, f),
           event_maps' = event_maps \/ event_maps' = Without(event_maps, f)
    PROVE  WatchedIsRegistered'
  BY DEF WatchedIsRegistered, Without, Restrict

LEMMA WatchMore ==
    ASSUME WatchedIsRegistered, NEW f, NEW s, NEW x, watch' = Bind(watch, f, x),
           event_maps' = Bind(event_maps, f, s)
    PROVE  WatchedIsRegistered'
  BY DEF WatchedIsRegistered, Bind

LEMMA ModregisterWatch ==
    ASSUME NEW f, NEW flags, modregister(f, flags)
    PROVE  DOMAIN watch' = DOMAIN watch
  BY DEF modregister, Bind

(* A step that touches neither the sockets nor the extent of the interest list. *)
LEMMA IdleStep ==
    ASSUME EpollInv, UNCHANGED <<fd_of, used, event_maps, stack, ended>>,
           DOMAIN watch' = DOMAIN watch
    PROVE  StepKeeps
  <1>1. SockInv'
    BY SocketsStay DEF EpollInv
  <1>2. ServiceStep
    BY NoCall DEF EpollInv
  <1> QED
    BY <1>1, <1>2 DEF StepKeeps, StepServes, EntriesStay, EpollInv, WatchedIsRegistered

(* unregister_socket, called by the dispatch loop or by the top callback, or on
   behalf of that one when it returns OVER. *)
LEMMA UnregisterStep ==
    ASSUME EpollInv, NEW f, NEW stk,
           stk = stack \/ (stk = Pop /\ f = Top.fd /\ ReturnsOver),
           unregister_socket(f, stk), UNCHANGED used
    PROVE  StepKeeps
  <1>0. ReturnsOver => stack # <<>> /\ Top.kind # "end"
    BY DEF ReturnsOver, Returning
  <1>1. CASE f \in DOMAIN event_maps
    <2>1. Ends(f, stk) /\ watch' = Without(watch, f)
      BY <1>1 DEF unregister_socket
    <2>2. SockInv'
      BY <1>0, <1>1, <2>1, EndsKeeps DEF EpollInv, Base
    <2>3. StepServes
      BY <1>0, <1>1, <2>1, OverIsOwn, EndsServes DEF StepServes, EpollInv
    <2>4. EntriesStay
      BY <2>1 DEF EntriesStay, Ends, Without, Restrict
    <2>5. WatchedIsRegistered'
      BY <2>1, WatchLess DEF EpollInv, Ends
    <2> QED
      BY <2>2, <2>3, <2>4, <2>5 DEF StepKeeps
  <1>2. CASE f \notin DOMAIN event_maps
    <2>1. /\ watch' = Without(watch, f) /\ stack' = stk
          /\ UNCHANGED <<fd_of, used, event_maps, ended>>
      BY <1>2 DEF unregister_socket
    <2>2. SockInv'
      BY <1>0, <2>1, SocketsStay, PopKeeps DEF EpollInv
    <2>3. ServiceStep
      BY <1>0, <2>1, NoCall, PopServes DEF EpollInv
    <2>4. WatchedIsRegistered'
      BY <2>1, WatchLess DEF EpollInv
    <2> QED
      BY <2>1, <2>2, <2>3, <2>4 DEF StepKeeps, StepServes, EntriesStay
  <1> QED
    BY <1>1, <1>2

-----------------------------------------------------------------------------
(* Every step, group by group, as Next has them. *)

LEMMA NowIsAnEvent ==
    ASSUME EpollInv, batch # <<>>
    PROVE  Now \in Event /\ Now = batch[1] /\ 1 \in 1 .. Len(batch)
  BY SMT DEF EpollInv, Now

LEMMA DispatchStep ==
    ASSUME EpollInv, Dispatch
    PROVE  StepKeeps
  <1>1. ASSUME NEW e \in {"IN", "OUT"}, skip_event(e)
        PROVE  StepKeeps
    BY <1>1, IdleStep DEF skip_event
  <1>2. ASSUME NEW s \in Sock, accept_ok(s)
        PROVE  StepKeeps
    <2>1. PICK f \in Fd : Opened(s, f)
      BY <1>2 DEF accept_ok
    <2>2. /\ Now.fd \in DOMAIN event_maps
          /\ stack = <<>> /\ Push(stack, "accept", event_maps[Now.fd], Now.fd, s)
          /\ UNCHANGED <<watch, event_maps, ended>>
      BY <1>2 DEF accept_ok, InMap, Turn, Dispatching, Owner
    <2>3. SockInv'
      BY <2>1, <2>2, AcceptKeeps DEF EpollInv
    <2>4. ServiceStep
      BY <2>2, PushServes DEF EpollInv
    <2> QED
      BY <2>2, <2>3, <2>4 DEF StepKeeps, StepServes, EntriesStay, EpollInv, WatchedIsRegistered
  <1>3. ASSUME accept_err \/ read_data
        PROVE  StepKeeps
    <2>1. PICK kind \in {"accept", "read"} :
              /\ Now.fd \in DOMAIN event_maps
              /\ stack = <<>> /\ Push(stack, kind, event_maps[Now.fd], Now.fd, NoSock)
              /\ UNCHANGED <<fd_of, used, watch, event_maps, ended>>
      BY <1>3 DEF accept_err, read_data, InMap, Turn, Dispatching, Owner
    <2>2. SockInv'
      BY <2>1, PushKeeps DEF EpollInv, Where
    <2>3. ServiceStep
      BY <2>1, PushServes DEF EpollInv
    <2> QED
      BY <2>1, <2>2, <2>3 DEF StepKeeps, StepServes, EntriesStay, EpollInv, WatchedIsRegistered
  <1>4. ASSUME read_end \/ write_fails
        PROVE  StepKeeps
    BY <1>4, UnregisterStep DEF read_end, write_fails
  <1>5. ASSUME write_all
        PROVE  StepKeeps
    BY <1>5, IdleStep, ModregisterWatch DEF write_all, disarm
  <1>6. ASSUME write_part
        PROVE  StepKeeps
    BY <1>6, IdleStep DEF write_part
  <1> QED
    BY <1>1, <1>2, <1>3, <1>4, <1>5, <1>6 DEF Dispatch

LEMMA ReturnStep ==
    ASSUME EpollInv, Return
    PROVE  StepKeeps
  <1>1. ASSUME drop_given
        PROVE  StepKeeps
    <2>1. SockInv'
      BY <1>1, GivenCloses DEF drop_given, DropGiven, EpollInv
    <2>2. ServiceStep
      BY <1>1, NoCall DEF drop_given, DropGiven, EpollInv
    <2> QED
      BY <1>1, <2>1, <2>2
      DEF drop_given, DropGiven, StepKeeps, StepServes, EntriesStay, EpollInv, WatchedIsRegistered
  <1>2. ASSUME callback_returns
        PROVE  StepKeeps
    <2>1. SockInv'
      BY <1>2, PopKeeps DEF callback_returns, Returning, EpollInv
    <2>2. ServiceStep
      BY <1>2, PopServes DEF callback_returns, Returning, EpollInv
    <2> QED
      BY <1>2, <2>1, <2>2 DEF callback_returns, StepKeeps, StepServes, EntriesStay, EpollInv, WatchedIsRegistered
  <1>3. ASSUME callback_over
        PROVE  StepKeeps
    BY <1>3, UnregisterStep DEF callback_over
  <1>4. ASSUME end_returns
        PROVE  StepKeeps
    <2>1. SockInv'
      BY <1>4, PopKeeps DEF end_returns, Returning, EpollInv
    <2>2. ServiceStep
      BY <1>4, PopServes DEF end_returns, Returning, EpollInv
    <2>3. WatchedIsRegistered'
      BY <1>4, WatchLess DEF end_returns, EpollInv
    <2> QED
      BY <1>4, <2>1, <2>2, <2>3 DEF end_returns, StepKeeps, StepServes, EntriesStay
  <1> QED
    BY <1>1, <1>2, <1>3, <1>4 DEF Return

LEMMA UserCallStep ==
    ASSUME EpollInv, UserCall
    PROVE  StepKeeps
  <1>1. ASSUME NEW s \in Sock, register(s)
        PROVE  StepKeeps
    <2>1. PICK f \in Fd, flags \in RegFlags : Opened(s, f) /\ watch_socket(s, f, flags)
      BY <1>1 DEF register
    <2>2. UNCHANGED <<stack, ended>>
      BY <1>1 DEF register
    <2>3. SockInv'
      BY <2>1, <2>2, RegisterKeeps DEF watch_socket, EpollInv
    <2>5. s \in Sock \ used /\ f \notin DOMAIN event_maps
      BY <2>1, OpenedFacts DEF EpollInv
    <2>4. ServiceStep
      BY <2>1, <2>2, <2>5, UnusedIsNew, RegisterServes DEF watch_socket, EpollInv
    <2>6. WatchedIsRegistered'
      BY <2>1, WatchMore DEF watch_socket, EpollInv
    <2> QED
      BY <2>1, <2>2, <2>3, <2>4, <2>5, <2>6 DEF watch_socket, Bind, StepKeeps, StepServes, EntriesStay
  <1>2. ASSUME NEW s \in Sock, register_refused(s)
        PROVE  StepKeeps
    <2>1. SockInv'
      BY <1>2, RefusalKeeps DEF register_refused, EpollInv
    <2>2. ServiceStep
      BY <1>2, NoCall DEF register_refused, EpollInv
    <2> QED
      BY <1>2, <2>1, <2>2 DEF register_refused, StepKeeps, StepServes, EntriesStay, EpollInv, WatchedIsRegistered
  <1>3. ASSUME register_given
        PROVE  StepKeeps
    <2>1. PICK flags \in RegFlags : watch_socket(Top.given, fd_of[Top.given], flags)
      BY <1>3 DEF register_given
    <2>2. SockInv' /\ fd_of[Top.given] \notin DOMAIN event_maps
      BY <1>3, <2>1, GivenRegisters DEF register_given, watch_socket, EpollInv
    <2>3. ServiceStep
      BY <1>3, <2>1, <2>2, GivenIsNew, RegisterServes DEF register_given, watch_socket, EpollInv
    <2>4. WatchedIsRegistered'
      BY <2>1, WatchMore DEF watch_socket, EpollInv
    <2> QED
      BY <1>3, <2>1, <2>2, <2>3, <2>4 DEF register_given, watch_socket, Bind, StepKeeps, StepServes, EntriesStay
  <1>4. ASSUME NEW f \in Fd, send_socket(f)
        PROVE  StepKeeps
    <2>1. DOMAIN watch' = DOMAIN watch
      BY <1>4, ModregisterWatch DEF send_socket
    <2> QED
      BY <1>4, <2>1, IdleStep DEF send_socket
  <1>5. ASSUME unregister_own
        PROVE  StepKeeps
    BY <1>5, UnregisterStep DEF unregister_own
  <1>6. ASSUME NEW f \in Fd, unregister_other(f)
        PROVE  StepKeeps
    BY <1>6, UnregisterStep DEF unregister_other
  <1>7. ASSUME NEW f \in Fd, modify_socket(f)
        PROVE  StepKeeps
    <2>1. CASE f \in DOMAIN watch
      <3>1. watch' = Without(watch, f) /\ UNCHANGED <<fd_of, used, event_maps, stack, ended>>
        BY <1>7, <2>1 DEF modify_socket
      <3>2. SockInv' /\ ServiceStep
        BY <3>1, SocketsStay, NoCall DEF EpollInv
      <3>3. WatchedIsRegistered'
        BY <3>1, WatchLess DEF EpollInv
      <3> QED
        BY <3>1, <3>2, <3>3 DEF StepKeeps, StepServes, EntriesStay
    <2>2. CASE f \notin DOMAIN watch
      BY <1>7, <2>2, UnregisterStep DEF modify_socket
    <2> QED
      BY <2>1, <2>2
  <1> QED
    BY <1>1, <1>2, <1>3, <1>4, <1>5, <1>6, <1>7 DEF UserCall

LEMMA SelectStep ==
    ASSUME EpollInv, select
    PROVE  StepKeeps
  BY IdleStep DEF select

-----------------------------------------------------------------------------
(* The events that are left: those epoll_wait reports, and what the dispatch
   loop leaves of them. *)

LEMMA SelectedAreKnown ==
    ASSUME EpollInv, select
    PROVE  batch' \in Seq(Event) /\ EventsKnown'
  <1>1. PICK n \in 0 .. MaxBatch : batch' \in [1 .. n -> Reported]
    BY DEF select
  <1>2. \A e \in Reported : e \in Event /\ e.fd \in DOMAIN event_maps /\ event_maps[e.fd] = e.sock
    <2> SUFFICES ASSUME NEW e \in Reported
                 PROVE  e \in Event /\ e.fd \in DOMAIN event_maps /\ event_maps[e.fd] = e.sock
      OBVIOUS
    <2>1. /\ e \in [fd : DOMAIN watch, ready : SUBSET {"IN", "OUT"}, sock : used]
          /\ e.sock = SocketAt(e.fd)
      BY DEF Reported
    <2>2. e.fd \in DOMAIN watch
      BY <2>1
    <2>3. e.fd \in DOMAIN event_maps /\ e.fd \in Fd
      BY <2>2 DEF EpollInv, WatchedIsRegistered, SockInv, Shape
    <2>4. event_maps[e.fd] \in used /\ fd_of[event_maps[e.fd]] = e.fd
      BY <2>3 DEF EpollInv, SockInv, RegisteredIsOpen, RegisteredLives
    <2>5. e.sock \in used /\ fd_of[e.sock] = e.fd
      BY <2>1, <2>4 DEF SocketAt
    <2>6. event_maps[e.fd] = e.sock
      BY <2>3, <2>4, <2>5, NotOpenIsNoFd DEF EpollInv, SockInv, Shape, OneOwner
    <2>7. e \in Event
      BY <2>1, <2>3, <2>5 DEF Event, EpollInv, SockInv, Shape
    <2> QED
      BY <2>3, <2>6, <2>7
  <1>3. n \in Nat
    BY SizeAssumption
  <1>4. batch' \in [1 .. n -> Event]
    BY <1>1, <1>2
  <1>5. batch' \in Seq(Event) /\ Len(batch') = n
    BY <1>3, <1>4, SMT
  <1>6. UNCHANGED <<event_maps, ended>>
    BY DEF select
  <1> QED
    BY <1>1, <1>2, <1>5, <1>6 DEF EventsKnown

LEMMA RestIsKnown ==
    ASSUME EpollInv, EntriesStay, NEW e, batch # <<>>, Done(e)
    PROVE  batch' \in Seq(Event) /\ EventsKnown'
  <1> DEFINE rest == [Now EXCEPT !.ready = @ \ {e}]
  <1>1. Now \in Event /\ Now = batch[1] /\ 1 \in 1 .. Len(batch) /\ batch \in Seq(Event)
    BY NowIsAnEvent DEF EpollInv
  <1>2. rest \in Event /\ rest.fd = Now.fd /\ rest.sock = Now.sock
    BY <1>1 DEF Event
  <1>3. /\ Tail(batch) \in Seq(Event) /\ Len(Tail(batch)) = Len(batch) - 1
        /\ \A i \in 1 .. Len(Tail(batch)) : Tail(batch)[i] = batch[i + 1]
    BY <1>1, SMT
  <1>4. batch' = Tail(batch) \/ batch' = <<rest>> \o Tail(batch)
    BY DEF Done
  <1> HIDE DEF rest
  <1>5. /\ batch' \in Seq(Event)
        /\ \A i \in 1 .. Len(batch') : \E j \in 1 .. Len(batch) :
               batch'[i].fd = batch[j].fd /\ batch'[i].sock = batch[j].sock
    <2>1. CASE batch' = Tail(batch)
      <3>1. \A i \in 1 .. Len(batch') : i + 1 \in 1 .. Len(batch) /\ batch'[i] = batch[i + 1]
        BY <1>1, <1>3, <2>1
      <3> QED
        BY <1>3, <2>1, <3>1
    <2>2. CASE batch' = <<rest>> \o Tail(batch)
      <3>1. batch' \in Seq(Event) /\ Len(batch') = Len(batch)
        BY <1>1, <1>2, <1>3, <2>2, SMT
      <3>2. batch'[1] = rest
        BY <1>1, <1>2, <1>3, <2>2, SMT
      <3>3. \A i \in 1 .. Len(batch') : i # 1 => batch'[i] = batch[i]
        BY <1>1, <1>2, <1>3, <2>2, SMT
      <3> QED
        BY <1>1, <1>2, <3>1, <3>2, <3>3
    <2> QED
      BY <1>4, <2>1, <2>2
  <1>6. \A j \in 1 .. Len(batch) : batch[j].sock \notin ended' =>
            batch[j].fd \in DOMAIN event_maps' /\ event_maps'[batch[j].fd] = batch[j].sock
    BY DEF EpollInv, EventsKnown, EntriesStay
  <1> QED
    BY <1>5, <1>6 DEF EventsKnown

LEMMA BatchStaysKnown ==
    ASSUME EpollInv, EntriesStay, UNCHANGED batch
    PROVE  batch' \in Seq(Event) /\ EventsKnown'
  BY DEF EpollInv, EventsKnown, EntriesStay

-----------------------------------------------------------------------------
LEMMA EpollInitial == Init => EpollInv
  <1> SUFFICES ASSUME Init PROVE EpollInv
    OBVIOUS
  <1>1. SockInv
    BY SocketsInitial DEF Init
  <1>2. WatchedIsRegistered
    BY DEF Init, WatchedIsRegistered
  <1>3. batch \in Seq(Event) /\ EventsKnown
    BY DEF Init, EventsKnown
  <1> QED
    BY <1>1, <1>2, <1>3 DEF EpollInv

LEMMA EpollStep == EpollInv /\ [Next]_vars => EpollInv' /\ StepServes
  <1> SUFFICES ASSUME EpollInv, [Next]_vars PROVE EpollInv' /\ StepServes
    OBVIOUS
  <1>1. CASE select
    BY <1>1, SelectStep, SelectedAreKnown DEF StepKeeps, EpollInv
  <1>2. CASE Dispatch
    <2>1. batch # <<>> /\ \E e \in {"IN", "OUT"} : Done(e)
      BY <1>2 DEF Dispatch, skip_event, accept_ok, accept_err, read_data, read_end, write_all,
         write_part, write_fails, InMap, Turn, Dispatching
    <2>2. StepKeeps
      BY <1>2, DispatchStep
    <2> QED
      BY <2>1, <2>2, RestIsKnown DEF StepKeeps, EpollInv
  <1>3. CASE Return
    <2>1. UNCHANGED batch
      BY <1>3 DEF Return, drop_given, callback_returns, callback_over, end_returns
    <2>2. StepKeeps
      BY <1>3, ReturnStep
    <2> QED
      BY <2>1, <2>2, BatchStaysKnown DEF StepKeeps, EpollInv
  <1>4. CASE UserCall
    <2>1. UNCHANGED batch
      BY <1>4 DEF UserCall, register, register_refused, register_given, send_socket,
         unregister_own, unregister_other, modify_socket
    <2>2. StepKeeps
      BY <1>4, UserCallStep
    <2> QED
      BY <2>1, <2>2, BatchStaysKnown DEF StepKeeps, EpollInv
  <1>5. CASE UNCHANGED vars
    <2>1. StepKeeps
      BY <1>5, IdleStep DEF vars, sockVars
    <2> QED
      BY <1>5, <2>1, BatchStaysKnown DEF StepKeeps, EpollInv, vars
  <1> QED
    BY <1>1, <1>2, <1>3, <1>4, <1>5 DEF Next

(* The inductive invariant holds of every state of the selector. *)
THEOREM EpollInvariant == Spec => []EpollInv
  <1>1. Init => EpollInv
    BY EpollInitial
  <1>2. EpollInv /\ [Next]_vars => EpollInv'
    BY EpollStep
  <1> QED
    BY <1>1, <1>2, PTL DEF Spec

(* RegisteredIsOpen holds for every program: no call, made from any callback at
   any depth, leaves the entry of a closed socket in event_maps. *)
THEOREM EpollRegisteredIsOpen == Spec => []RegisteredIsOpen
  <1>1. EpollInv => RegisteredIsOpen
    BY DEF EpollInv, SockInv
  <1> QED
    BY <1>1, EpollInvariant, PTL

(* WatchedIsRegistered holds for every program: nothing stays on the kernel's
   interest list that event_maps does not know. *)
THEOREM EpollWatchedIsRegistered == Spec => []WatchedIsRegistered
  <1>1. EpollInv => WatchedIsRegistered
    BY DEF EpollInv
  <1> QED
    BY <1>1, EpollInvariant, PTL

(* LiveGetsItsEvent holds for every program: an event reported for a socket that
   is still alive is dispatched to it, whatever the callbacks of the events
   before it registered, closed or reopened. *)
THEOREM EpollLiveGetsItsEvent == Spec => []LiveGetsItsEvent
  <1>1. EpollInv => LiveGetsItsEvent
    BY NowIsAnEvent DEF EpollInv, EventsKnown, LiveGetsItsEvent, Dispatching, Owner
  <1> QED
    BY <1>1, EpollInvariant, PTL

(* The selector implements SocketService, for every program none of whose callbacks
   returns OVER after its socket has ended while another has the number: a socket's
   callbacks begin between its registration and its one end callback, and OVER ends
   the socket of the callback that returned it, or none.  With such an OVER
   read_done ends the other socket (epoll.rs:76 and 101). *)
THEOREM EpollImplementsSocketService ==
    ASSUME OwnOver
    PROVE  Spec => ImplementsSocketService
  <1>1. Init => Service!Init
    BY ServiceInitial DEF Init
  <1>2. EpollInv /\ [Next]_vars => ServiceStep
    BY EpollStep DEF StepServes
  <1> QED
    BY <1>1, <1>2, EpollInvariant, PTL
    DEF Spec, ImplementsSocketService, Service!Spec, Service!serviceVars, ServiceStep
-----------------------------------------------------------------------------
(* Flags, write buffer and interest list. *)
Typed ==
    /\ ev \in [Sock -> Events]
    /\ \A s \in Sock : ev[s].sent <= ev[s].submitted
    /\ watch \in [DOMAIN watch -> SUBSET {"IN", "OUT"}]

(* An Event with data in its buffer is marked, and a marked one asks for
   EPOLLOUT. *)
Armed(e) ==
    /\ e.sent # e.submitted => e.is_in_write
    /\ e.is_in_write => "WRITE" \in e.flags

Agrees(f) ==
    /\ f \in DOMAIN watch
    /\ watch[f] = ioevent_to_epoll(ev[event_maps[f]].flags)
    /\ Armed(ev[event_maps[f]])

AllAgree == \A f \in DOMAIN event_maps : Agrees(f)

(* A program that does not call modify_socket, and opens no socket in an end
   callback. *)
SteadyProgram ==
    /\ \A w \in Where : <<w, "modify">> \notin Permits
    /\ <<"end", "register">> \notin Permits

(* What a step does to them: it keeps the types in every program, and the rest in
   a SteadyProgram. *)
FlagsKeep == Typed' /\ (SteadyProgram /\ AllAgree /\ Apart => AllAgree' /\ Apart')

LEMMA WatchTyped ==
    ASSUME Typed, NEW f,
           \/ watch' = watch
           \/ watch' = Without(watch, f)
           \/ \E flags : watch' = Bind(watch, f, ioevent_to_epoll(flags))
    PROVE  watch' \in [DOMAIN watch' -> SUBSET {"IN", "OUT"}]
  <1>1. CASE watch' = watch
    BY <1>1 DEF Typed
  <1>2. CASE watch' = Without(watch, f)
    BY <1>2 DEF Typed, Without, Restrict
  <1>3. ASSUME NEW flags, watch' = Bind(watch, f, ioevent_to_epoll(flags))
        PROVE  watch' \in [DOMAIN watch' -> SUBSET {"IN", "OUT"}]
    <2>1. ioevent_to_epoll(flags) \in SUBSET {"IN", "OUT"}
      BY DEF ioevent_to_epoll
    <2> QED
      BY <1>3, <2>1 DEF Typed, Bind
  <1> QED
    BY <1>1, <1>2, <1>3

LEMMA EventTyped ==
    ASSUME Typed, NEW s \in Sock, NEW e \in Events, e.sent <= e.submitted,
           ev' = [ev EXCEPT ![s] = e], NEW f,
           \/ watch' = watch
           \/ watch' = Without(watch, f)
           \/ \E flags : watch' = Bind(watch, f, ioevent_to_epoll(flags))
    PROVE  Typed' /\ ev'[s] = e /\ \A t \in Sock \ {s} : ev'[t] = ev[t]
  <1>1. watch' \in [DOMAIN watch' -> SUBSET {"IN", "OUT"}]
    BY WatchTyped
  <1>2. /\ ev' \in [Sock -> Events] /\ ev'[s] = e
        /\ \A t \in Sock \ {s} : ev'[t] = ev[t]
    BY DEF Typed
  <1>3. \A t \in Sock : ev'[t].sent <= ev'[t].submitted
    BY <1>2 DEF Typed
  <1> QED
    BY <1>1, <1>2, <1>3 DEF Typed

(* What changes neither the Events nor the interest list of an entry. *)
LEMMA NothingFlagged ==
    ASSUME Typed, UNCHANGED <<ev, watch, event_maps>>, Apart => Apart'
    PROVE  FlagsKeep
  BY DEF Typed, FlagsKeep, AllAgree, Agrees

(* The interest list loses a descriptor without an entry. *)
LEMMA UnwatchedKeeps ==
    ASSUME Typed, NEW f, watch' = Without(watch, f), UNCHANGED <<ev, event_maps>>,
           Apart => Apart' /\ f \notin DOMAIN event_maps
    PROVE  FlagsKeep
  <1>1. Typed'
    BY WatchTyped DEF Typed
  <1>2. ASSUME AllAgree, f \notin DOMAIN event_maps
        PROVE  AllAgree'
    <2>1. \A g \in DOMAIN watch \ {f} : g \in DOMAIN watch' /\ watch'[g] = watch[g]
      BY DEF Without, Restrict
    <2> QED
      BY <1>2, <2>1 DEF AllAgree, Agrees
  <1> QED
    BY <1>1, <1>2 DEF FlagsKeep

(* The Event of one entry changes, and the interest list with it. *)
LEMMA EntryKeeps ==
    ASSUME SockInv, Typed, NEW f \in DOMAIN event_maps, NEW e \in Events,
           e.sent <= e.submitted, ev' = [ev EXCEPT ![event_maps[f]] = e],
           UNCHANGED <<event_maps, stack>>,
           \/ UNCHANGED watch /\ e.flags = ev[event_maps[f]].flags
           \/ modregister(f, e.flags),
           Agrees(f) => Armed(e)
    PROVE  FlagsKeep
  <1>1. event_maps[f] \in Sock
    BY DEF SockInv, Shape
  <1>2. \/ watch' = watch
        \/ watch' = Without(watch, f)
        \/ \E flags : watch' = Bind(watch, f, ioevent_to_epoll(flags))
    BY DEF modregister
  <1>3. PICK s \in Sock : s = event_maps[f]
    BY <1>1
  <1>4. ev' = [ev EXCEPT ![s] = e]
    BY <1>3
  <1>5. Typed' /\ ev'[s] = e /\ \A t \in Sock \ {s} : ev'[t] = ev[t]
    BY <1>2, <1>4, EventTyped
  <1>6. Apart => Apart'
    BY ApartStays
  <1>7. ASSUME AllAgree
        PROVE  AllAgree'
    <2>1. /\ DOMAIN watch' = DOMAIN watch /\ watch'[f] = ioevent_to_epoll(e.flags)
          /\ \A g \in DOMAIN watch \ {f} : watch'[g] = watch[g]
      BY <1>7 DEF AllAgree, Agrees, modregister, Bind
    <2>2. Armed(e)
      BY <1>7 DEF AllAgree
    <2>3. \A g \in DOMAIN event_maps \ {f} : ev'[event_maps[g]] = ev[event_maps[g]]
      BY <1>3, <1>5, OneEntry
    <2> QED
      BY <1>3, <1>5, <1>7, <2>1, <2>2, <2>3 DEF AllAgree, Agrees
  <1> QED
    BY <1>5, <1>6, <1>7 DEF FlagsKeep

(* An entry goes, with its Event. *)
LEMMA EndKeeps ==
    ASSUME SockInv, Typed, NEW f \in DOMAIN event_maps, NEW stk, Base(stk), Ends(f, stk),
           watch' = Without(watch, f)
    PROVE  FlagsKeep
  <1>1. PICK s \in Sock : s = event_maps[f]
    BY DEF SockInv, Shape
  <1>2. ev' = [ev EXCEPT ![s] = NoEvent]
    BY <1>1 DEF Ends
  <1>3. NoEvent \in Events /\ NoEvent.sent <= NoEvent.submitted
    BY NoEventYet, SizeAssumption DEF Events
  <1>4. Typed' /\ \A t \in Sock \ {s} : ev'[t] = ev[t]
    BY <1>2, <1>3, EventTyped
  <1>5. Apart => Apart'
    BY ApartEnds
  <1>6. ASSUME AllAgree
        PROVE  AllAgree'
    <2>1. /\ DOMAIN event_maps' = DOMAIN event_maps \ {f}
          /\ \A g \in DOMAIN event_maps' : event_maps'[g] = event_maps[g]
      BY DEF Ends, Without, Restrict
    <2>2. \A g \in DOMAIN watch \ {f} : g \in DOMAIN watch' /\ watch'[g] = watch[g]
      BY DEF Without, Restrict
    <2>3. \A g \in DOMAIN event_maps \ {f} : ev'[event_maps[g]] = ev[event_maps[g]]
      BY <1>1, <1>4, OneEntry
    <2> QED
      BY <1>6, <2>1, <2>2, <2>3 DEF AllAgree, Agrees
  <1> QED
    BY <1>4, <1>5, <1>6 DEF FlagsKeep

LEMMA UnregisterFlags ==
    ASSUME EpollInv, Typed, NEW f, NEW stk,
           stk = stack \/ (stack # <<>> /\ stk = Pop),
           unregister_socket(f, stk)
    PROVE  FlagsKeep
  <1>1. CASE f \in DOMAIN event_maps
    BY <1>1, EndKeeps DEF unregister_socket, Base, EpollInv
  <1>2. CASE f \notin DOMAIN event_maps
    <2>1. watch' = Without(watch, f) /\ stack' = stk /\ UNCHANGED <<ev, event_maps>>
      BY <1>2 DEF unregister_socket
    <2>2. Apart => Apart'
      BY <2>1, ApartStays DEF EpollInv
    <2> QED
      BY <1>2, <2>1, <2>2, UnwatchedKeeps
  <1> QED
    BY <1>1, <1>2

(* A new entry. *)
LEMMA WatchedKeeps ==
    ASSUME SockInv, Typed, NEW s \in Sock, NEW f, f \notin DOMAIN event_maps,
           \A g \in DOMAIN event_maps : event_maps[g] # s,
           NEW flags \in RegFlags, watch_socket(s, f, flags),
           SteadyProgram /\ Apart => Apart'
    PROVE  FlagsKeep
  <1>1. PICK e : e = [NoEvent EXCEPT !.flags = flags]
    OBVIOUS
  <1>2. /\ e \in Events /\ e.flags = flags /\ e.sent = e.submitted /\ e.sent <= e.submitted
        /\ e.is_in_write = FALSE
    <2>1. flags \in SUBSET Flag
      BY FlagAssumption
    <2> QED
      BY <1>1, <2>1, NoEventYet, SizeAssumption DEF Events
  <1>3. /\ ev' = [ev EXCEPT ![s] = e]
        /\ watch' = Bind(watch, f, ioevent_to_epoll(e.flags))
        /\ event_maps' = Bind(event_maps, f, s)
    BY <1>1, <1>2 DEF watch_socket
  <1>4. Typed' /\ ev'[s] = e /\ \A t \in Sock \ {s} : ev'[t] = ev[t]
    BY <1>2, <1>3, EventTyped
  <1>5. ASSUME AllAgree
        PROVE  AllAgree'
    <2>1. /\ DOMAIN event_maps' = DOMAIN event_maps \cup {f} /\ event_maps'[f] = s
          /\ \A g \in DOMAIN event_maps : event_maps'[g] = event_maps[g] /\ event_maps[g] \in Sock \ {s}
      BY <1>3 DEF Bind, SockInv, Shape
    <2>2. /\ f \in DOMAIN watch' /\ watch'[f] = ioevent_to_epoll(e.flags)
          /\ \A g \in DOMAIN watch \ {f} : g \in DOMAIN watch' /\ watch'[g] = watch[g]
      BY <1>3 DEF Bind
    <2>3. Armed(e)
      BY <1>2 DEF Armed
    <2> QED
      BY <1>4, <1>5, <2>1, <2>2, <2>3 DEF AllAgree, Agrees
  <1> QED
    BY <1>4, <1>5 DEF FlagsKeep

LEMMA DisarmFlags ==
    ASSUME SockInv, Typed, NEW f \in DOMAIN event_maps, disarm(event_maps[f], f, Pending(event_maps[f])),
           UNCHANGED <<event_maps, stack>>
    PROVE  FlagsKeep
  <1>1. PICK s \in Sock : s = event_maps[f]
    BY DEF SockInv, Shape
  <1>2. PICK m \in 0 .. MaxSend : ev[s].submitted = m
    BY DEF Typed, Events
  <1>3. PICK flags \in SUBSET Flag : flags = ev[s].flags \ {"WRITE"}
    BY DEF Typed, Events
  <1>4. ev[s].sent + Pending(s) = m
    BY <1>2, SizeAssumption DEF Typed, Events, Pending
  <1>5. PICK no \in BOOLEAN : no = FALSE
    OBVIOUS
  <1>6. ev' = [ev EXCEPT ![s].sent = m, ![s].is_in_write = no, ![s].flags = flags]
    BY <1>1, <1>3, <1>4, <1>5 DEF disarm
  <1>7. PICK old \in Events : old = ev[s]
    BY DEF Typed
  <1>8. PICK e : e = [old EXCEPT !.sent = m, !.is_in_write = no, !.flags = flags]
    OBVIOUS
  <1>9. ev' = [ev EXCEPT ![s] = e]
    BY <1>6, <1>7, <1>8 DEF Typed
  <1>10. m = old.submitted
    BY <1>2, <1>7
  <1>11. e \in Events /\ e.flags = flags /\ e.is_in_write = no /\ e.submitted = m /\ e.sent = m
    BY <1>8, <1>10 DEF Events
  <1>12. Armed(e) /\ e.sent <= e.submitted
    BY <1>5, <1>11, SizeAssumption DEF Armed
  <1>13. modregister(f, e.flags)
    BY <1>1, <1>3, <1>11 DEF disarm
  <1> QED
    BY <1>1, <1>9, <1>11, <1>12, <1>13, EntryKeeps

LEMMA PartFlags ==
    ASSUME SockInv, Typed, NEW f \in DOMAIN event_maps, UNCHANGED <<watch, event_maps, stack>>,
           NEW n \in 1 .. Pending(event_maps[f]) - 1,
           ev' = [ev EXCEPT ![event_maps[f]].sent = ev[event_maps[f]].sent + n]
    PROVE  FlagsKeep
  <1>1. PICK s \in Sock : s = event_maps[f]
    BY DEF SockInv, Shape
  <1>2. PICK old \in Events : old = ev[s]
    BY DEF Typed
  <1>3. PICK k \in 0 .. MaxSend : k = old.sent + n /\ k < old.submitted /\ old.sent # old.submitted
    <2>1. old.sent \in 0 .. MaxSend /\ old.submitted \in 0 .. MaxSend
      BY DEF Events
    <2>2. n \in 1 .. (old.submitted - old.sent) - 1
      BY <1>1, <1>2 DEF Pending
    <2> QED
      BY <2>1, <2>2, SizeAssumption
  <1>4. PICK e : e = [old EXCEPT !.sent = k]
    OBVIOUS
  <1>5. ev' = [ev EXCEPT ![s] = e]
    BY <1>1, <1>2, <1>3, <1>4 DEF Typed
  <1>6. /\ e \in Events /\ e.sent = k /\ e.submitted = old.submitted
        /\ e.flags = old.flags /\ e.is_in_write = old.is_in_write
    BY <1>4 DEF Events
  <1>7. e.sent <= e.submitted
    BY <1>3, <1>6, SizeAssumption DEF Events
  <1>8. Agrees(f) => Armed(e)
    BY <1>1, <1>2, <1>3, <1>6 DEF Agrees, Armed
  <1> QED
    BY <1>1, <1>2, <1>5, <1>6, <1>7, <1>8, EntryKeeps

LEMMA SendFlags ==
    ASSUME EpollInv, Typed, NEW f \in Fd, send_socket(f)
    PROVE  FlagsKeep
  <1>1. f \in DOMAIN event_maps /\ UNCHANGED <<event_maps, stack>>
    BY DEF send_socket
  <1>2. PICK s \in Sock : s = event_maps[f]
    BY <1>1 DEF EpollInv, SockInv, Shape
  <1>3. PICK old \in Events : old = ev[s] /\ old.sent <= old.submitted
    BY DEF Typed
  <1>4. PICK m \in 0 .. MaxSend : m = old.submitted + 1 /\ old.sent <= m
    BY <1>2, <1>3, SizeAssumption DEF Events, send_socket
  <1>5. PICK yes \in BOOLEAN : yes = TRUE
    OBVIOUS
  <1>6. CASE ev[s].is_in_write
    <2>1. UNCHANGED watch /\ ev' = [ev EXCEPT ![s].submitted = m]
      BY <1>2, <1>3, <1>4, <1>6 DEF send_socket
    <2>2. PICK e : e = [old EXCEPT !.submitted = m]
      OBVIOUS
    <2>3. ev' = [ev EXCEPT ![s] = e]
      BY <1>3, <2>1, <2>2 DEF Typed
    <2>4. /\ e \in Events /\ e.submitted = m /\ e.sent = old.sent
          /\ e.flags = old.flags /\ e.is_in_write = old.is_in_write
      BY <2>2 DEF Events
    <2>5. Agrees(f) => Armed(e)
      BY <1>2, <1>3, <1>6, <2>4 DEF Agrees, Armed
    <2>6. e.sent <= e.submitted
      BY <1>4, <2>4
    <2> QED
      BY <1>1, <1>2, <1>3, <2>1, <2>3, <2>4, <2>5, <2>6, EntryKeeps DEF EpollInv
  <1>7. CASE ~ev[s].is_in_write
    <2>1. PICK flags \in SUBSET Flag : flags = old.flags \cup {"WRITE"}
      BY DEF Events, Flag
    <2>2. /\ ev' = [ev EXCEPT ![s].submitted = m, ![s].is_in_write = yes, ![s].flags = flags]
          /\ modregister(f, flags)
      BY <1>2, <1>3, <1>4, <1>5, <1>7, <2>1 DEF send_socket
    <2>3. PICK e : e = [old EXCEPT !.submitted = m, !.is_in_write = yes, !.flags = flags]
      OBVIOUS
    <2>4. ev' = [ev EXCEPT ![s] = e]
      BY <1>3, <2>2, <2>3 DEF Typed
    <2>5. /\ e \in Events /\ e.submitted = m /\ e.sent = old.sent
          /\ e.flags = flags /\ e.is_in_write = yes
      BY <2>3 DEF Events
    <2>6. Armed(e)
      BY <1>5, <2>1, <2>5 DEF Armed
    <2>7. e.sent <= e.submitted
      BY <1>4, <2>5
    <2> QED
      BY <1>1, <1>2, <2>2, <2>4, <2>5, <2>6, <2>7, EntryKeeps DEF EpollInv
  <1> QED
    BY <1>6, <1>7

LEMMA DispatchFlags ==
    ASSUME EpollInv, Typed, Dispatch
    PROVE  FlagsKeep
  <1>1. ASSUME NEW e \in {"IN", "OUT"}, skip_event(e)
        PROVE  FlagsKeep
    BY <1>1, ApartStays, NothingFlagged DEF skip_event, EpollInv
  <1>2. ASSUME NEW s \in Sock, accept_ok(s)
        PROVE  FlagsKeep
    <2>1. Apart'
      BY <1>2, ApartPush DEF accept_ok, InMap, Turn, Dispatching
    <2> QED
      BY <1>2, <2>1, NothingFlagged DEF accept_ok
  <1>3. ASSUME accept_err \/ read_data
        PROVE  FlagsKeep
    <2>1. PICK kind \in {"accept", "read"} : stack = <<>> /\ Push(stack, kind, Owner, Now.fd, NoSock)
      BY <1>3 DEF accept_err, read_data, InMap, Turn, Dispatching
    <2>2. Apart'
      BY <2>1, ApartPush
    <2> QED
      BY <1>3, <2>2, NothingFlagged DEF accept_err, read_data
  <1>4. ASSUME read_end \/ write_fails
        PROVE  FlagsKeep
    BY <1>4, UnregisterFlags DEF read_end, write_fails
  <1>5. ASSUME write_all
        PROVE  FlagsKeep
    BY <1>5, DisarmFlags DEF write_all, InMap, Owner, EpollInv
  <1>6. ASSUME write_part
        PROVE  FlagsKeep
    <2>1. PICK n \in 1 .. Pending(Owner) - 1 : ev' = [ev EXCEPT ![Owner].sent = ev[Owner].sent + n]
      BY <1>6 DEF write_part
    <2>2. Now.fd \in DOMAIN event_maps /\ UNCHANGED <<watch, event_maps, stack>>
      BY <1>6 DEF write_part, InMap
    <2> QED
      BY <2>1, <2>2, PartFlags DEF Owner, EpollInv
  <1> QED
    BY <1>1, <1>2, <1>3, <1>4, <1>5, <1>6 DEF Dispatch

LEMMA ReturnFlags ==
    ASSUME EpollInv, Typed, Return
    PROVE  FlagsKeep
  <1>1. ASSUME drop_given
        PROVE  FlagsKeep
    BY <1>1, ApartStays, NothingFlagged DEF drop_given, DropGiven, EpollInv
  <1>2. ASSUME callback_returns
        PROVE  FlagsKeep
    BY <1>2, ApartStays, NothingFlagged DEF callback_returns, Returning, EpollInv
  <1>3. ASSUME callback_over
        PROVE  FlagsKeep
    BY <1>3, UnregisterFlags DEF callback_over, ReturnsOver, Returning
  <1>4. ASSUME end_returns
        PROVE  FlagsKeep
    <2>1. /\ stack # <<>> /\ Top.kind = "end" /\ stack' = Pop
          /\ watch' = Without(watch, Top.fd) /\ UNCHANGED <<ev, event_maps>>
      BY <1>4 DEF end_returns, Returning
    <2>2. ASSUME Apart
          PROVE  Apart' /\ Top.fd \notin DOMAIN event_maps
      <3>1. Len(stack) \in 1 .. Len(stack)
        BY <2>1, PopShape DEF EpollInv, SockInv, Shape
      <3> QED
        BY <2>1, <2>2, <3>1, ApartStays DEF Apart, Top, EpollInv
    <2> QED
      BY <2>1, <2>2, UnwatchedKeeps
  <1> QED
    BY <1>1, <1>2, <1>3, <1>4 DEF Return

LEMMA ModifyFlags ==
    ASSUME EpollInv, Typed, NEW f \in Fd, modify_socket(f)
    PROVE  FlagsKeep
  <1>1. CASE f \in DOMAIN watch
    <2>1. ~SteadyProgram
      BY HereIsKnown DEF modify_socket, May, Permitted, SteadyProgram, EpollInv
    <2>2. PICK is_del \in BOOLEAN, arg \in SUBSET Flag :
              ev' = [ev EXCEPT ![event_maps[f]].flags = merge(ev[event_maps[f]].flags, is_del, arg)]
      BY <1>1 DEF modify_socket
    <2>3. PICK s \in Sock : s = event_maps[f]
      BY DEF EpollInv, SockInv, Shape, modify_socket
    <2>4. PICK old \in Events : old = ev[s] /\ old.sent <= old.submitted
      BY DEF Typed
    <2>5. PICK flags \in SUBSET Flag : flags = merge(old.flags, is_del, arg)
      BY DEF merge, Events
    <2>6. PICK e : e = [old EXCEPT !.flags = flags]
      OBVIOUS
    <2>7. ev' = [ev EXCEPT ![s] = e]
      BY <2>2, <2>3, <2>4, <2>5, <2>6 DEF Typed
    <2>8. e \in Events /\ e.sent <= e.submitted
      BY <2>4, <2>6 DEF Events
    <2>9. watch' = Without(watch, f)
      BY <1>1 DEF modify_socket
    <2>10. Typed'
      BY <2>7, <2>8, <2>9, EventTyped
    <2> QED
      BY <2>1, <2>10 DEF FlagsKeep
  <1>2. CASE f \notin DOMAIN watch
    BY <1>2, UnregisterFlags DEF modify_socket
  <1> QED
    BY <1>1, <1>2

LEMMA UserCallFlags ==
    ASSUME EpollInv, Typed, UserCall
    PROVE  FlagsKeep
  <1>1. ASSUME NEW s \in Sock, register(s)
        PROVE  FlagsKeep
    <2>1. PICK f \in Fd, flags \in RegFlags : Opened(s, f) /\ watch_socket(s, f, flags)
      BY <1>1 DEF register
    <2>2. s \in Sock \ used /\ f \notin DOMAIN event_maps
      BY <2>1, OpenedFacts DEF EpollInv
    <2>3. \A g \in DOMAIN event_maps : event_maps[g] # s
      BY <2>2 DEF EpollInv, SockInv, RegisteredLives
    <2>4. SteadyProgram => Here # "end"
      BY <1>1 DEF register, May, Permitted, SteadyProgram
    <2>5. SteadyProgram /\ Apart => Apart'
      BY <1>1, <2>4, ApartOpens DEF register, EpollInv
    <2> QED
      BY <2>1, <2>2, <2>3, <2>5, WatchedKeeps DEF EpollInv
  <1>2. ASSUME NEW s \in Sock, register_refused(s)
        PROVE  FlagsKeep
    BY <1>2, ApartStays, NothingFlagged DEF register_refused, EpollInv
  <1>3. ASSUME register_given
        PROVE  FlagsKeep
    <2>1. PICK flags \in RegFlags : watch_socket(Top.given, fd_of[Top.given], flags)
      BY <1>3 DEF register_given
    <2>2. /\ stack # <<>> /\ Top.given # NoSock
          /\ stack' = [stack EXCEPT ![Len(stack)].given = NoSock]
      BY <1>3 DEF register_given
    <2>3. fd_of[Top.given] \notin DOMAIN event_maps
      BY <1>3, <2>1, GivenRegisters DEF register_given, watch_socket, EpollInv
    <2>4. Top.given \in Sock /\ \A g \in DOMAIN event_maps : event_maps[g] # Top.given
      BY <2>2, GivenIsNew DEF EpollInv, Range
    <2>5. Apart => Here # "end"
      <3>1. Len(stack) \in 1 .. Len(stack)
        BY <2>2, PopShape DEF EpollInv, SockInv, Shape
      <3> QED
        BY <2>2, <3>1 DEF Apart, Here, Top
    <2>6. Apart => Apart'
      BY <2>2, <2>5, ApartOpens DEF EpollInv
    <2> QED
      BY <2>1, <2>3, <2>4, <2>6, WatchedKeeps DEF EpollInv
  <1>4. ASSUME NEW f \in Fd, send_socket(f)
        PROVE  FlagsKeep
    BY <1>4, SendFlags
  <1>5. ASSUME unregister_own
        PROVE  FlagsKeep
    BY <1>5, UnregisterFlags DEF unregister_own
  <1>6. ASSUME NEW f \in Fd, unregister_other(f)
        PROVE  FlagsKeep
    BY <1>6, UnregisterFlags DEF unregister_other
  <1>7. ASSUME NEW f \in Fd, modify_socket(f)
        PROVE  FlagsKeep
    BY <1>7, ModifyFlags
  <1> QED
    BY <1>1, <1>2, <1>3, <1>4, <1>5, <1>6, <1>7 DEF UserCall

LEMMA FlagsStep ==
    ASSUME EpollInv, Typed, [Next]_vars
    PROVE  FlagsKeep
  <1>1. CASE select \/ UNCHANGED vars
    BY <1>1, ApartStays, NothingFlagged DEF select, vars, sockVars, EpollInv
  <1> QED
    BY <1>1, DispatchFlags, ReturnFlags, UserCallFlags DEF Next

LEMMA FlagsInitial == Init => Typed /\ AllAgree /\ Apart
  <1> SUFFICES ASSUME Init PROVE Typed /\ AllAgree /\ Apart
    OBVIOUS
  <1>1. ev \in [Sock -> Events] /\ \A s \in Sock : ev[s] = NoEvent
    BY NoEventYet DEF Init, SocketsInit
  <1>2. \A s \in Sock : ev[s].sent <= ev[s].submitted
    BY <1>1, NoEventYet, SizeAssumption DEF Events
  <1>3. watch \in [DOMAIN watch -> SUBSET {"IN", "OUT"}]
    BY DEF Init
  <1>4. AllAgree /\ Apart
    BY DEF Init, SocketsInit, AllAgree, Apart
  <1> QED
    BY <1>1, <1>2, <1>3, <1>4 DEF Typed

(* TypeOK holds for every program, modify_socket and sockets opened in end
   callbacks included: every event of a batch names a descriptor and a socket,
   every running callback is on record with its own, and no socket's buffer is
   written past what it was given. *)
THEOREM EpollTypeCorrect == Spec => []TypeOK
  <1>1. Init => EpollInv /\ Typed
    BY EpollInitial, FlagsInitial
  <1>2. EpollInv /\ Typed /\ [Next]_vars => EpollInv' /\ Typed'
    BY EpollStep, FlagsStep DEF FlagsKeep
  <1>3. EpollInv /\ Typed => TypeOK
    BY DEF EpollInv, SockInv, Shape, WatchedIsRegistered, Typed, Events, Event, TypeOK, SocketsTypeOK
  <1> QED
    BY <1>1, <1>2, <1>3, PTL DEF Spec

(* In a SteadyProgram, flags, buffer and interest list agree in every state. *)
THEOREM EpollAgrees ==
    ASSUME SteadyProgram
    PROVE  Spec => [](EpollInv /\ Typed /\ AllAgree)
  <1> DEFINE Inv == EpollInv /\ Typed /\ AllAgree /\ Apart
  <1>1. Init => Inv
    BY EpollInitial, FlagsInitial
  <1>2. Inv /\ [Next]_vars => Inv'
    BY EpollStep, FlagsStep DEF FlagsKeep
  <1>3. Inv => EpollInv /\ Typed /\ AllAgree
    OBVIOUS
  <1> QED
    BY <1>1, <1>2, <1>3, PTL DEF Spec

(* RegisteredIsWatched holds for every SteadyProgram: whatever its callbacks
   register, send and unregister, the kernel watches every registered socket for
   just what its flags ask. *)
THEOREM EpollRegisteredIsWatched ==
    ASSUME SteadyProgram
    PROVE  Spec => []RegisteredIsWatched
  <1>1. EpollInv /\ Typed /\ AllAgree => RegisteredIsWatched
    BY DEF AllAgree, Agrees, RegisteredIsWatched
  <1> QED
    BY <1>1, EpollAgrees, PTL

(* PendingIsArmed holds for every SteadyProgram: while data waits in a registered
   socket's buffer the kernel is asked to say when it can be written. *)
THEOREM EpollPendingIsArmed ==
    ASSUME SteadyProgram
    PROVE  Spec => []PendingIsArmed
  <1>1. EpollInv /\ Typed /\ AllAgree => PendingIsArmed
    <2> SUFFICES ASSUME EpollInv, Typed, AllAgree, NEW f \in DOMAIN event_maps,
                        Pending(event_maps[f]) > 0
                 PROVE  f \in DOMAIN watch /\ "OUT" \in watch[f]
      BY DEF PendingIsArmed
    <2>1. PICK e \in Events : e = ev[event_maps[f]]
      BY DEF Typed, EpollInv, SockInv, Shape
    <2>2. e.sent # e.submitted
      BY <2>1, SizeAssumption DEF Events, Pending
    <2>3. "WRITE" \in e.flags
      BY <2>1, <2>2 DEF AllAgree, Agrees, Armed
    <2> QED
      BY <2>1, <2>3 DEF AllAgree, Agrees, ioevent_to_epoll
  <1> QED
    BY <1>1, EpollAgrees, PTL
=============================================================================
