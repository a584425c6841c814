---------------------------- MODULE UnixSockets ----------------------------
(***************************************************************************)
(* What the two unix selectors of td_revent share (src/src/sys/unix): the  *)
(* descriptors the kernel hands out, the Event of each registered socket,  *)
(* and the callbacks that are running.                                     *)
(*                                                                         *)
(* Descriptors are small integers the kernel hands out lowest first and    *)
(* reuses; a Sock is one open socket, ghost identity the code does not     *)
(* have: it names everything by descriptor.  The stack holds the callbacks *)
(* that are running, innermost last; each may call the selector again      *)
(* before it returns.                                                      *)
(***************************************************************************)
EXTENDS Naturals, Sequences, Functions

CONSTANTS
    Fd,          \* descriptors the process may have open, positive numbers
    Sock,        \* every socket of a behaviour, used once each
    NoSock,      \* no socket
    Permits,     \* <<where, op>>: what the program does, and from where
    RegFlags,    \* the ev_events values sockets are registered with
    MaxSend,     \* bound: the units of data one socket is given to send
    MaxBatch     \* EventLoopConfig.select_catacity, the events of one poll

ASSUME FdAssumption   == Fd \subseteq Nat \ {0}
ASSUME SockAssumption == NoSock \notin Sock
ASSUME SizeAssumption == MaxSend \in Nat /\ MaxBatch \in Nat

Flag == {"READ", "WRITE", "ACCEPT"}

ASSUME FlagAssumption == RegFlags \subseteq SUBSET Flag

(* The methods the program may call, and "over_reused": to return OVER from a
   callback whose socket has ended, when another is registered under its number. *)
Where   == {"outside", "accept", "read", "end"}
Op      == {"register", "register_given", "send", "unregister_own",
            "unregister_other", "modify", "over_reused"}
NotOpen == 0
NoEvent == [flags |-> {}, is_in_write |-> FALSE, submitted |-> 0, sent |-> 0]

VARIABLES
    fd_of,       \* the descriptor of each socket, NotOpen before and after its life
    used,        \* sockets that have been opened
    event_maps,  \* fd |-> the registered socket
    ev,          \* the Event of each socket: ev_events and the write buffer
    stack,       \* the running callbacks, each [kind, sock, fd, given]
    ended        \* sockets whose end callback has been called

sockVars == <<fd_of, used, event_maps, ev, stack, ended>>

Frame == [kind : Where \ {"outside"}, sock : Sock, fd : Fd, given : Sock \cup {NoSock}]

SocketsTypeOK ==
    /\ fd_of \in [Sock -> Fd \cup {NotOpen}]
    /\ used \subseteq Sock
    /\ DOMAIN event_maps \subseteq Fd /\ event_maps \in [DOMAIN event_maps -> Sock]
    /\ ev \in [Sock -> [flags : SUBSET Flag, is_in_write : BOOLEAN,
                        submitted : 0 .. MaxSend, sent : 0 .. MaxSend]]
    /\ stack \in Seq(Frame)
    /\ ended \subseteq used
    /\ \A s \in Sock : ev[s].sent <= ev[s].submitted

SocketsInit ==
    /\ fd_of = [s \in Sock |-> NotOpen]
    /\ used = {}
    /\ event_maps = [f \in {} |-> NoSock]
    /\ ev = [s \in Sock |-> NoEvent]
    /\ stack = <<>>
    /\ ended = {}

-----------------------------------------------------------------------------
(* The kernel and the socket library. *)
Bind(m, f, x)  == [g \in DOMAIN m \cup {f} |-> IF g = f THEN x ELSE m[g]]
Without(m, f)  == Restrict(m, DOMAIN m \ {f})
Pending(s)     == ev[s].submitted - ev[s].sent
OpenFds        == {fd_of[s] : s \in used} \ {NotOpen}
LowestFree(f)  == f \in Fd \ OpenFds /\ \A g \in Fd \ OpenFds : f <= g
SocketAt(f)    == CHOOSE s \in used : fd_of[s] = f

(* A socket comes to life, from accept or from the program. *)
Opened(s, f) ==
    /\ s \in Sock \ used /\ LowestFree(f)
    /\ used' = used \cup {s}
    /\ fd_of' = [fd_of EXCEPT ![s] = f]

(* Where the thread is: in user code between two calls of the loop, or in the
   innermost callback.  The dispatch loop itself has the thread otherwise. *)
Here == IF stack = <<>> THEN "outside" ELSE stack[Len(stack)].kind
Top  == stack[Len(stack)]
Pop  == SubSeq(stack, 1, Len(stack) - 1)
Permitted(op) == <<Here, op>> \in Permits

Push(stk, kind, s, f, given) ==
    stack' = Append(stk, [kind |-> kind, sock |-> s, fd |-> f, given |-> given])

(* A socket the accept callback was given and did not register closes with its
   owner, before the callback's result is read. *)
DropGiven ==
    /\ stack # <<>> /\ Top.given # NoSock
    /\ fd_of' = [fd_of EXCEPT ![Top.given] = NotOpen]
    /\ stack' = [stack EXCEPT ![Len(stack)].given = NoSock]
    /\ UNCHANGED <<used, event_maps, ev, ended>>

Returning(kinds) == stack # <<>> /\ Top.kind \in kinds /\ Top.given = NoSock

(* Whether the program returns OVER here: do_select will unregister the number of
   the callback's socket, whoever has it. *)
ReturnsOver ==
    /\ Returning({"accept", "read"})
    /\ Top.sock \in ended /\ Top.fd \in DOMAIN event_maps => Permitted("over_reused")

(* The first half of unregister_socket: a registered socket leaves the map, is
   closed, and gets its end callback, over the frames of stk, with the last of
   its Event. *)
Ends(f, stk) ==
    /\ fd_of' = [fd_of EXCEPT ![event_maps[f]] = NotOpen]
    /\ event_maps' = Without(event_maps, f)
    /\ ev' = [ev EXCEPT ![event_maps[f]] = NoEvent]
    /\ ended' = ended \cup {event_maps[f]}
    /\ Push(stk, "end", event_maps[f], f, NoSock)

(* EventEntry::merge, on the flags. *)
merge(flags, is_del, arg) ==
    IF is_del THEN flags \ (arg \cup IF "ACCEPT" \in arg THEN {"READ"} ELSE {})
    ELSE flags \cup arg

-----------------------------------------------------------------------------
(* Every entry of the map is an open socket under its own descriptor: no method
   called from any callback leaves the entry of a closed socket behind. *)
RegisteredIsOpen == \A f \in DOMAIN event_maps : fd_of[event_maps[f]] = f

Ran(stk) == [i \in DOMAIN stk |-> [kind |-> stk[i].kind, sock |-> stk[i].sock]]

(* The callbacks keep the promises of SocketService, with the registered sockets
   as the live ones: each has its callbacks between its registration and its one
   end callback, whatever the callbacks register, end and reopen, and OVER ends
   the socket of the callback that returned it, or none (epoll.rs:73-111, 340-353,
   kqueue.rs:72-108, 367-379).  The code keeps that for programs that stay clear
   of "over_reused": unregister_socket goes by number. *)
Service == INSTANCE SocketService WITH live <- Range(event_maps), running <- Ran(stack)

ImplementsSocketService == Service!Spec
=============================================================================
