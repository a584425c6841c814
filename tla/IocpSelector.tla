---------------------------- MODULE IocpSelector ----------------------------
(***************************************************************************)
(* The completion-port selector of td_revent on Windows                    *)
(* (src/src/sys/win/selector.rs): the map of Events by socket number, the  *)
(* overlapped operations in the kernel, the packets in the completion      *)
(* port, and the callbacks.                                                *)
(*                                                                         *)
(* do_select copies the packets it takes and handles them in order, so it  *)
(* is modelled packet by packet.  No method calls a callback directly      *)
(* except the end callback, from the ENDED packet, so one callback at most *)
(* runs; the calls of the program come from it, or from outside.           *)
(***************************************************************************)
EXTENDS WinIo, FiniteSets, Functions

CONSTANTS
    Sock,        \* every socket of a behaviour, registered once each
    Num,         \* the SOCKET numbers the kernel hands out, not 0
    Reuse,       \* whether it hands out the number of a socket that is closed
                 \* while its Event is still in event_maps
    PostFails,   \* whether PostQueuedCompletionStatus may fail
    RegFlags,    \* the ev_events values sockets are registered with
    ModFlags,    \* the ev_events values passed to modify_socket
    MayPend,     \* whether WSASend may answer WSA_IO_PENDING
    IoPollTimeout, \* EventLoopConfig.io_poll_timeout_ms
    MaxSend,     \* bound: the units of data a socket is given to send
    Prefill,     \* bound: those of them its EventBuffer is registered with
    MaxOps       \* bound: no modify_socket or send_socket on a socket with this
                 \* many reads or this many writes under way

(* PERSIST stands for FLAG_PERSIST and FLAG_READ_PERSIST. *)
Flag == {"READ", "WRITE", "ACCEPT", "PERSIST"}

ASSUME NumAssumption   == Num \subseteq Nat \ {0}
ASSUME FlagAssumption  == RegFlags \subseteq SUBSET Flag /\ ModFlags \subseteq SUBSET Flag
ASSUME BoundAssumption == /\ {Reuse, PostFails, MayPend} \subseteq BOOLEAN
                          /\ IoPollTimeout \in 0 .. U64Max
                          /\ MaxSend \in Nat /\ Prefill \in 0 .. MaxSend /\ MaxOps \in Nat

VARIABLES
    role,        \* what each socket was registered as: none yet, stream or listener
    num,         \* its number, kept when it is closed
    event_maps,  \* number |-> the socket whose Event is registered under it
    ev,          \* the Events; a write buffer holds units drained+1 .. submitted
    io,          \* the kernel's side of each socket: see IoFields
    port,        \* the packets in the completion port
    running,     \* the callback that runs, if any, as <<[kind, sock]>>
    panicked,    \* the loop is dead
    ended        \* sockets whose end callback has been called

vars == <<role, num, event_maps, ev, io, port, running, panicked, ended>>

AddrsBuf == {AcceptAddrsBuf} \cup {Accepted(p) : p \in Peers}
Peer     == {None} \cup {Some(p) : p \in Peers}

EventFields == [flags : SUBSET Flag, is_in_read : BOOLEAN, is_in_write : BOOLEAN,
                is_end : BOOLEAN, accept_socket : BOOLEAN, accept_buf : AddrsBuf,
                submitted : 0 .. MaxSend, drained : 0 .. MaxSend]

(* open: the socket; broken: the connection; reads, writes: operations in the
   kernel; given: units WSASend was handed so far.  History: resent, it was
   handed some of them again; pended, it was pending once; modified,
   modify_socket has been called. *)
IoFields == [open : BOOLEAN, broken : BOOLEAN, reads : Nat, writes : Nat,
             given : 0 .. MaxSend, resent : BOOLEAN, pended : BOOLEAN, modified : BOOLEAN]

(* from: the peer of an accept that succeeded. *)
PacketFields == [sock : Sock, kind : {"read", "write", "ENDED"}, bytes : {0, 1}, from : Peer]

TypeOK ==
    /\ role \in [Sock -> {"none", "stream", "listener"}]
    /\ num \in [Sock -> Num \cup {0}]
    /\ DOMAIN event_maps \subseteq Num /\ event_maps \in [DOMAIN event_maps -> Sock]
    /\ ev \in [Sock -> EventFields]
    /\ io \in [Sock -> IoFields]
    /\ port \in Seq(PacketFields)
    /\ running = <<>> \/ \E kind \in {"accept", "read", "write", "end"}, s \in Sock :
                            running = <<[kind |-> kind, sock |-> s]>>
    /\ panicked \in BOOLEAN
    /\ ended \subseteq Sock
    /\ \A s \in Sock : ev[s].drained <= ev[s].submitted

NoEvent == [flags |-> {}, is_in_read |-> FALSE, is_in_write |-> FALSE,
            is_end |-> FALSE, accept_socket |-> FALSE, accept_buf |-> AcceptAddrsBuf,
            submitted |-> 0, drained |-> 0]

NoIo == [open |-> FALSE, broken |-> FALSE, reads |-> 0, writes |-> 0,
         given |-> 0, resent |-> FALSE, pended |-> FALSE, modified |-> FALSE]

Init ==
    /\ role = [s \in Sock |-> "none"]
    /\ num = [s \in Sock |-> 0]
    /\ event_maps = [n \in {} |-> 0]
    /\ ev = [s \in Sock |-> NoEvent]
    /\ io = [s \in Sock |-> NoIo]
    /\ port = <<>>
    /\ running = <<>>
    /\ panicked = FALSE
    /\ ended = {}

-----------------------------------------------------------------------------
(* What the post_* functions do to one socket x: its Event, its kernel side, and
   the packets that go out to the port.  Each comes to a set of outcomes. *)
Socket(s)        == [sock |-> s, ev |-> ev[s], io |-> io[s], out |-> <<>>]
Outcome(x, isOk) == [x |-> x, ok |-> isOk]

PacketOf(x, kind, n) == [sock |-> x.sock, kind |-> kind, bytes |-> n, from |-> None]
Buffered(e)          == e.submitted - e.drained
Reads(x, ok)         == Outcome(IF ok THEN [x EXCEPT !.io.reads = @ + 1] ELSE x, ok)

(* Definitions named ..._mut_... are wrong on purpose, each the way a slip in
   the code would be: the README lists the property that tells each from the
   definition after it.  No specification uses them. *)
post_accept_event(x) ==
    IF x.ev.is_in_read THEN {Outcome(x, TRUE)}
    ELSE {Outcome(x, FALSE)} \cup                            \* local_addr, or a new socket, fails
         IF x.io.open
         THEN {Reads([x EXCEPT !.ev.accept_socket = TRUE], r.ok) : r \in accept_overlapped}
         ELSE {}

post_read_event(x) ==
    IF x.ev.is_end \/ x.ev.is_in_read THEN {Outcome(x, TRUE)}
    ELSE {Reads(x, r.ok) : r \in read_overlapped}

(* WSASend of the buffer: it fails, takes n units at once, or is left pending.
   The packet comes in either of the last two cases. *)
Handed(k, from, n) == [k EXCEPT !.given = from + n, !.resent = @ \/ k.given > from]
Pending(k)         == [k EXCEPT !.writes = @ + 1, !.pended = TRUE]

Drained_mut_whole(e, n) ==
    [e EXCEPT !.drained = IF n < Buffered(e) THEN @ ELSE @ + n, !.is_in_write = n < Buffered(e)]

Drained(e, n) == [e EXCEPT !.drained = @ + n, !.is_in_write = n < Buffered(e)]

SendNow(x, n) ==
    Outcome([x EXCEPT !.ev = Drained(@, n), !.io = Handed(@, x.ev.drained, n),
                      !.out = Append(@, PacketOf(x, "write", 0))],
            TRUE)

SendPending(x) ==
    Outcome([x EXCEPT !.io = Pending(Handed(@, x.ev.drained, slice2buf(Buffered(x.ev))))], TRUE)

Sent(x, r) == IF ~r.ok THEN Outcome(x, FALSE)
              ELSE IF r.v = None THEN SendPending(x) ELSE SendNow(x, r.v[1])

post_write_event(x) ==
    IF x.ev.is_in_write \/ Buffered(x.ev) = 0 \/ x.ev.is_end THEN {Outcome(x, TRUE)}
    ELSE {Sent(x, r) : r \in write_overlapped(Buffered(x.ev), x.io.broken, MayPend)}

(* unregister_socket: the socket is closed, which completes what it has in the
   kernel, and then the ENDED packet is posted. *)
Aborted(x)   == [i \in 1 .. x.io.reads |-> PacketOf(x, "read", 0)]
                    \o [i \in 1 .. x.io.writes |-> PacketOf(x, "write", 0)]
EndedFor(x)  == <<PacketOf(x, "ENDED", 0)>>
Closed(x, q) == [x EXCEPT !.ev.is_end = TRUE, !.out = @ \o q,
                          !.io = [@ EXCEPT !.open = FALSE, !.reads = 0, !.writes = 0]]

unregister_socket_mut_ended_first(x) ==
    IF x.ev.is_end THEN {Outcome(x, TRUE)}
    ELSE {Outcome(Closed(x, EndedFor(x) \o Aborted(x)), TRUE)}

unregister_socket_mut_no_end(x) ==
    IF x.ev.is_end THEN {Outcome(x, TRUE)} ELSE {Outcome(Closed(x, Aborted(x)), TRUE)}

unregister_socket(x) ==
    IF x.ev.is_end THEN {Outcome(x, TRUE)}
    ELSE {Outcome(Closed(x, Aborted(x) \o IF r.ok THEN EndedFor(x) ELSE <<>>), r.ok) :
              r \in post_info(PostFails)}

(* With an error of o the socket is unregistered. *)
OrUnregister(o) == IF o.ok THEN {o} ELSE unregister_socket(o.x)

(* check_socket_event: what the flags ask for is posted; `?` leaves with the
   first error. *)
check_socket_event_mut_reads_twice(x) ==
    IF "ACCEPT" \in x.ev.flags THEN post_accept_event(x)
    ELSE LET afterRead == IF "READ" \in x.ev.flags THEN post_read_event(x)
                          ELSE {Outcome(x, TRUE)} IN
         UNION {IF o.ok /\ "WRITE" \in x.ev.flags THEN post_read_event(o.x) ELSE {o} :
                    o \in afterRead}

check_socket_event(x) ==
    IF "ACCEPT" \in x.ev.flags THEN post_accept_event(x)
    ELSE LET afterRead == IF "READ" \in x.ev.flags THEN post_read_event(x)
                          ELSE {Outcome(x, TRUE)} IN
         UNION {IF o.ok /\ "WRITE" \in x.ev.flags THEN post_write_event(o.x) ELSE {o} :
                    o \in afterRead}

(* The state after outcome o, with the packets of q in front of its own. *)
Becomes(x, q) ==
    /\ ev' = [ev EXCEPT ![x.sock] = x.ev]
    /\ io' = [io EXCEPT ![x.sock] = x.io]
    /\ port' = q \o x.out

-----------------------------------------------------------------------------
Bind(m, n, s) == [k \in DOMAIN m \cup {n} |-> IF k = n THEN s ELSE m[k]]
Without(m, n) == Restrict(m, DOMAIN m \ {n})

Registered(n) == n \in DOMAIN event_maps
InMap(s)      == Registered(num[s]) /\ event_maps[num[s]] = s
Within(s)     == running # <<>> /\ running[1].sock = s

(* The methods, called from outside or from a callback: both see the same
   state. *)
OpenNums == {num[s] : s \in {t \in Sock : io[t].open}}

(* register_socket.  An Event that is in the map under the same number is
   dropped, unless a callback of its socket runs and holds it; if the kernel
   refuses the socket or a post fails, the new one is dropped, which closes its
   socket and completes what an earlier post left in the kernel. *)
Replaced(n, s, e) ==
    [t \in Sock |-> IF t = s THEN e
                    ELSE IF Registered(n) /\ event_maps[n] = t /\ ~Within(t) THEN NoEvent
                    ELSE ev[t]]

register_socket(s) ==
    /\ ~panicked /\ role[s] = "none"
    /\ \E n \in Num \ OpenNums, flags \in RegFlags, filled \in 0 .. Prefill, broken \in BOOLEAN :
          /\ Reuse \/ ~Registered(n)
          /\ role' = [role EXCEPT ![s] = IF "ACCEPT" \in flags THEN "listener" ELSE "stream"]
          /\ num' = [num EXCEPT ![s] = n]
          /\ \E added \in add_socket :
             \E o \in IF added.ok
                      THEN check_socket_event([Socket(s) EXCEPT !.ev.flags = flags, !.io.open = TRUE,
                                               !.io.broken = broken, !.ev.submitted = filled])
                      ELSE {Outcome(Socket(s), FALSE)} :
                IF o.ok
                THEN /\ event_maps' = Bind(event_maps, n, s)
                     /\ ev' = Replaced(n, s, o.x.ev)
                     /\ io' = [io EXCEPT ![s] = o.x.io]
                     /\ port' = port \o o.x.out
                ELSE /\ event_maps' = Without(event_maps, n)
                     /\ ev' = Replaced(n, s, NoEvent)
                     /\ port' = port \o o.x.out \o Aborted(o.x)
                     /\ UNCHANGED io
    /\ UNCHANGED <<running, panicked, ended>>

(* EventEntry::merge, on the flags. *)
merge(flags, is_del, arg) ==
    IF is_del THEN flags \ ((arg \ {"PERSIST"}) \cup IF "ACCEPT" \in arg THEN {"READ"} ELSE {})
    ELSE flags \cup (arg \ {"PERSIST"})

PacketsAt(s, kind) == {i \in DOMAIN port : port[i].sock = s /\ port[i].kind = kind}
Reading(s) == io[s].reads + Cardinality(PacketsAt(s, "read"))
Writing(s) == io[s].writes + Cardinality(PacketsAt(s, "write"))
Room(s)    == Reading(s) < MaxOps /\ Writing(s) < MaxOps

modify_socket(n) ==
    /\ ~panicked /\ Registered(n) /\ Room(event_maps[n])
    /\ \E is_del \in BOOLEAN, arg \in ModFlags :
       \E o \in check_socket_event([Socket(event_maps[n]) EXCEPT
                                       !.ev.flags = merge(@, is_del, arg), !.io.modified = TRUE]) :
       \E u \in OrUnregister(o) : Becomes(u.x, port)
    /\ UNCHANGED <<role, num, event_maps, running, panicked, ended>>

send_socket(n) ==
    /\ ~panicked /\ Registered(n) /\ Room(event_maps[n])
    /\ LET x == Socket(event_maps[n]) IN
       \E k \in 1 .. MaxSend - x.ev.submitted :
       \E o \in post_write_event([x EXCEPT !.ev.submitted = @ + k]) : Becomes(o.x, port)
    /\ UNCHANGED <<role, num, event_maps, running, panicked, ended>>

unregister(n) ==
    /\ ~panicked /\ Registered(n) /\ ~ev[event_maps[n]].is_end
    /\ \E o \in unregister_socket(Socket(event_maps[n])) : Becomes(o.x, port)
    /\ UNCHANGED <<role, num, event_maps, running, panicked, ended>>

-----------------------------------------------------------------------------
(* The kernel finishes an operation, a connection breaks. *)
complete_read(s) ==
    /\ io[s].reads > 0 /\ role[s] = "stream"
    /\ io' = [io EXCEPT ![s].reads = @ - 1]
    /\ \E n \in {0, 1} :
          /\ io[s].broken => n = 0
          /\ port' = Append(port, PacketOf(Socket(s), "read", n))
    /\ UNCHANGED <<role, num, event_maps, ev, running, panicked, ended>>

complete_accept(s) ==
    /\ io[s].reads > 0 /\ role[s] = "listener"
    /\ io' = [io EXCEPT ![s].reads = @ - 1]
    /\ \E from \in Peer :
          /\ port' = Append(port, [PacketOf(Socket(s), "read", 0) EXCEPT !.from = from])
          /\ ev' = IF from = None THEN ev ELSE [ev EXCEPT ![s].accept_buf = Accepted(from[1])]
    /\ UNCHANGED <<role, num, event_maps, running, panicked, ended>>

complete_write(s) ==
    /\ io[s].writes > 0
    /\ io' = [io EXCEPT ![s].writes = @ - 1]
    /\ port' = Append(port, PacketOf(Socket(s), "write", 0))
    /\ UNCHANGED <<role, num, event_maps, ev, running, panicked, ended>>

break(s) ==
    /\ io[s].open /\ ~io[s].broken
    /\ io' = [io EXCEPT ![s].broken = TRUE]
    /\ UNCHANGED <<role, num, event_maps, ev, port, running, panicked, ended>>

-----------------------------------------------------------------------------
(* do_select takes the next packet and finds its Event behind the OVERLAPPED.
   The model has no step for a packet whose Event has been dropped, which no
   definition could describe: DroppedIsQuiet says whether there is one. *)
Packet    == Head(port)
Source    == Packet.sock
Own       == ev[Source]
is_accept == "ACCEPT" \in Own.flags

Gets(kinds) ==
    /\ ~panicked /\ running = <<>> /\ port # <<>>
    /\ Packet.kind \in kinds /\ InMap(Source)

Calls(kind) == running' = <<[kind |-> kind, sock |-> Source]>>

(* WAIT_TIMEOUT. *)
select_timeout ==
    /\ ~panicked /\ running = <<>> /\ port = <<>>
    /\ dur2ms(Some(from_millis(IoPollTimeout))) # INFINITE
    /\ UNCHANGED vars

(* write_done, up to its callback. *)
write_done_mut_in_write ==
    /\ Gets({"write"})
    /\ port' = Tail(port)
    /\ Calls("write")
    /\ UNCHANGED <<role, num, event_maps, ev, io, panicked, ended>>

write_done_mut_drains ==
    /\ Gets({"write"})
    /\ port' = Tail(port)
    /\ ev' = [ev EXCEPT ![Source].is_in_write = FALSE, ![Source].drained = @ + 1]
    /\ Calls("write")
    /\ UNCHANGED <<role, num, event_maps, io, panicked, ended>>

write_done ==
    /\ Gets({"write"})
    /\ port' = Tail(port)
    /\ ev' = [ev EXCEPT ![Source].is_in_write = FALSE]
    /\ Calls("write")
    /\ UNCHANGED <<role, num, event_maps, io, panicked, ended>>

(* read_done of a listener, which does not look for FLAG_ENDED: the socket the
   accept was posted with is taken out and unwrapped, and accept_cb gets
   AcceptResult. *)
accept_done ==
    /\ Gets({"read", "ENDED"}) /\ is_accept
    /\ port' = Tail(port)
    /\ IF Own.accept_socket
       THEN /\ ev' = [ev EXCEPT ![Source].accept_socket = FALSE, ![Source].is_in_read = FALSE]
            /\ Calls("accept")
            /\ UNCHANGED panicked
       ELSE panicked' = TRUE /\ UNCHANGED <<ev, running>>
    /\ UNCHANGED <<role, num, event_maps, io, ended>>

(* read_done of a stream: data, up to its callback... *)
read_done_mut_in_read ==
    /\ Gets({"read"}) /\ ~is_accept /\ Packet.bytes > 0
    /\ port' = Tail(port)
    /\ Calls("read")
    /\ UNCHANGED <<role, num, event_maps, ev, io, panicked, ended>>

read_done ==
    /\ Gets({"read"}) /\ ~is_accept /\ Packet.bytes > 0
    /\ port' = Tail(port)
    /\ ev' = [ev EXCEPT ![Source].is_in_read = FALSE]
    /\ Calls("read")
    /\ UNCHANGED <<role, num, event_maps, io, panicked, ended>>

(* ... no bytes ... *)
read_none ==
    /\ Gets({"read"}) /\ ~is_accept /\ Packet.bytes = 0
    /\ \E o \in unregister_socket(Socket(Source)) : Becomes(o.x, Tail(port))
    /\ UNCHANGED <<role, num, event_maps, running, panicked, ended>>

(* ... and FLAG_ENDED: _unregister_socket, with the end callback. *)
read_ended_mut_keeps ==
    /\ Gets({"ENDED"}) /\ ~is_accept
    /\ port' = Tail(port)
    /\ Calls("end")
    /\ ended' = ended \cup {Source}
    /\ UNCHANGED <<role, num, event_maps, ev, io, panicked>>

read_ended ==
    /\ Gets({"ENDED"}) /\ ~is_accept
    /\ port' = Tail(port)
    /\ event_maps' = Without(event_maps, num[Source])
    /\ Calls("end")
    /\ ended' = ended \cup {Source}
    /\ UNCHANGED <<role, num, ev, io, panicked>>

(* A callback of s returns.  The handler goes on with the Event it holds, but
   what it posts and unregisters it names by number. *)
Self == running[1].sock
Here == num[Self]
Back(kind) == running # <<>> /\ running[1].kind = kind /\ running' = <<>>

callback_over ==
    /\ \E kind \in {"accept", "read", "write"} : Back(kind)
    /\ IF Registered(Here)
       THEN \E o \in unregister_socket(Socket(event_maps[Here])) : Becomes(o.x, port)
       ELSE UNCHANGED <<ev, io, port>>
    /\ UNCHANGED <<role, num, event_maps, panicked, ended>>

(* The rest of write_done: an error of the post is dropped. *)
write_returns ==
    /\ Back("write")
    /\ IF Buffered(ev[Self]) > 0 /\ Registered(Here)
       THEN \E o \in post_write_event(Socket(event_maps[Here])) : Becomes(o.x, port)
       ELSE UNCHANGED <<ev, io, port>>
    /\ UNCHANGED <<role, num, event_maps, panicked, ended>>

(* The rest of read_done: without PERSIST the interest is gone after one event;
   otherwise the next operation is posted. *)
OneShot(e, drop) == IF "PERSIST" \in e.flags THEN e ELSE [e EXCEPT !.flags = @ \ drop]

(* A successful post under Self's number sets is_in_read of Self's own Event. *)
Rearmed(o) ==
    IF ~o.ok THEN unregister_socket(o.x)
    ELSE {IF o.x.sock = Self THEN [o EXCEPT !.x.ev.is_in_read = TRUE] ELSE o}

Repost(drop, flag, Post(_)) ==
    LET e == OneShot(ev[Self], drop) IN
    IF flag \in e.flags /\ Registered(Here)
    THEN LET t == event_maps[Here] IN
         \E o \in Post(IF t = Self THEN [Socket(t) EXCEPT !.ev = e] ELSE Socket(t)) :
         \E r \in Rearmed(o) : Becomes(r.x, port)
    ELSE ev' = [ev EXCEPT ![Self] = e] /\ UNCHANGED <<io, port>>

read_returns ==
    /\ Back("read")
    /\ Repost({"READ"}, "READ", post_read_event)
    /\ UNCHANGED <<role, num, event_maps, panicked, ended>>

accept_returns ==
    /\ Back("accept")
    /\ Repost({"READ", "ACCEPT"}, "ACCEPT", post_accept_event)
    /\ UNCHANGED <<role, num, event_maps, panicked, ended>>

(* The Event is dropped with the last frame that holds it. *)
end_returns ==
    /\ Back("end")
    /\ ev' = [ev EXCEPT ![Self] = NoEvent]
    /\ io' = [io EXCEPT ![Self] = NoIo]
    /\ UNCHANGED <<role, num, event_maps, port, panicked, ended>>

-----------------------------------------------------------------------------
UserCall == \/ \E s \in Sock : register_socket(s)
            \/ \E n \in Num : modify_socket(n) \/ send_socket(n) \/ unregister(n)
Kernel   == \E s \in Sock : complete_read(s) \/ complete_accept(s) \/ complete_write(s) \/ break(s)
Dispatch == write_done \/ accept_done \/ read_done \/ read_none \/ read_ended
Return   == callback_over \/ write_returns \/ read_returns \/ accept_returns \/ end_returns

Next == UserCall \/ Kernel \/ select_timeout \/ Dispatch \/ Return

Spec == Init /\ [][Next]_vars

(* The loop goes on and callbacks return. *)
LiveSpec == Spec /\ WF_vars(Dispatch) /\ WF_vars(Return)

-----------------------------------------------------------------------------
(* selector.rs:312: "each socket has only one read in progress, so that data is
   not mixed up": one read or accept at a time uses the read OVERLAPPED, the
   read cache and accept_socket, from its posting until its packet is handled. *)
OneRead == \A s \in Sock : Reading(s) <= 1

(* That holds as long as nothing is posted from modify_socket: the callbacks,
   the packets and the errors of posts never put a second read next to the
   first (selector.rs:122-224). *)
OneReadUntilModified == \A s \in Sock : io[s].modified \/ Reading(s) <= 1

(* accept_cb gets the address of the connection whose packet is handled
   (selector.rs:126-138): no later accept has written its own into accept_buf in
   the meantime, and the address comes out of the buffer as it went in. *)
AcceptedPeer ==
    Gets({"read"}) /\ is_accept /\ Packet.from # None /\ ~io[Source].modified
        => AcceptResult(TRUE, Own.accept_buf) = Ok(Packet.from)

(* A registered socket that asks for reads has one coming whenever the loop has
   the thread: no sequence of posts, callbacks and modify_socket calls leaves
   it deaf. *)
ReadArmed ==
    running = <<>> =>
        \A s \in Range(event_maps) :
            ~ev[s].is_end /\ ev[s].flags \cap {"READ", "ACCEPT"} # {} => Reading(s) >= 1

(* Buffered data has a write under way, so that write_done will see to the rest
   of it: is_in_write never stays set with nothing to clear it. *)
WriteProgress ==
    running = <<>> =>
        \A s \in Range(event_maps) :
            ~ev[s].is_end /\ ~io[s].broken /\ Buffered(ev[s]) > 0 => Writing(s) >= 1

(* The kernel is handed every unit of data once (selector.rs:336-337). *)
NothingSentTwice == \A s \in Sock : ~io[s].resent

(* That holds as long as every WSASend took some data at once: what send_socket,
   write_done and the callbacks in between post never overlaps. *)
SentOnceUntilPending == \A s \in Sock : io[s].pended \/ ~io[s].resent

(* from_raw_arc.rs:11-12: casting an OVERLAPPED to its Event is "to ensure that
   data lives for the length of an I/O operation".  When an Event is dropped,
   with its OVERLAPPED structures and buffers, the kernel has no operation on
   them and the port no packet that points at them. *)
DroppedIsQuiet ==
    \A s \in Sock :
        ~InMap(s) /\ ~Within(s) =>
            io[s].reads + io[s].writes = 0 /\ \A i \in DOMAIN port : port[i].sock # s

(* selector.rs:451-452: "on FLAG_ENDED all resources of the socket are released
   and end_cb is called", for any socket: no packet makes read_done panic. *)
NeverPanics == ~panicked

(* iocp.rs:96-98: "if None is provided this function will not time out, and
   otherwise it will time out after the specified duration".  A wait with a
   timeout comes back, so that the timers of the loop run. *)
SelectTimesOut ==
    ~panicked /\ running = <<>> /\ port = <<>> => ENABLED select_timeout

(* A stream that is unregistered gets its end callback (selector.rs:451-483). *)
UnregisterEnds ==
    \A s \in Sock :
        InMap(s) /\ "ACCEPT" \notin ev[s].flags /\ role[s] = "stream" /\ ev[s].is_end ~> s \in ended

(* The callbacks keep the promises of SocketService, with the registered sockets
   as the live ones (selector.rs:122-246, 400-482).  Needs numbers that are not
   reused too early. *)
Service == INSTANCE SocketService WITH live <- Range(event_maps)

ImplementsSocketService == Service!Spec
=============================================================================
