---------------------------- MODULE KqueueSelector ----------------------------
(***************************************************************************)
(* The kqueue selector of td_revent (src/src/sys/unix/kqueue.rs).  It      *)
(* differs from the epoll selector in one structure: evts.sys_events is at *)
(* once the buffer kevent fills, the array do_select walks, and the list   *)
(* of changes the methods push to, hand to the kernel and clear.  A method *)
(* called between kevent and its next call hands the kernel the events     *)
(* reported last, as changes, ahead of its own.                            *)
(***************************************************************************)
EXTENDS UnixSockets

VARIABLES
    filters,     \* the kernel's filters: fd |-> subset of {"READ", "WRITE"}
    evts,        \* sys_events, each [fd, filter, sock]; sock is ghost
    todo         \* cnt - i, the turns do_select's loop has left

vars == <<sockVars, filters, evts, todo>>

Filter == {"READ", "WRITE"}
Report == [fd : Fd, filter : Filter, sock : Sock]

TypeOK ==
    /\ SocketsTypeOK
    /\ filters \in [Fd -> SUBSET Filter]
    /\ evts \in Seq(Report) /\ Len(evts) <= MaxBatch
    /\ todo \in 0 .. MaxBatch
    /\ evts # <<>> => todo <= Len(evts)

Init ==
    /\ SocketsInit
    /\ filters = [f \in Fd |-> {}]
    /\ evts = <<>>
    /\ todo = 0

-----------------------------------------------------------------------------
(* Definitions named ..._mut_... are wrong on purpose, each the way a slip in
   the code would be: the README lists the property that tells each from the
   definition after it.  No specification uses them. *)

(* The changes ev_register ("add") and ev_push ("delete") leave in sys_events. *)
changes(f, flags, op) ==
    LET one(filter) == IF filter \in flags THEN <<[fd |-> f, filter |-> filter, op |-> op]>>
                       ELSE <<>>
    IN  one("READ") \o one("WRITE")

(* One change of a list: a change to a closed descriptor, or the deletion of a
   filter that is not there, is refused, and so is all that follows.  A reported
   event ("seen") changes nothing on a filter that is there; on one that is gone
   it is a registration on a system whose reported events keep EV_ADD, and
   refused on the others. *)
takes(r, c, open, keeps_add) ==
    LET there == c.filter \in r.filters[c.fd] IN
    CASE ~r.ok \/ (c.op = "seen" /\ there) -> r
      [] r.ok /\ c.op = "delete" /\ there -> [r EXCEPT !.filters[c.fd] = @ \ {c.filter}]
      [] /\ r.ok /\ c.fd \in open
         /\ c.op = "add" \/ (c.op = "seen" /\ ~there /\ keeps_add) ->
             [r EXCEPT !.filters[c.fd] = @ \cup {c.filter}]
      [] OTHER -> [r EXCEPT !.ok = FALSE]

(* kevent takes a list of changes up to the first it refuses, and returns that
   one's error. *)
kevent(list, open, keeps_add) ==
    LET took[n \in 0 .. Len(list)] ==
            IF n = 0 THEN [filters |-> filters, ok |-> TRUE]
            ELSE takes(took[n - 1], list[n], open, keeps_add)
    IN  took[Len(list)]

(* flush_changes, with CHANGED pushed since: the filters and the result. *)
Flushes(changed, open) ==
    {kevent([i \in DOMAIN evts |-> [fd |-> evts[i].fd, filter |-> evts[i].filter,
                                    op |-> "seen"]] \o changed, open, keeps_add) :
        keeps_add \in BOOLEAN}

flush_changes_mut_keeps(r) == filters' = r.filters /\ evts' = evts

flush_changes(r) == filters' = r.filters /\ evts' = <<>>

(* register and deregister where the caller drops their result. *)
deregister(f, flags) ==
    \E r \in Flushes(changes(f, flags, "delete"), OpenFds) : flush_changes(r)

(* Closing a descriptor takes its filters off the queue. *)
Unfiltered(m, f) == [m EXCEPT ![f] = {}]

-----------------------------------------------------------------------------
(* do_select indexes a sys_events that a handler has cleared: the process
   panics, and takes no further step. *)
Panics == stack = <<>> /\ todo > 0 /\ evts = <<>>

Dispatching == stack = <<>> /\ todo > 0 /\ evts # <<>>
May(op) == (stack = <<>> => todo = 0) /\ Permitted(op)

(* unregister_socket: the socket closes and its end callback is called;
   deregister follows when that callback is back, in end_returns.  On any other
   descriptor there is only the deregister. *)
unregister_socket_mut_keeps_entry(f, stk) ==
    IF f \in DOMAIN event_maps
    THEN /\ Push(stk, "end", event_maps[f], f, NoSock)
         /\ ended' = ended \cup {event_maps[f]}
         /\ UNCHANGED <<fd_of, event_maps, ev, filters, evts>>
    ELSE deregister(f, Filter) /\ stack' = stk /\ UNCHANGED <<fd_of, event_maps, ev, ended>>

unregister_socket_mut_no_close(f, stk) ==
    IF f \in DOMAIN event_maps
    THEN Ends(f, stk) /\ UNCHANGED <<filters, evts>>
    ELSE deregister(f, Filter) /\ stack' = stk /\ UNCHANGED <<fd_of, event_maps, ev, ended>>

unregister_socket(f, stk) ==
    IF f \in DOMAIN event_maps
    THEN Ends(f, stk) /\ filters' = Unfiltered(filters, f) /\ UNCHANGED evts
    ELSE deregister(f, Filter) /\ stack' = stk /\ UNCHANGED <<fd_of, event_maps, ev, ended>>

(* register_socket: the entry goes in, and out again when kevent refuses, which
   drops it and closes the socket. *)
register_socket(s, f, flags) ==
    \E r \in Flushes(changes(f, flags, "add"), OpenFds \cup {f}) :
        IF r.ok
        THEN /\ flush_changes(r)
             /\ fd_of' = [fd_of EXCEPT ![s] = f]
             /\ event_maps' = Bind(event_maps, f, s)
             /\ ev' = [ev EXCEPT ![s] = [NoEvent EXCEPT !.flags = flags]]
        ELSE /\ flush_changes([r EXCEPT !.filters = Unfiltered(@, f)])
             /\ fd_of' = [fd_of EXCEPT ![s] = NotOpen]
             /\ UNCHANGED <<event_maps, ev>>

-----------------------------------------------------------------------------
(* do_select. *)

(* kevent_ts: any of the filters, in any order, at most as many as the buffer
   holds; none at the timeout. *)
Reported == {e \in [fd : Fd, filter : Filter, sock : used] :
                e.filter \in filters[e.fd] /\ e.sock = SocketAt(e.fd)}

select_mut_one_more ==
    /\ stack = <<>> /\ todo = 0
    /\ \E n \in 1 .. MaxBatch :
          /\ evts' \in {b \in [1 .. n -> Reported] : IsInjective(b)}
          /\ todo' = n + 1
    /\ UNCHANGED <<sockVars, filters>>

select ==
    /\ stack = <<>> /\ todo = 0
    /\ \E n \in 0 .. MaxBatch :
          /\ evts' \in {b \in [1 .. n -> Reported] : IsInjective(b)}
          /\ todo' = n
    /\ UNCHANGED <<sockVars, filters>>

(* The event of the loop's turn. *)
Now == evts[Len(evts) - todo + 1]
Turn(filter) == Dispatching /\ Now.filter = filter /\ todo' = todo - 1

(* read_done and write_done return at once for a socket no longer in the map;
   DispatchIsCurrent shows that this never happens. *)
InMap(filter) == Turn(filter) /\ Now.fd \in DOMAIN event_maps
Owner         == event_maps[Now.fd]
is_accept     == "ACCEPT" \in ev[Owner].flags

accept_ok(s) ==
    /\ InMap("READ") /\ is_accept
    /\ \E f \in Fd : Opened(s, f)
    /\ Push(stack, "accept", Owner, Now.fd, s)
    /\ UNCHANGED <<event_maps, ev, ended, filters, evts>>

accept_err ==
    /\ InMap("READ") /\ is_accept
    /\ Push(stack, "accept", Owner, Now.fd, NoSock)
    /\ UNCHANGED <<fd_of, used, event_maps, ev, ended, filters, evts>>

read_data ==
    /\ InMap("READ") /\ ~is_accept
    /\ Push(stack, "read", Owner, Now.fd, NoSock)
    /\ UNCHANGED <<fd_of, used, event_maps, ev, ended, filters, evts>>

(* The peer closed, or the read failed. *)
read_end ==
    /\ InMap("READ") /\ ~is_accept
    /\ unregister_socket(Now.fd, stack)
    /\ UNCHANGED used

(* write_done with nothing buffered, or whose write empties the buffer:
   FLAG_WRITE goes, from the event and from the kernel. *)
write_all_mut_in_write ==
    /\ InMap("WRITE")
    /\ ev' = [ev EXCEPT ![Owner].sent = ev[Owner].submitted, ![Owner].flags = @ \ {"WRITE"}]
    /\ deregister(Now.fd, {"WRITE"})
    /\ UNCHANGED <<fd_of, used, event_maps, stack, ended>>

write_all_mut_flag ==
    /\ InMap("WRITE")
    /\ ev' = [ev EXCEPT ![Owner].sent = ev[Owner].submitted, ![Owner].is_in_write = FALSE]
    /\ deregister(Now.fd, {"WRITE"})
    /\ UNCHANGED <<fd_of, used, event_maps, stack, ended>>

write_all ==
    /\ InMap("WRITE")
    /\ ev' = [ev EXCEPT ![Owner].sent = ev[Owner].submitted, ![Owner].is_in_write = FALSE,
                        ![Owner].flags = @ \ {"WRITE"}]
    /\ deregister(Now.fd, {"WRITE"})
    /\ UNCHANGED <<fd_of, used, event_maps, stack, ended>>

write_part ==
    /\ InMap("WRITE")
    /\ \E n \in 1 .. Pending(Owner) - 1 : ev' = [ev EXCEPT ![Owner].sent = @ + n]
    /\ UNCHANGED <<fd_of, used, event_maps, stack, ended, filters, evts>>

write_fails ==
    /\ InMap("WRITE") /\ Pending(Owner) > 0
    /\ unregister_socket(Now.fd, stack)
    /\ UNCHANGED used

-----------------------------------------------------------------------------
(* A callback returns. *)
drop_given == DropGiven /\ UNCHANGED <<filters, evts, todo>>

(* RetValue::OK and RetValue::CONTINUE. *)
callback_returns ==
    /\ Returning({"accept", "read"})
    /\ stack' = Pop
    /\ UNCHANGED <<fd_of, used, event_maps, ev, ended, filters, evts, todo>>

(* RetValue::OVER. *)
callback_over ==
    /\ ReturnsOver
    /\ unregister_socket(Top.fd, Pop)
    /\ UNCHANGED <<used, todo>>

(* The rest of unregister_socket: deregister by descriptor, whatever socket has
   it by now. *)
end_returns ==
    /\ Returning({"end"})
    /\ deregister(Top.fd, Filter)
    /\ stack' = Pop
    /\ UNCHANGED <<fd_of, used, event_maps, ev, ended, todo>>

-----------------------------------------------------------------------------
(* The methods, called by the program where Permits lets it. *)

(* add_new_event and add_new_accept on a socket the program just opened. *)
register(s) ==
    /\ May("register")
    /\ s \in Sock \ used /\ used' = used \cup {s}
    /\ \E f \in Fd, flags \in RegFlags : LowestFree(f) /\ register_socket(s, f, flags)
    /\ UNCHANGED <<stack, ended, todo>>

(* ... and when the kernel has no room for its filters. *)
register_refused(s) ==
    /\ May("register")
    /\ s \in Sock \ used /\ used' = used \cup {s}
    /\ \E f \in Fd : /\ LowestFree(f)
                     /\ \E r \in Flushes(<<>>, OpenFds \cup {f}) :
                           flush_changes([r EXCEPT !.filters = Unfiltered(@, f)])
    /\ UNCHANGED <<fd_of, event_maps, ev, stack, ended, todo>>

(* The same for the socket the accept callback was given. *)
register_given ==
    /\ May("register_given") /\ stack # <<>> /\ Top.given # NoSock
    /\ \E flags \in RegFlags : register_socket(Top.given, fd_of[Top.given], flags)
    /\ stack' = [stack EXCEPT ![Len(stack)].given = NoSock]
    /\ UNCHANGED <<used, ended, todo>>

(* send_socket on a registered socket; data joins the buffer, and the first
   data of a burst asks for EVFILT_WRITE.  What flush_changes answers is
   returned, with is_in_write already set. *)
send_socket(f) ==
    /\ May("send") /\ f \in DOMAIN event_maps
    /\ LET s == event_maps[f] IN
       /\ ev[s].submitted < MaxSend
       /\ IF ev[s].is_in_write
          THEN /\ ev' = [ev EXCEPT ![s].submitted = @ + 1]
               /\ UNCHANGED <<filters, evts>>
          ELSE /\ ev' = [ev EXCEPT ![s].submitted = @ + 1, ![s].is_in_write = TRUE,
                                   ![s].flags = @ \cup {"WRITE"}]
               /\ \E r \in Flushes(changes(f, {"WRITE"}, "add"), OpenFds) : flush_changes(r)
    /\ UNCHANGED <<fd_of, used, event_maps, stack, ended, todo>>

unregister_own ==
    /\ May("unregister_own") /\ stack # <<>>
    /\ unregister_socket(Top.fd, stack)
    /\ UNCHANGED <<used, todo>>

unregister_other(f) ==
    /\ May("unregister_other") /\ (stack # <<>> => f # Top.fd)
    /\ unregister_socket(f, stack)
    /\ UNCHANGED <<used, todo>>

(* modify_socket adds the filters of the merged flags, and deletes none; when
   kevent refuses, the socket is unregistered. *)
modify_socket(f) ==
    /\ May("modify") /\ f \in DOMAIN event_maps
    /\ \E is_del \in BOOLEAN, arg \in SUBSET Flag :
          LET flags == merge(ev[event_maps[f]].flags, is_del, arg) IN
          \E r \in Flushes(changes(f, flags, "add"), OpenFds) :
             IF r.ok
             THEN /\ ev' = [ev EXCEPT ![event_maps[f]].flags = flags]
                  /\ flush_changes(r)
                  /\ UNCHANGED <<fd_of, event_maps, stack, ended>>
             ELSE /\ Ends(f, stack)
                  /\ flush_changes([r EXCEPT !.filters = Unfiltered(@, f)])
    /\ UNCHANGED <<used, todo>>

-----------------------------------------------------------------------------
Dispatch ==
    \/ \E s \in Sock : accept_ok(s)
    \/ accept_err \/ read_data \/ read_end
    \/ write_all \/ write_part \/ write_fails

Return == drop_given \/ callback_returns \/ callback_over \/ end_returns

UserCall ==
    \/ \E s \in Sock : register(s) \/ register_refused(s)
    \/ register_given \/ unregister_own
    \/ \E f \in Fd : send_socket(f) \/ unregister_other(f) \/ modify_socket(f)

Next == select \/ Dispatch \/ Return \/ UserCall

Spec == Init /\ [][Next]_vars

-----------------------------------------------------------------------------
(* The kernel watches every registered socket for what its flags ask, through
   write_done, modify_socket and calls of every method from a read or accept
   callback, with whatever reports they send back as changes. *)
AskedIsWatched ==
    \A f \in DOMAIN event_maps : ev[event_maps[f]].flags \cap Filter \subseteq filters[f]

(* Data send_socket took is never stranded: while some is buffered the kernel
   is asked for EVFILT_WRITE, so that write_done will come. *)
PendingIsArmed ==
    \A f \in DOMAIN event_maps : Pending(event_maps[f]) > 0 => "WRITE" \in filters[f]

(* The kernel watches no descriptor the map does not know, not even after a
   report of a closed socket went back to it as a change. *)
WatchedIsRegistered == {f \in Fd : filters[f] # {}} \subseteq DOMAIN event_maps

(* do_select looks sockets up by descriptor (kqueue.rs:199-206), and every event
   it dispatches goes to the socket kevent_ts reported it for: a callback cannot
   end that socket, or put a new one in its place, without sys_events being
   cleared. *)
DispatchIsCurrent ==
    Dispatching => Now.fd \in DOMAIN event_maps /\ Owner = Now.sock

(* do_select gets through the events it counted (kqueue.rs:175, 199-207). *)
NeverPanics == ~Panics
=============================================================================
