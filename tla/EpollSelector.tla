---------------------------- MODULE EpollSelector ----------------------------
(***************************************************************************)
(* The epoll selector of td_revent (src/src/sys/unix/epoll.rs): the map of *)
(* registered sockets, the interest list the kernel keeps for the epoll    *)
(* descriptor, one do_select that dispatches the events of one epoll_wait, *)
(* and the callbacks, which may call the selector again before they        *)
(* return.                                                                 *)
(***************************************************************************)
EXTENDS UnixSockets

VARIABLES
    watch,       \* the kernel's interest list: fd |-> subset of {"IN", "OUT"}
    batch        \* what is left of the events of this do_select

vars == <<sockVars, watch, batch>>

TypeOK ==
    /\ SocketsTypeOK
    /\ DOMAIN watch \subseteq Fd /\ watch \in [DOMAIN watch -> SUBSET {"IN", "OUT"}]
    /\ batch \in Seq([fd : Fd, ready : SUBSET {"IN", "OUT"}, sock : Sock])

Init ==
    /\ SocketsInit
    /\ watch = [f \in {} |-> {}]
    /\ batch = <<>>

-----------------------------------------------------------------------------
(* Definitions named ..._mut_... are wrong on purpose, each the way a slip in
   the code would be: the README lists the property that tells each from the
   definition after it.  No specification uses them. *)
ioevent_to_epoll(flags) ==
    {e \in {"IN", "OUT"} : \/ e = "IN" /\ "READ" \in flags
                           \/ e = "OUT" /\ "WRITE" \in flags}

(* EPOLL_CTL_MOD, refused on a descriptor that is not watched. *)
modregister(f, flags) ==
    watch' = IF f \in DOMAIN watch THEN Bind(watch, f, ioevent_to_epoll(flags)) ELSE watch

-----------------------------------------------------------------------------
(* The program calls a method between two do_select, or from a callback. *)
May(op) == (stack = <<>> => batch = <<>>) /\ Permitted(op)
Dispatching == stack = <<>> /\ batch # <<>>

(* unregister_socket: closing the socket takes it off the interest list, and the
   end callback is called; EpollCtlDel follows when that callback is back, in
   end_returns.  On any other descriptor there is only the EpollCtlDel. *)
unregister_socket_mut_no_close(f, stk) ==
    IF f \in DOMAIN event_maps
    THEN /\ event_maps' = Without(event_maps, f)
         /\ ev' = [ev EXCEPT ![event_maps[f]] = NoEvent]
         /\ ended' = ended \cup {event_maps[f]}
         /\ Push(stk, "end", event_maps[f], f, NoSock)
         /\ UNCHANGED <<fd_of, watch>>
    ELSE /\ watch' = Without(watch, f)
         /\ stack' = stk
         /\ UNCHANGED <<fd_of, event_maps, ev, ended>>

unregister_socket(f, stk) ==
    IF f \in DOMAIN event_maps
    THEN Ends(f, stk) /\ watch' = Without(watch, f)
    ELSE /\ watch' = Without(watch, f)
         /\ stack' = stk
         /\ UNCHANGED <<fd_of, event_maps, ev, ended>>

(* register_socket once the kernel has taken the descriptor. *)
watch_socket(s, f, flags) ==
    /\ event_maps' = Bind(event_maps, f, s)
    /\ ev' = [ev EXCEPT ![s] = [NoEvent EXCEPT !.flags = flags]]
    /\ watch' = Bind(watch, f, ioevent_to_epoll(flags))

-----------------------------------------------------------------------------
(* do_select. *)

(* epoll_wait: any ready part of the interest list, in any order, at most as
   many events as the buffer holds; none at the timeout. *)
Reported == {e \in [fd : DOMAIN watch, ready : SUBSET {"IN", "OUT"}, sock : used] :
                /\ e.ready # {} /\ e.ready \subseteq watch[e.fd]
                /\ e.sock = SocketAt(e.fd)}

select ==
    /\ stack = <<>> /\ batch = <<>>
    /\ \E n \in 0 .. MaxBatch :
          batch' \in {b \in [1 .. n -> Reported] :
                         \A i, j \in 1 .. n : b[i].fd = b[j].fd => i = j}
    /\ UNCHANGED <<fd_of, used, watch, event_maps, ev, stack, ended>>

(* The event of the dispatch loop's turn, and the batch behind its EPOLLIN or
   EPOLLOUT half. *)
Now     == Head(batch)
Turn(e) == Dispatching /\ e \in Now.ready /\ (e = "OUT" => "IN" \notin Now.ready)
Done(e) == batch' = IF Now.ready = {e} THEN Tail(batch)
                    ELSE <<[Now EXCEPT !.ready = @ \ {e}]>> \o Tail(batch)

(* The socket was unregistered since epoll_wait returned. *)
skip_event(e) ==
    /\ Turn(e) /\ Now.fd \notin DOMAIN event_maps
    /\ Done(e)
    /\ UNCHANGED <<fd_of, used, watch, event_maps, ev, stack, ended>>

InMap(e) == Turn(e) /\ Now.fd \in DOMAIN event_maps
Owner    == event_maps[Now.fd]
is_accept == "ACCEPT" \in ev[Owner].flags

accept_ok(s) ==
    /\ InMap("IN") /\ is_accept
    /\ \E f \in Fd : Opened(s, f)
    /\ Push(stack, "accept", Owner, Now.fd, s)
    /\ Done("IN")
    /\ UNCHANGED <<watch, event_maps, ev, ended>>

accept_err ==
    /\ InMap("IN") /\ is_accept
    /\ Push(stack, "accept", Owner, Now.fd, NoSock)
    /\ Done("IN")
    /\ UNCHANGED <<fd_of, used, watch, event_maps, ev, ended>>

read_data ==
    /\ InMap("IN") /\ ~is_accept
    /\ Push(stack, "read", Owner, Now.fd, NoSock)
    /\ Done("IN")
    /\ UNCHANGED <<fd_of, used, watch, event_maps, ev, ended>>

(* The peer closed, or the read failed. *)
read_end ==
    /\ InMap("IN") /\ ~is_accept
    /\ unregister_socket(Now.fd, stack)
    /\ Done("IN")
    /\ UNCHANGED used

(* Nothing (more) to write: FLAG_WRITE goes, from the event and the kernel. *)
disarm_mut_in_write(s, f, n) ==
    /\ ev' = [ev EXCEPT ![s].sent = @ + n, ![s].flags = @ \ {"WRITE"}]
    /\ modregister(f, ev[s].flags \ {"WRITE"})

disarm_mut_kernel(s, f, n) ==
    /\ ev' = [ev EXCEPT ![s].sent = @ + n, ![s].is_in_write = FALSE,
                        ![s].flags = @ \ {"WRITE"}]
    /\ UNCHANGED watch

disarm(s, f, n) ==
    /\ ev' = [ev EXCEPT ![s].sent = @ + n, ![s].is_in_write = FALSE,
                        ![s].flags = @ \ {"WRITE"}]
    /\ modregister(f, ev[s].flags \ {"WRITE"})

(* write_done with nothing buffered, or whose write empties the buffer. *)
write_all ==
    /\ InMap("OUT")
    /\ disarm(Owner, Now.fd, Pending(Owner))
    /\ Done("OUT")
    /\ UNCHANGED <<fd_of, used, event_maps, stack, ended>>

write_part_mut_drains_more ==
    /\ InMap("OUT")
    /\ \E n \in 1 .. Pending(Owner) - 1 : ev' = [ev EXCEPT ![Owner].sent = @ + n + 2]
    /\ Done("OUT")
    /\ UNCHANGED <<fd_of, used, watch, event_maps, stack, ended>>

write_part_mut_disarms ==
    /\ InMap("OUT")
    /\ \E n \in 1 .. Pending(Owner) - 1 : disarm(Owner, Now.fd, n)
    /\ Done("OUT")
    /\ UNCHANGED <<fd_of, used, event_maps, stack, ended>>

write_part ==
    /\ InMap("OUT")
    /\ \E n \in 1 .. Pending(Owner) - 1 : ev' = [ev EXCEPT ![Owner].sent = @ + n]
    /\ Done("OUT")
    /\ UNCHANGED <<fd_of, used, watch, event_maps, stack, ended>>

write_fails ==
    /\ InMap("OUT") /\ Pending(Owner) > 0
    /\ unregister_socket(Now.fd, stack)
    /\ Done("OUT")
    /\ UNCHANGED used

-----------------------------------------------------------------------------
(* A callback returns. *)
drop_given == DropGiven /\ UNCHANGED <<watch, batch>>

(* RetValue::OK and RetValue::CONTINUE. *)
callback_returns ==
    /\ Returning({"accept", "read"})
    /\ stack' = Pop
    /\ UNCHANGED <<fd_of, used, watch, event_maps, ev, batch, ended>>

(* RetValue::OVER. *)
callback_over_mut_next ==
    /\ ReturnsOver
    /\ unregister_socket(IF batch = <<>> THEN Top.fd ELSE Now.fd, Pop)
    /\ UNCHANGED <<used, batch>>

callback_over ==
    /\ ReturnsOver
    /\ unregister_socket(Top.fd, Pop)
    /\ UNCHANGED <<used, batch>>

(* The rest of unregister_socket: EpollCtlDel by descriptor, whatever socket
   has it by now. *)
end_returns ==
    /\ Returning({"end"})
    /\ watch' = Without(watch, Top.fd)
    /\ stack' = Pop
    /\ UNCHANGED <<fd_of, used, event_maps, ev, batch, ended>>

-----------------------------------------------------------------------------
(* The methods, called by the program where Permits lets it. *)

(* add_new_event and add_new_accept on a socket the program just opened. *)
register(s) ==
    /\ May("register")
    /\ \E f \in Fd, flags \in RegFlags : Opened(s, f) /\ watch_socket(s, f, flags)
    /\ UNCHANGED <<batch, stack, ended>>

(* ... and when the kernel refuses it: the entry is removed and dropped, which
   closes the socket. *)
register_refused(s) ==
    /\ May("register")
    /\ s \notin used /\ \E f \in Fd : LowestFree(f)
    /\ used' = used \cup {s}
    /\ UNCHANGED <<fd_of, watch, event_maps, ev, batch, stack, ended>>

(* The same for the socket the accept callback was given. *)
register_given ==
    /\ May("register_given") /\ stack # <<>> /\ Top.given # NoSock
    /\ \E flags \in RegFlags : watch_socket(Top.given, fd_of[Top.given], flags)
    /\ stack' = [stack EXCEPT ![Len(stack)].given = NoSock]
    /\ UNCHANGED <<fd_of, used, batch, ended>>

(* send_socket on a registered socket; data joins the buffer, and the first
   data of a burst asks for EPOLLOUT.  A refused EPOLL_CTL_MOD is returned as
   an error, with is_in_write already set. *)
send_socket(f) ==
    /\ May("send") /\ f \in DOMAIN event_maps
    /\ LET s == event_maps[f] IN
       /\ ev[s].submitted < MaxSend
       /\ IF ev[s].is_in_write
          THEN /\ ev' = [ev EXCEPT ![s].submitted = @ + 1]
               /\ UNCHANGED watch
          ELSE /\ ev' = [ev EXCEPT ![s].submitted = @ + 1, ![s].is_in_write = TRUE,
                                   ![s].flags = @ \cup {"WRITE"}]
               /\ modregister(f, ev[s].flags \cup {"WRITE"})
    /\ UNCHANGED <<fd_of, used, event_maps, batch, stack, ended>>

unregister_own ==
    /\ May("unregister_own") /\ stack # <<>>
    /\ unregister_socket(Top.fd, stack)
    /\ UNCHANGED <<used, batch>>

unregister_other(f) ==
    /\ May("unregister_other") /\ (stack # <<>> => f # Top.fd)
    /\ unregister_socket(f, stack)
    /\ UNCHANGED <<used, batch>>

modify_socket_mut_forgets(f) ==
    /\ May("modify") /\ f \in DOMAIN event_maps
    /\ event_maps' = Without(event_maps, f)
    /\ watch' = Without(watch, f)
    /\ UNCHANGED <<fd_of, used, ev, batch, stack, ended>>

(* modify_socket: the kernel is told EpollCtlDel; when it refuses, because the
   descriptor is not watched, the socket is unregistered. *)
modify_socket(f) ==
    /\ May("modify") /\ f \in DOMAIN event_maps
    /\ IF f \in DOMAIN watch
       THEN /\ \E is_del \in BOOLEAN, arg \in SUBSET Flag :
                  ev' = [ev EXCEPT ![event_maps[f]].flags = merge(@, is_del, arg)]
            /\ watch' = Without(watch, f)
            /\ UNCHANGED <<fd_of, event_maps, stack, ended>>
       ELSE unregister_socket(f, stack)
    /\ UNCHANGED <<used, batch>>

-----------------------------------------------------------------------------
Dispatch ==
    \/ \E e \in {"IN", "OUT"} : skip_event(e)
    \/ \E s \in Sock : accept_ok(s)
    \/ accept_err \/ read_data \/ read_end
    \/ write_all \/ write_part \/ write_fails

Return == drop_given \/ callback_returns \/ callback_over \/ end_returns

UserCall ==
    \/ \E s \in Sock : register(s) \/ register_refused(s)
    \/ register_given \/ unregister_own
    \/ \E f \in Fd : send_socket(f) \/ unregister_other(f) \/ modify_socket(f)

Next == select \/ Dispatch \/ Return \/ UserCall

Spec == Init /\ [][Next]_vars

(* The loop goes on, callbacks return, and the kernel keeps reporting a
   watched descriptor that stays writable. *)
Writable(f) == select /\ \E i \in DOMAIN batch' : batch'[i].fd = f /\ "OUT" \in batch'[i].ready

Fairness ==
    /\ WF_vars(Dispatch)
    /\ WF_vars(Return)
    /\ \A f \in Fd : SF_vars(Writable(f))

LiveSpec == Spec /\ Fairness

-----------------------------------------------------------------------------
(* The kernel watches every registered socket for just what its flags ask: what
   register_socket, send_socket, write_done and unregister_socket must keep in
   step across callbacks that call them again. *)
RegisteredIsWatched ==
    \A f \in DOMAIN event_maps :
        /\ f \in DOMAIN watch
        /\ watch[f] = ioevent_to_epoll(ev[event_maps[f]].flags)

(* The kernel watches nothing the map does not know: an event always finds a
   socket to go to, or one that was removed since. *)
WatchedIsRegistered == DOMAIN watch \subseteq DOMAIN event_maps

(* Data send_socket took is never stranded: while some is buffered the kernel
   is asked for EPOLLOUT, so that write_done will come. *)
PendingIsArmed ==
    \A f \in DOMAIN event_maps :
        Pending(event_maps[f]) > 0 => f \in DOMAIN watch /\ "OUT" \in watch[f]

(* do_select looks sockets up by descriptor (epoll.rs:192-200).  Read of every
   event of a batch: it goes to the socket epoll_wait reported it for, or to
   none. *)
DispatchIsCurrent ==
    Dispatching /\ Now.fd \in DOMAIN event_maps => Owner = Now.sock

(* While the socket an event was reported for is alive the event goes to it,
   whatever earlier callbacks of the batch registered, closed or reopened. *)
LiveGetsItsEvent ==
    Dispatching /\ Now.sock \notin ended => Now.fd \in DOMAIN event_maps /\ Owner = Now.sock

(* Data taken for a registered socket is written, or the socket ends. *)
PendingFlushed ==
    \A s \in Sock : s \notin ended /\ Pending(s) > 0 ~> s \in ended \/ Pending(s) = 0
=============================================================================
