---------------------------- MODULE SocketService ----------------------------
(***************************************************************************)
(* What the event loop promises the program about the callbacks of its     *)
(* sockets, whichever selector is under it: a socket's callbacks run       *)
(* between its registration and its end callback, which is its last and    *)
(* comes once; events are dispatched one at a time, so that the only       *)
(* callback that runs inside another is an end callback; and a callback    *)
(* that returns OVER ends its own socket and no other: once its socket has *)
(* ended, returning OVER is only returning.                                *)
(***************************************************************************)
EXTENDS Sequences, SequencesExt

CONSTANT Sock

VARIABLES
    live,      \* sockets that are registered
    running,   \* the running callbacks, innermost last, each [kind, sock]
    ended      \* sockets whose end callback has been called

serviceVars == <<live, running, ended>>

Call(kind, s) == [kind |-> kind, sock |-> s]

Init == live = {} /\ running = <<>> /\ ended = {}

Register(s) ==
    /\ s \notin live \cup ended
    /\ live' = live \cup {s}
    /\ UNCHANGED <<running, ended>>

Begin(kind, s) ==
    /\ running = <<>> /\ s \in live
    /\ running' = <<Call(kind, s)>>
    /\ UNCHANGED <<live, ended>>

Return ==
    /\ running # <<>>
    /\ running' = Front(running)
    /\ UNCHANGED <<live, ended>>

(* The end callback of s is called, over the callbacks of stk. *)
Ends(s, stk) ==
    /\ s \in live
    /\ live' = live \ {s} /\ ended' = ended \cup {s}
    /\ running' = Append(stk, Call("end", s))

End(s) == Ends(s, running)

(* A callback returned OVER, and its socket had not ended. *)
Over(s) ==
    /\ running # <<>> /\ Last(running).kind # "end"
    /\ s = Last(running).sock
    /\ Ends(s, Front(running))

Next ==
    \/ \E s \in Sock : Register(s) \/ End(s) \/ Over(s)
    \/ \E s \in Sock, kind \in {"accept", "read", "write"} : Begin(kind, s)
    \/ Return

Spec == Init /\ [][Next]_serviceVars
=============================================================================
