------------------------------ MODULE MCKqueue ------------------------------
(***************************************************************************)
(* Model-checking instance of KqueueSelector: the symmetry of the sockets  *)
(* and what the program of each run calls, and from where.                 *)
(***************************************************************************)
EXTENDS KqueueSelector, TLC

Socks == Permutations(Sock)

(* Every method, but that an end callback neither sends nor opens a socket, that
   flags are modified only from outside and from end callbacks, and that none
   returns OVER when its number is another's by now. *)
AnyPermits ==
    ({"outside", "accept", "read"} \X {"register", "send"})
        \cup (Where \X {"unregister_own", "unregister_other"})
        \cup {<<"accept", "register_given">>, <<"outside", "modify">>, <<"end", "modify">>}

(* A read callback that unregisters its socket, opens another, and returns OVER. *)
OverPermits ==
    {<<"outside", "register">>} \cup ({"read"} \X {"unregister_own", "register", "over_reused"})

(* A server that accepts connections and does nothing else. *)
AcceptPermits == {<<"outside", "register">>, <<"accept", "register_given">>}

(* A server that tells the others when one of its sockets ends. *)
FarewellPermits == {<<"outside", "register">>, <<"end", "send">>}

(* A client that opens its next connection from the end callback. *)
ReconnectPermits == {<<"outside", "register">>, <<"end", "register">>}

Readers == {{"READ"}}
Servers == {{"READ"}, {"READ", "ACCEPT"}}
Mixed   == {{"READ", "ACCEPT"}, {"READ", "WRITE"}}
=============================================================================
