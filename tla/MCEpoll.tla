------------------------------ MODULE MCEpoll ------------------------------
(***************************************************************************)
(* Model-checking instance of EpollSelector: the symmetry of the sockets   *)
(* and what the program of each run calls, and from where.                 *)
(***************************************************************************)
EXTENDS EpollSelector, TLC

Socks == Permutations(Sock)

Inside == {"accept", "read", "end"}

(* Every method from every callback, but that none returns OVER when its number
   is another's by now. *)
AllPermits == Where \X (Op \ {"over_reused"})

(* Every method except modify_socket, from everywhere, and OVER at any time, but
   that an end callback opens no socket. *)
AnyPermits ==
    ((Where \X (Op \ {"modify", "register_given"})) \ {<<"end", "register">>})
        \cup {<<"accept", "register_given">>}

(* A read callback that unregisters its socket, opens another, and returns OVER. *)
OverPermits ==
    {<<"outside", "register">>} \cup ({"read"} \X {"unregister_own", "register", "over_reused"})

(* A client that opens its next connection from the end callback. *)
ReconnectPermits == {<<"outside", "register">>, <<"end", "register">>}

(* A read callback that ends another socket and opens a new one. *)
ReplacePermits == {<<"outside", "register">>, <<"read", "register">>, <<"read", "unregister_other">>}

ModifyPermits == {<<"outside", "register">>, <<"outside", "modify">>}

Servers == {{"READ"}, {"READ", "ACCEPT"}}
Readers == {{"READ"}}
Mixed   == {{"READ", "ACCEPT"}, {"READ", "WRITE"}}
=============================================================================
