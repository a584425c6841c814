------------------------------- MODULE MCIocp -------------------------------
(***************************************************************************)
(* Model-checking instance of IocpSelector: the flags the runs use.        *)
(***************************************************************************)
EXTENDS IocpSelector

Streams   == {{"READ", "PERSIST"}, {"READ"}}
Duplex    == {{"READ", "WRITE", "PERSIST"}}
Listeners == {{"READ", "ACCEPT", "PERSIST"}, {"READ", "ACCEPT"}}
Both      == Streams \cup Duplex \cup Listeners
NoFlags   == {}
NoPeers   == {}
(* Every byte of the two addresses differs from its neighbours, in base 4. *)
TwoPeers ==
    {[family |-> "V4", ip |-> <<3, 0, 2, 1>>, port |-> 11, flow |-> 0, scope |-> 0],
     [family |-> "V6", ip |-> <<8, 1, 14, 6, 9, 3, 2, 11>>, port |-> 4, flow |-> 27, scope |-> 114]}

Changes   == {{"READ"}, {"WRITE"}}
=============================================================================
