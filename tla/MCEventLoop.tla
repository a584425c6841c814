---------------------------- MODULE MCEventLoop ----------------------------
(***************************************************************************)
(* Model-checking instance of EventLoop: the symmetry of the entry slots   *)
(* and the sets of methods the runs let the program call.                  *)
(***************************************************************************)
EXTENDS EventLoop, TLC

Slots == Permutations(Entry)

AllOps == {"add_new_timer", "add_new_timer_at", "add_timer", "del_timer", "shutdown"}
FutureOps == {"add_new_timer", "del_timer", "shutdown"}
PastOps == {"add_new_timer_at", "shutdown"}
=============================================================================
