---------------------------- MODULE TimerService ----------------------------
(***************************************************************************)
(* What EventLoop promises to the program that arms timers, without the    *)
(* tree, the hash map, the entries or the passes of the loop: ids are      *)
(* issued once, an armed id has one deadline, timers fire at or after      *)
(* their deadlines and the earliest first, and cancelling an id disarms    *)
(* that timer and no other.                                                *)
(***************************************************************************)
EXTENDS Naturals

CONSTANTS Id,    \* timer handles
          Time   \* deadlines

VARIABLES
    clock,    \* the time
    issued,   \* ids handed out so far
    armed,    \* deadline of every armed id
    firing    \* the id whose callback is running, if one is

serviceVars == <<clock, issued, armed, firing>>

Init ==
    /\ clock = 0
    /\ issued = {}
    /\ armed = [i \in {} |-> 0]
    /\ firing = {}

Arms(i, t) == armed' = [j \in DOMAIN armed \cup {i} |-> IF j = i THEN t ELSE armed[j]]
Disarms(i) == armed' = [j \in DOMAIN armed \ {i} |-> armed[j]]

(* A new timer gets an id no timer ever had. *)
New(i, t) ==
    /\ i \notin issued /\ issued' = issued \cup {i}
    /\ Arms(i, t) /\ UNCHANGED <<clock, firing>>

(* A cancelled timer is armed again, under its own id. *)
Again(i, t) ==
    /\ i \in issued /\ i \notin DOMAIN armed \cup firing
    /\ Arms(i, t) /\ UNCHANGED <<clock, issued, firing>>

Cancel(i) == i \in DOMAIN armed /\ Disarms(i) /\ UNCHANGED <<clock, issued, firing>>

(* One callback at a time, the earliest deadline first, and none early. *)
Fire(i) ==
    /\ firing = {} /\ firing' = {i}
    /\ i \in DOMAIN armed /\ armed[i] <= clock
    /\ \A j \in DOMAIN armed : armed[i] <= armed[j]
    /\ Disarms(i) /\ UNCHANGED <<clock, issued>>

(* The callback returns, and its timer is over or is armed again. *)
Return(i) ==
    /\ firing = {i} /\ firing' = {}
    /\ UNCHANGED armed \/ (i \notin DOMAIN armed /\ \E t \in Time : Arms(i, t))
    /\ UNCHANGED <<clock, issued>>

Passes == clock' > clock /\ UNCHANGED <<issued, armed, firing>>

Next ==
    \/ \E i \in Id : \/ \E t \in Time : New(i, t) \/ Again(i, t)
                     \/ Cancel(i)
                     \/ Fire(i)
                     \/ Return(i)
    \/ Passes

Spec == Init /\ [][Next]_serviceVars
=============================================================================
