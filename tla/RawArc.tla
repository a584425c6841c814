------------------------------- MODULE RawArc -------------------------------
(***************************************************************************)
(* FromRawArc of td_revent (src/src/sys/from_raw_arc.rs), the counted      *)
(* reference the Windows selector keeps its Events with: one allocation,   *)
(* and threads that clone, send, use and drop references to it.            *)
(*                                                                         *)
(* Every step is one atomic operation on the counter, with what its memory *)
(* ordering publishes and acquires, or one access to the data.  A Ref is a *)
(* ghost identity: a handle, or a count that fetch_add took with no handle *)
(* to it, such as one that an operation in the kernel stands for.          *)
(***************************************************************************)
EXTENDS Integers, FiniteSets

CONSTANTS
    Thread,
    Ref,         \* bound: the references that exist at once
    Credited     \* whether fetch_sub is called only to give back a count that
                 \* fetch_add took, or the last reference of all

ASSUME RefAssumption    == IsFiniteSet(Ref)
ASSUME CreditAssumption == Credited \in BOOLEAN

VARIABLES
    cnt,         \* Inner.cnt, as an integer: a usize would wrap below 0
    handles,     \* the FromRawArc values of each thread
    credits,     \* the counts each thread took with fetch_add
    pc,          \* where each thread is in a method
    freed,       \* the box has been dropped
    known,       \* of each thread, the threads all of whose uses of the data so
                 \* far happen before what it does next
    published    \* the same of the releases the counter carries

vars == <<cnt, handles, credits, pc, freed, known, published>>

RawArcTypeOK ==
    /\ cnt \in Nat
    /\ handles \in [Thread -> SUBSET Ref]
    /\ credits \in [Thread -> SUBSET Ref]
    /\ pc \in [Thread -> {"idle", "using", "sub", "last", "fence", "free"}]
    /\ freed \in BOOLEAN
    /\ known \in [Thread -> SUBSET Thread]
    /\ published \subseteq Thread

Owned(t) == handles[t] \cup credits[t]
Live     == {r \in Ref : \E t \in Thread : r \in Owned(t)}
Fresh    == Ref \ Live

(* FromRawArc::new. *)
Init ==
    /\ cnt = 1
    /\ \E t \in Thread, r \in Ref :
          handles = [u \in Thread |-> IF u = t THEN {r} ELSE {}]
    /\ credits = [t \in Thread |-> {}]
    /\ pc = [t \in Thread |-> "idle"]
    /\ freed = FALSE
    /\ known = [t \in Thread |-> Thread]
    /\ published = Thread

-----------------------------------------------------------------------------
Transition(t, from, to) == pc[t] = from /\ pc' = [pc EXCEPT ![t] = to]

(* Definitions named ..._mut_... are wrong on purpose, each the way a slip in
   the code would be: the README lists the property that tells each from the
   definition after it.  No specification uses them. *)
Release_mut_relaxed(t) == UNCHANGED published

(* Ordering::Release on the counter, and the Acquire fence.  Every write of the
   counter is a read-modify-write, so a release is never lost to a later one. *)
Release(t) == published' = published \cup known[t]
Acquire(t) == known' = [known EXCEPT ![t] = @ \cup published]

fetch_add == cnt' = cnt + 1

(* Clone::clone of a handle the thread owns or borrows from another, which keeps
   that one in place: it is not being passed to fetch_sub. *)
Borrowable(u) == handles[u] # {} /\ pc[u] \in {"idle", "using"}

clone(t) ==
    /\ pc[t] = "idle"
    /\ \E u \in Thread, r \in Fresh :
          Borrowable(u) /\ handles' = [handles EXCEPT ![t] = @ \cup {r}]
    /\ fetch_add
    /\ UNCHANGED <<credits, pc, freed, known, published>>

(* from_raw, on a pointer the thread keeps the data alive for. *)
from_raw(t) ==
    /\ pc[t] = "idle" /\ Owned(t) # {}
    /\ \E r \in Fresh : handles' = [handles EXCEPT ![t] = @ \cup {r}]
    /\ fetch_add
    /\ UNCHANGED <<credits, pc, freed, known, published>>

(* fetch_add by itself: a count with no handle. *)
take_count(t) ==
    /\ pc[t] = "idle" /\ handles[t] # {}
    /\ \E r \in Fresh : credits' = [credits EXCEPT ![t] = @ \cup {r}]
    /\ fetch_add
    /\ UNCHANGED <<handles, pc, freed, known, published>>

(* A handle is moved to another thread, by means that order the two. *)
send(t, u) ==
    /\ pc[t] = "idle" /\ t # u
    /\ \E r \in handles[t] :
          handles' = [handles EXCEPT ![t] = @ \ {r}, ![u] = @ \cup {r}]
    /\ known' = [known EXCEPT ![u] = @ \cup known[t]]
    /\ UNCHANGED <<cnt, credits, pc, freed, published>>

(* Deref::deref and DerefMut::deref_mut: the thread uses the data until it is
   done with the borrow. *)
use(t) ==
    /\ handles[t] # {} /\ Transition(t, "idle", "using")
    /\ known' = [u \in Thread |-> IF u = t THEN known[u] ELSE known[u] \ {t}]
    /\ published' = published \ {t}
    /\ UNCHANGED <<cnt, handles, credits, freed>>

use_done(t) == Transition(t, "using", "idle") /\ UNCHANGED <<cnt, handles, credits, freed, known, published>>

-----------------------------------------------------------------------------
(* Drop::drop: the decrement that finds 1 goes on to the fence and the box. *)
drop_from_mut_early(t, from) ==
    /\ Transition(t, from, IF cnt <= 2 THEN "fence" ELSE "idle")
    /\ \E r \in handles[t] : handles' = [handles EXCEPT ![t] = @ \ {r}]
    /\ cnt' = cnt - 1
    /\ Release(t)
    /\ UNCHANGED <<credits, freed, known>>

drop_from(t, from) ==
    /\ Transition(t, from, IF cnt = 1 THEN "fence" ELSE "idle")
    /\ \E r \in handles[t] : handles' = [handles EXCEPT ![t] = @ \ {r}]
    /\ cnt' = cnt - 1
    /\ Release(t)
    /\ UNCHANGED <<credits, freed, known>>

drop(t) == drop_from(t, "idle")

fence(t) ==
    /\ Transition(t, "fence", "free")
    /\ Acquire(t)
    /\ UNCHANGED <<cnt, handles, credits, freed, published>>

drop_box(t) ==
    /\ Transition(t, "free", "idle")
    /\ freed' = TRUE
    /\ UNCHANGED <<cnt, handles, credits, known, published>>

(* fetch_sub loads the counter and only then subtracts.  With 1 it drops the
   handle; else it gives the handle back with one count less. *)
fetch_sub(t) ==
    /\ handles[t] # {}
    /\ Credited => credits[t] # {} \/ \E r \in handles[t] : Live = {r}
    /\ Transition(t, "idle", IF cnt = 1 THEN "last" ELSE "sub")
    /\ UNCHANGED <<cnt, handles, credits, freed, known, published>>

fetch_sub_last(t) == drop_from(t, "last")

fetch_sub_some_mut_keeps(t) ==
    /\ Transition(t, "sub", "idle")
    /\ IF credits[t] = {} THEN UNCHANGED credits
       ELSE \E r \in credits[t] : credits' = [credits EXCEPT ![t] = @ \ {r}]
    /\ UNCHANGED <<cnt, handles, freed, known, published>>

fetch_sub_some(t) ==
    /\ Transition(t, "sub", "idle")
    /\ cnt' = cnt - 1
    /\ IF credits[t] = {} THEN UNCHANGED credits
       ELSE \E r \in credits[t] : credits' = [credits EXCEPT ![t] = @ \ {r}]
    /\ Release(t)
    /\ UNCHANGED <<handles, freed, known>>

Step(t) ==
    \/ clone(t) \/ from_raw(t) \/ take_count(t) \/ \E u \in Thread : send(t, u)
    \/ use(t) \/ use_done(t)
    \/ drop(t) \/ fence(t) \/ drop_box(t)
    \/ fetch_sub(t) \/ fetch_sub_last(t) \/ fetch_sub_some(t)

Next == \E t \in Thread : Step(t)

Spec == Init /\ [][Next]_vars

-----------------------------------------------------------------------------
(* No thread touches the allocation once one of them has begun to drop the box,
   and only one does: neither a count nor a handle is left, and no method is
   half way, however the clones, drops and fetch_subs of the threads interleave
   (from_raw_arc.rs:63-112). *)
DropsAlone(t) == Live = {} /\ \A u \in Thread \ {t} : pc[u] = "idle"

NoUseAfterFree ==
    /\ \A t \in Thread : pc[t] \in {"fence", "free"} => ~ freed /\ DropsAlone(t)
    /\ freed => Live = {} /\ \A t \in Thread : pc[t] = "idle"

(* The last reference takes the data with it: when none is left the box has been
   dropped, or a thread is about to. *)
NothingLeaks == Live = {} => freed \/ \E t \in Thread : pc[t] \in {"fence", "free"}

(* What any thread did with the data happens before the box is dropped: the
   Release of every decrement and the Acquire fence of the last one reach from
   each use to the free, along whatever chain of clones and moves
   (from_raw_arc.rs:105-110). *)
UsesBeforeFree == \A t \in Thread : pc[t] = "free" => known[t] = Thread

(* DerefMut gives the data out as exclusively borrowed, to one thread at a time. *)
ExclusiveUse == \A t, u \in Thread : pc[t] = "using" /\ pc[u] = "using" => t = u
=============================================================================
