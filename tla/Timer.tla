------------------------------- MODULE Timer -------------------------------
(***************************************************************************)
(* The timer table of td_revent (src/src/timer.rs) and the EventEntry      *)
(* values it stores (src/src/event_entry.rs).  The table is two structures *)
(* that must agree: timer_queue, a red-black tree of entries ordered by    *)
(* TreeKey(tick_ms, time_id), and time_maps, a hash map from the id of an  *)
(* armed timer to the tick it is queued at, which is how del_timer finds   *)
(* the key to remove.                                                      *)
(*                                                                         *)
(* Each action is one call of the Timer API; the table belongs to a single *)
(* thread and a call runs to its end.  EventLoop extends this module and   *)
(* uses the same actions as the calls of the loop and of its callbacks.    *)
(***************************************************************************)
EXTENDS Integers, FiniteSets

CONSTANTS
    Entry,       \* EventEntry values that can be alive at once (a slot is reused)
    TimeMaxId,   \* EventLoopConfig.time_max_id
    U32Max,      \* u32::MAX, scaled down
    U64Max,      \* u64::MAX, scaled down
    Step,        \* tick_step values the program uses
    AtTime,      \* deadlines the program passes to new_timer_at
    MaxNow,      \* bound: the last value of the wall clock
    BackStep,    \* how far one adjustment may set the wall clock back (0: never)
    IdReuse      \* bound: FALSE stops the run before time_id comes round

ASSUME IdAssumption    == U32Max \in Nat \ {0, 1} /\ TimeMaxId \in 0 .. U32Max
ASSUME ClockAssumption == U64Max \in Nat /\ MaxNow \in 0 .. U64Max /\ BackStep \in Nat
ASSUME InputAssumption == Step \subseteq 0 .. U64Max /\ AtTime \subseteq 0 .. U64Max
ASSUME ReuseAssumption == IdReuse \in BOOLEAN

Id   == 0 .. U32Max
Tick == 0 .. U64Max

(* The fields of EventEntry the timers read; persist is FLAG_PERSIST in
   ev_events. *)
EntryFields == [time_id : Id, tick_ms : Tick, tick_step : Tick, persist : BOOLEAN]

(* EventEntry::default(), also the content of a slot that holds no entry. *)
Default == [time_id |-> 0, tick_ms |-> 0, tick_step |-> 0, persist |-> FALSE]

VARIABLES
    clock,         \* what now_micro() returns: the wall clock, in milliseconds
    entry,         \* the content of every slot
    timer_queue,   \* the entries in the tree
    time_maps,     \* id |-> tick_ms
    time_id,       \* the last id issued
    held,          \* entries owned by the caller: constructed, removed, or firing
    hung           \* a call is spinning in calc_new_id

timerVars == <<clock, entry, timer_queue, time_maps, time_id, held, hung>>

TimerTypeOK ==
    /\ clock \in 0 .. MaxNow
    /\ entry \in [Entry -> EntryFields]
    /\ timer_queue \subseteq Entry
    /\ DOMAIN time_maps \subseteq Id
    /\ time_maps \in [DOMAIN time_maps -> Tick]
    /\ time_id \in Id
    /\ held \subseteq Entry
    /\ hung \in BOOLEAN

TimerInit ==
    /\ clock = 0
    /\ entry = [e \in Entry |-> Default]
    /\ timer_queue = {}
    /\ time_maps = [i \in {} |-> 0]
    /\ time_id = 0
    /\ held = {}
    /\ hung = FALSE

-----------------------------------------------------------------------------
(* now_micro() + tick_step in a build without overflow checks. *)
Later(step) ==
    IF clock + step <= U64Max THEN clock + step ELSE clock + step - (U64Max + 1)

(* Definitions named ..._mut_... are wrong on purpose, each the way a slip in
   the code would be: the README lists the property that tells each from the
   definition after it.  No specification uses them. *)
KeyBefore_mut_reversed(f, e) == entry[f].tick_ms > entry[e].tick_ms

(* TreeKey's order: by tick_ms, and among equal ticks the larger id first. *)
KeyBefore(f, e) ==
    \/ entry[f].tick_ms < entry[e].tick_ms
    \/ /\ entry[f].tick_ms = entry[e].tick_ms
       /\ entry[f].time_id > entry[e].time_id

(* get_first / pop_first: equal keys may come out in either order. *)
IsFirst(e) == e \in timer_queue /\ \A f \in timer_queue : ~ KeyBefore(f, e)

Bind(i, t) == [j \in DOMAIN time_maps \cup {i} |-> IF j = i THEN t ELSE time_maps[j]]
Unbind(i)  == [j \in DOMAIN time_maps \ {i} |-> time_maps[j]]

(* The ids the cursor of calc_new_id passes over: beyond time_max_id it goes
   back to 1, unless the u32 addition has wrapped to 0 first. *)
IdRange == IF TimeMaxId = U32Max THEN Id ELSE {1} \cup (1 .. TimeMaxId)
Free    == IdRange \ DOMAIN time_maps

IsNewId_mut_least(i) == i \in Free /\ \A j \in Free : j >= i

(* The scan stops at the first id after time_id, cyclically, that time_maps
   does not hold. *)
IsNewId(i) ==
    /\ i \in Free
    /\ IF i > time_id THEN \A j \in Free : j <= time_id \/ j >= i
                      ELSE \A j \in Free : j <= time_id /\ j >= i

(* One turn of that loop: overflowing_add(1), then back to 1 past the maximum. *)
NextCursor(c) ==
    LET n == (c + 1) % (U32Max + 1) IN IF n > TimeMaxId THEN 1 ELSE n

(* Where at most n turns leave a cursor, n bounding a scan that ends. *)
scan[n \in 0 .. U32Max + 1] ==
    [c \in Id |->
        IF n = 0 THEN c
        ELSE LET d == NextCursor(c) IN IF d \in DOMAIN time_maps THEN scan[n - 1][d] ELSE d]

calc_new_id_mut_still(i) == IsNewId(i) /\ (IdReuse \/ i > time_id) /\ UNCHANGED time_id

calc_new_id(i) == IsNewId(i) /\ (IdReuse \/ i > time_id) /\ time_id' = i

(* Every id is taken: the loop of calc_new_id never breaks. *)
spin ==
    /\ Free = {}
    /\ hung' = TRUE
    /\ UNCHANGED <<clock, entry, timer_queue, time_maps, time_id, held>>

insert_mut_unmapped(e, rec) ==
    /\ entry' = [entry EXCEPT ![e] = rec]
    /\ timer_queue' = timer_queue \cup {e}
    /\ held' = held \ {e}
    /\ UNCHANGED <<clock, time_maps>>

(* time_maps.insert and timer_queue.insert, which takes the entry over. *)
insert(e, rec) ==
    /\ entry' = [entry EXCEPT ![e] = rec]
    /\ time_maps' = Bind(rec.time_id, rec.tick_ms)
    /\ timer_queue' = timer_queue \cup {e}
    /\ held' = held \ {e}
    /\ UNCHANGED clock

insert_new(e, rec) ==
    \/ /\ \E i \in Id : calc_new_id(i) /\ insert(e, [rec EXCEPT !.time_id = i])
       /\ UNCHANGED hung
    \/ spin

drop_entry(e) ==
    /\ entry' = [entry EXCEPT ![e] = Default]
    /\ held' = held \ {e}
    /\ UNCHANGED <<clock, timer_queue, time_maps, time_id, hung>>

-----------------------------------------------------------------------------
Vacant == Entry \ (timer_queue \cup held)

new_timer(step, repeat) ==
    [Default EXCEPT !.tick_ms = Later(step), !.tick_step = step, !.persist = repeat]

new_timer_at(t) == [Default EXCEPT !.tick_ms = t]

construct(e, rec) ==
    /\ e \in Vacant
    /\ entry' = [entry EXCEPT ![e] = rec]
    /\ held' = held \cup {e}
    /\ UNCHANGED <<clock, timer_queue, time_maps, time_id, hung>>

add_timer_mut_zero(e, step) ==
    LET rec == [entry[e] EXCEPT !.tick_step = step, !.tick_ms = Later(step)] IN
    /\ e \in held
    /\ \/ entry[e].time_id # 0 /\ insert(e, rec) /\ UNCHANGED <<time_id, hung>>
       \/ entry[e].time_id = 0 /\ insert_new(e, rec)

(* Timer::add_timer.  tick_step is a public field: the caller hands the entry
   over with tick_step = step. *)
add_timer(e, step) ==
    LET rec == [entry[e] EXCEPT !.tick_step = step, !.tick_ms = Later(step)] IN
    /\ e \in held
    /\ \/ step = 0 /\ drop_entry(e)
       \/ step # 0 /\ entry[e].time_id # 0 /\ insert(e, rec) /\ UNCHANGED <<time_id, hung>>
       \/ step # 0 /\ entry[e].time_id = 0 /\ insert_new(e, rec)

(* Timer::add_first_timer on a new entry, as EventLoop::add_new_timer and
   add_new_timer_at call it. *)
add_first_timer(e, rec) == e \in Vacant /\ insert_new(e, rec)

del_timer_mut_unmaps(id) ==
    /\ id \in DOMAIN time_maps
    /\ time_maps' = Unbind(id)
    /\ UNCHANGED <<clock, entry, timer_queue, time_id, held, hung>>

(* Timer::del_timer: an entry found is handed back to the caller. *)
del_timer(id) ==
    IF id \notin DOMAIN time_maps
    THEN UNCHANGED timerVars
    ELSE /\ time_maps' = Unbind(id)
         /\ LET found == {e \in timer_queue : /\ entry[e].time_id = id
                                              /\ entry[e].tick_ms = time_maps[id]}
            IN  IF found = {} THEN UNCHANGED <<timer_queue, held>>
                ELSE \E e \in found : /\ timer_queue' = timer_queue \ {e}
                                      /\ held' = held \cup {e}
         /\ UNCHANGED <<clock, entry, time_id, hung>>

tick_time_mut_mapped(tm, e) ==
    /\ IsFirst(e)
    /\ entry[e].tick_ms <= tm
    /\ timer_queue' = timer_queue \ {e}
    /\ held' = held \cup {e}
    /\ UNCHANGED <<clock, entry, time_maps, time_id, hung>>

(* Timer::tick_time(tm) returning Some(e) ... *)
tick_time(tm, e) ==
    /\ IsFirst(e)
    /\ entry[e].tick_ms <= tm
    /\ timer_queue' = timer_queue \ {e}
    /\ time_maps' = Unbind(entry[e].time_id)
    /\ held' = held \cup {e}
    /\ UNCHANGED <<clock, entry, time_id, hung>>

(* ... and None. *)
NothingDue(tm) == \A e \in timer_queue : IsFirst(e) => tm < entry[e].tick_ms

(* The wall clock: forward with time, back when it is adjusted. *)
AdvanceClock == clock < MaxNow /\ clock' = clock + 1
Time ==
    /\ \/ AdvanceClock
       \/ \E d \in 1 .. BackStep : clock >= d /\ clock' = clock - d
    /\ UNCHANGED <<entry, timer_queue, time_maps, time_id, held, hung>>

-----------------------------------------------------------------------------
Construct ==
    \E e \in Entry : \/ \E s \in Step, p \in BOOLEAN : construct(e, new_timer(s, p))
                     \/ \E t \in AtTime : construct(e, new_timer_at(t))

AddNewTimer ==
    \E e \in Entry, s \in Step, p \in BOOLEAN : add_first_timer(e, new_timer(s, p))

AddNewTimerAt == \E e \in Entry, t \in AtTime : add_first_timer(e, new_timer_at(t))

TimerNext ==
    \/ /\ ~ hung
       /\ \/ Construct
          \/ AddNewTimer
          \/ AddNewTimerAt
          \/ \E e \in Entry, s \in Step \cup {0} : add_timer(e, s)
          \/ \E i \in Id : del_timer(i)
          \/ \E e \in held : drop_entry(e)
          \/ \E tm \in 0 .. MaxNow, e \in Entry : tick_time(tm, e)
    \/ Time

TimerSpec == TimerInit /\ [][TimerNext]_timerVars

-----------------------------------------------------------------------------
(* Every id in time_maps leads del_timer to a queued entry (timer.rs:82-84):
   the lookup never removes an id and misses the tree, whatever the program
   re-adds and however often the ids come round. *)
MappedIsQueued ==
    \A i \in DOMAIN time_maps :
        \E e \in timer_queue : entry[e].time_id = i /\ entry[e].tick_ms = time_maps[i]

(* Until the ids come round, every queued timer can be deleted: time_maps
   holds its id, at the tick it is queued under. *)
QueuedIsMapped ==
    ~ IdReuse => \A e \in timer_queue : /\ entry[e].time_id \in DOMAIN time_maps
                                        /\ time_maps[entry[e].time_id] = entry[e].tick_ms

(* Until the ids come round, an id names one timer, even when a removed or
   firing entry is added again under the id it had (timer.rs:52-55). *)
UniqueIds ==
    ~ IdReuse => \A e, f \in timer_queue \cup held :
                    (e # f /\ entry[e].time_id # 0) => entry[e].time_id # entry[f].time_id

(* calc_new_id as a loop issues exactly the id IsNewId describes, from every
   reachable table and cursor, the wrap of the u32 included (timer.rs:108-121). *)
ScanAgrees ==
    Free # {} => \A i \in Id : IsNewId(i) <=> i = scan[U32Max + 1][time_id]

(* calc_new_id spins only when as many timers are queued as there are ids: no
   id leaks from time_maps when its timer fires, is deleted or is replaced. *)
HangsOnlyWhenFull == hung => Cardinality(timer_queue) >= Cardinality(IdRange)
=============================================================================
