-------------------------- MODULE EventLoopProofs --------------------------
(***************************************************************************)
(* Proofs about the event loop, for every value of the constants of        *)
(* EventLoop: the lemmas of TimerProofs carry the invariant of the table   *)
(* through every step of the loop and of its callbacks, and the invariants *)
(* of the loop follow from what each operation of the table leaves alone.  *)
(***************************************************************************)
EXTENDS EventLoop, TimerProofs

(* What the loop holds: the entry of the running callback, and no other. *)
FiringShape ==
    /\ pc # "callback" => firing = {}
    /\ pc = "callback" => \E e \in Entry : firing = {e}
    /\ ~ IdReuse => \A e \in firing : entry[e].time_id # 0

(* Every entry has a tick_step the program gave it, or the default. *)
StepsKnown == \A e \in Entry : entry[e].tick_step \in Step \cup {0}

LoopInv == TableInv /\ LoopTypeOK /\ FiringShape /\ StepsKnown

-----------------------------------------------------------------------------
(* What each operation of the table changes, as the loop sees it. *)
LEMMA AddFirstFrame ==
    ASSUME TableInv, NEW e \in Entry, NEW rec \in EntryFields, add_first_timer(e, rec)
    PROVE  /\ e \in Vacant
           /\ timer_queue \subseteq timer_queue' /\ timer_queue' \subseteq timer_queue \cup {e}
           /\ held' = held /\ clock' = clock
           /\ \A f \in Entry : f # e => entry'[f] = entry[f]
           /\ entry'[e].tick_step \in {entry[e].tick_step, rec.tick_step}
<1>1. e \in Vacant /\ insert_new(e, rec)
  BY DEF add_first_timer
<1>2. CASE spin
  BY <1>1, <1>2 DEF spin
<1>3. CASE \E i \in Id : calc_new_id(i) /\ insert(e, [rec EXCEPT !.time_id = i])
  <2>1. PICK i \in Id : insert(e, [rec EXCEPT !.time_id = i])
    BY <1>3
  <2> DEFINE new == [rec EXCEPT !.time_id = i]
  <2>2. new.tick_step = rec.tick_step
    BY DEF EntryFields
  <2>3. /\ entry' = [entry EXCEPT ![e] = new]
        /\ timer_queue' = timer_queue \cup {e} /\ held' = held \ {e} /\ clock' = clock
    BY <2>1 DEF insert
  <2>4. held' = held
    BY <1>1, <2>3 DEF Vacant
  <2> HIDE DEF new
  <2> QED
    BY <1>1, <2>2, <2>3, <2>4 DEF TableInv, TimerTypeOK
<1> QED
  BY <1>1, <1>2, <1>3 DEF insert_new

LEMMA ConstructFrame ==
    ASSUME TableInv, NEW e \in Entry, NEW rec \in EntryFields, construct(e, rec)
    PROVE  /\ e \in Vacant
           /\ timer_queue' = timer_queue
           /\ held' = held \cup {e} /\ clock' = clock
           /\ \A f \in Entry : f # e => entry'[f] = entry[f]
           /\ entry'[e].tick_step = rec.tick_step
BY DEF construct, TableInv, TimerTypeOK

LEMMA DropFrame ==
    ASSUME TableInv, NEW e \in held, drop_entry(e)
    PROVE  /\ timer_queue' = timer_queue /\ held' = held \ {e} /\ clock' = clock
           /\ \A f \in Entry : f # e => entry'[f] = entry[f]
           /\ entry'[e].tick_step = 0
BY DEF drop_entry, TableInv, TimerTypeOK, Default

LEMMA AddTimerFrame ==
    ASSUME TableInv, NEW e \in Entry, NEW s \in Tick, add_timer(e, s)
    PROVE  /\ e \in held /\ e \notin timer_queue
           /\ timer_queue \subseteq timer_queue' /\ timer_queue' \subseteq timer_queue \cup {e}
           /\ held \ {e} \subseteq held' /\ held' \subseteq held /\ clock' = clock
           /\ \A f \in Entry : f # e => entry'[f] = entry[f]
           /\ entry'[e].tick_step \in {0, s, entry[e].tick_step}
           /\ e \in timer_queue' => /\ s # 0 /\ entry'[e].tick_ms = Later(s)
                                    /\ e \notin held'
<1>0. e \in held /\ e \notin timer_queue
  BY DEF add_timer, TableInv, Apart
<1> DEFINE rec == [entry[e] EXCEPT !.tick_step = s, !.tick_ms = Later(s)]
<1>1. rec.tick_step = s /\ rec.tick_ms = Later(s) /\ rec \in EntryFields
  <2>1. entry[e] \in EntryFields /\ Later(s) \in Tick
    BY LaterInTick DEF TableInv, TimerTypeOK
  <2> QED
    BY <2>1 DEF EntryFields
<1>2. CASE s = 0 /\ drop_entry(e)
  BY <1>0, <1>2, DropFrame
<1>3. ASSUME s # 0, NEW new, new.tick_step = s, new.tick_ms = Later(s), insert(e, new)
      PROVE  /\ timer_queue' = timer_queue \cup {e}
             /\ held' = held \ {e} /\ clock' = clock
             /\ \A f \in Entry : f # e => entry'[f] = entry[f]
             /\ entry'[e].tick_step = s /\ entry'[e].tick_ms = Later(s)
  BY <1>3 DEF insert, TableInv, TimerTypeOK
<1>4. CASE s # 0 /\ entry[e].time_id # 0 /\ insert(e, rec)
  <2> HIDE DEF rec
  <2> QED
    BY <1>0, <1>1, <1>3, <1>4
<1>5. CASE s # 0 /\ insert_new(e, rec)
  <2>1. CASE spin
    BY <1>0, <2>1 DEF spin
  <2>2. CASE \E i \in Id : calc_new_id(i) /\ insert(e, [rec EXCEPT !.time_id = i])
    <3>1. PICK i \in Id : insert(e, [rec EXCEPT !.time_id = i])
      BY <2>2
    <3>2. [rec EXCEPT !.time_id = i].tick_step = s /\ [rec EXCEPT !.time_id = i].tick_ms = Later(s)
      BY <1>1 DEF EntryFields
    <3> HIDE DEF rec
    <3> QED
      BY <1>0, <1>3, <1>5, <3>1, <3>2
  <2> QED
    BY <1>5, <2>1, <2>2 DEF insert_new
<1> QED
  BY <1>2, <1>4, <1>5 DEF add_timer

LEMMA DelFrame ==
    ASSUME TableInv, NEW i \in Id, del_timer(i)
    PROVE  /\ entry' = entry /\ clock' = clock
           /\ timer_queue' \subseteq timer_queue /\ held \subseteq held'
           /\ timer_queue' \cup held' = timer_queue \cup held
           /\ ~ IdReuse => \A e \in timer_queue' : entry[e].time_id # i
<1>1. CASE i \notin DOMAIN time_maps
  BY <1>1 DEF del_timer, timerVars, TableInv, IdInv, QueueMapped
<1>2. CASE i \in DOMAIN time_maps
  <2> DEFINE found == {e \in timer_queue : /\ entry[e].time_id = i
                                           /\ entry[e].tick_ms = time_maps[i]}
  <2>1. found # {}
    BY <1>2 DEF TableInv, MappedIsQueued
  <2>2. PICK e \in found : timer_queue' = timer_queue \ {e} /\ held' = held \cup {e}
    BY <1>2, <2>1 DEF del_timer
  <2>3. entry' = entry /\ clock' = clock
    BY <1>2 DEF del_timer
  <2>4. ASSUME ~ IdReuse, NEW f \in timer_queue' PROVE entry[f].time_id # i
    BY <2>2, <2>4 DEF TableInv, TimerTypeOK, IdInv, QueuedHaveIds, IdsDiffer
  <2> QED
    BY <2>2, <2>3, <2>4
<1> QED
  BY <1>1, <1>2

LEMMA StepsInTick == Step \cup {0} \subseteq Tick
BY InputAssumption, ClockAssumption DEF Tick

(* The step a firing timer is added again with is one the program gave. *)
LEMMA NewStepKnown ==
    ASSUME StepsKnown, NEW e \in Entry, NEW ret, NEW time \in Step \cup {0}
    PROVE  NewStep(ret, time, e) \in Step \cup {0}
BY DEF StepsKnown, NewStep

(* A step that leaves the table alone keeps its invariant. *)
LEMMA TableUnchanged == ASSUME TableInv, UNCHANGED timerVars PROVE TableInv'
<1>1. TimerTypeOK' /\ Apart' /\ MappedIsQueued'
  BY DEF timerVars, TableInv, TimerTypeOK, Apart, MappedIsQueued
<1>2. ASSUME ~ IdReuse PROVE IdInv'
  BY <1>2 DEF timerVars, TableInv, IdInv, IdsBounded, QueuedHaveIds, IdsDiffer, QueueMapped
<1> QED
  BY <1>1, <1>2 DEF TableInv

LEMMA FiringInEntry == LoopInv => firing \subseteq Entry /\ Owned \subseteq Entry
BY DEF LoopInv, LoopTypeOK, TableInv, TimerTypeOK, Owned

(* The loop and its callbacks change the table only through its operations. *)
LEMMA LoopKeepsTable == ASSUME LoopInv, [Next]_vars PROVE TableInv'
<1>0. TableInv /\ TimerTypeOK /\ StepsKnown
  BY DEF LoopInv, TableInv
<1>1. CASE add_new_timer
  BY <1>0, <1>1, AddFirstKeeps, ConstructorTypes DEF add_new_timer, AddNewTimer
<1>2. CASE add_new_timer_at
  BY <1>0, <1>2, AddFirstKeeps, ConstructorTypes DEF add_new_timer_at, AddNewTimerAt
<1>3. CASE new_entry
  BY <1>0, <1>3, ConstructKeeps, ConstructorTypes, ConstructorIds DEF new_entry, Construct
<1>4. CASE add_owned_timer
  BY <1>0, <1>4, AddTimerKeeps, StepsInTick, FiringInEntry DEF add_owned_timer
<1>5. CASE drop_owned
  BY <1>0, <1>5, DropKeeps DEF drop_owned, Owned
<1>6. CASE del
  BY <1>0, <1>6, DelKeeps DEF del
<1>7. CASE fire
  BY <1>0, <1>7, TickKeeps DEF fire
<1>8. CASE callback_return
  <2>1. PICK ret \in {"OK", "CONTINUE", "OVER"}, time \in Step \cup {0} :
               callback_returns(ret, time)
    BY <1>8 DEF callback_return
  <2>2. PICK e \in firing : drop_entry(e) \/ add_timer(e, NewStep(ret, time, e))
    BY <2>1 DEF callback_returns
  <2>3. e \in Entry /\ e \in held
    BY FiringInEntry DEF LoopInv, LoopTypeOK
  <2>4. NewStep(ret, time, e) \in Tick
    BY <1>0, <2>3, NewStepKnown, StepsInTick
  <2> QED
    BY <1>0, <2>2, <2>3, <2>4, DropKeeps, AddTimerKeeps
<1>9. CASE Clock
  BY <1>0, <1>9, TimeKeeps DEF Clock
<1>10. ASSUME \/ shutdown \/ start_run \/ start_run_once \/ loop_test \/ select_nothing
              \/ select_events \/ sockets_done \/ select_fails \/ timers_done \/ wake
              \/ UNCHANGED vars
       PROVE  TableInv'
  <2>1. UNCHANGED timerVars
    BY <1>10 DEF shutdown, start_run, start_run_once, loop_test, select_nothing,
                 select_events, sockets_done, select_fails, timers_done, wake, vars
  <2> QED
    BY <1>0, <2>1, TableUnchanged
<1> QED
  BY <1>1, <1>2, <1>3, <1>4, <1>5, <1>6, <1>7, <1>8, <1>9, <1>10 DEF Next, Calls, LoopStep

-----------------------------------------------------------------------------
(* Timing, for a clock that is not set back and sums that do not overflow: in
   a pass, now is behind the clock, the firing timer was due at now, and what
   was put back is due after it. *)
NowBehind == pc \in {"timers", "callback"} => now <= clock
FiringWasDue == \A e \in firing : entry[e].tick_ms <= now

(* Deletion, for ids that do not come round and programs whose callbacks do
   not delete their own timer. *)
DeletionInv == (~ IdReuse /\ ~ DeleteFiring) => DeletedStaysSilent

TimingInv == (BackStep = 0 /\ NoOverflow) => NowBehind /\ FiringWasDue /\ RearmedIsLater

IInv == LoopInv /\ TimingInv /\ DeletionInv

(* Everything but the table, for the step at hand. *)
Rest == LoopTypeOK /\ FiringShape /\ StepsKnown /\ TimingInv /\ DeletionInv

(* A call that leaves the entries of the tree and of the callback alone, and
   whose new entries were neither armed, firing nor deleted. *)
LEMMA AddNewKeeps ==
    ASSUME IInv, NEW e \in Entry, NEW rec \in EntryFields,
           rec.tick_step \in Step \cup {0}, add_first_timer(e, rec),
           MayCall, UNCHANGED loopVars
    PROVE  Rest'
<1>1. /\ e \in Vacant
      /\ timer_queue \subseteq timer_queue' /\ timer_queue' \subseteq timer_queue \cup {e}
      /\ held' = held /\ clock' = clock
      /\ \A f \in Entry : f # e => entry'[f] = entry[f]
      /\ entry'[e].tick_step \in {entry[e].tick_step, rec.tick_step}
  BY AddFirstFrame DEF IInv, LoopInv
<1>2. timer_queue \subseteq Entry /\ held \subseteq Entry /\ firing \subseteq held
  BY DEF IInv, LoopInv, TableInv, TimerTypeOK, LoopTypeOK
<1>3. LoopTypeOK'
  BY <1>1 DEF IInv, LoopInv, LoopTypeOK, loopVars
<1>4. FiringShape' /\ StepsKnown'
  <2>1. StepsKnown'
    BY <1>1 DEF IInv, LoopInv, StepsKnown
  <2>2. \A f \in firing : entry'[f] = entry[f]
    BY <1>1, <1>2 DEF Vacant
  <2> QED
    BY <2>1, <2>2 DEF IInv, LoopInv, FiringShape, loopVars
<1>5. TimingInv'
  <2>1. \A f \in rearmed \cup firing : entry'[f] = entry[f]
    BY <1>1, <1>2 DEF Vacant, IInv, LoopInv, LoopTypeOK
  <2> QED
    BY <1>1, <2>1 DEF IInv, TimingInv, NowBehind, FiringWasDue, RearmedIsLater, loopVars, NoOverflow
<1>6. DeletionInv'
  BY <1>1, <1>2 DEF IInv, LoopInv, LoopTypeOK, DeletionInv, DeletedStaysSilent, Vacant, loopVars
<1> QED
  BY <1>3, <1>4, <1>5, <1>6 DEF Rest

LEMMA ConstructorSteps ==
    /\ \A s \in Step, p \in BOOLEAN : new_timer(s, p).tick_step \in Step \cup {0}
    /\ \A t \in AtTime : new_timer_at(t).tick_step \in Step \cup {0}
BY DEF new_timer, new_timer_at, Default

LEMMA AddNewTimerKeeps ==
    ASSUME IInv, add_new_timer \/ add_new_timer_at PROVE Rest'
<1>1. MayCall /\ UNCHANGED loopVars
  BY DEF add_new_timer, add_new_timer_at, Call, loopVars
<1>2. TimerTypeOK
  BY DEF IInv, LoopInv, TableInv
<1>3. CASE add_new_timer
  <2>1. PICK e \in Entry, s \in Step, p \in BOOLEAN : add_first_timer(e, new_timer(s, p))
    BY <1>3 DEF add_new_timer, AddNewTimer
  <2> QED
    BY <1>1, <1>2, <2>1, AddNewKeeps, ConstructorTypes, ConstructorSteps
<1>4. CASE add_new_timer_at
  <2>1. PICK e \in Entry, t \in AtTime : add_first_timer(e, new_timer_at(t))
    BY <1>4 DEF add_new_timer_at, AddNewTimerAt
  <2> QED
    BY <1>1, <2>1, AddNewKeeps, ConstructorTypes, ConstructorSteps
<1> QED
  BY <1>3, <1>4

LEMMA NewEntryKeeps == ASSUME IInv, new_entry PROVE Rest'
<1>0. TableInv /\ TimerTypeOK
  BY DEF IInv, LoopInv, TableInv
<1>1. PICK e \in Entry, rec \in EntryFields :
            construct(e, rec) /\ rec.tick_step \in Step \cup {0}
  <2>1. CASE \E e \in Entry, s \in Step, p \in BOOLEAN : construct(e, new_timer(s, p))
    BY <1>0, <2>1, ConstructorTypes, ConstructorSteps
  <2>2. CASE \E e \in Entry, t \in AtTime : construct(e, new_timer_at(t))
    BY <2>2, ConstructorTypes, ConstructorSteps
  <2> QED
    BY <2>1, <2>2 DEF new_entry, Construct
<1>2. /\ e \in Vacant /\ timer_queue' = timer_queue
      /\ held' = held \cup {e} /\ clock' = clock
      /\ \A f \in Entry : f # e => entry'[f] = entry[f]
      /\ entry'[e].tick_step = rec.tick_step
  BY <1>0, <1>1, ConstructFrame
<1>3. UNCHANGED loopVars
  BY DEF new_entry, Call, loopVars
<1>4. timer_queue \subseteq Entry /\ held \subseteq Entry /\ firing \subseteq held
  BY <1>0 DEF IInv, LoopInv, TimerTypeOK, LoopTypeOK
<1>5. LoopTypeOK' /\ FiringShape' /\ StepsKnown'
  <2>1. LoopTypeOK' /\ StepsKnown'
    BY <1>1, <1>2, <1>3 DEF IInv, LoopInv, LoopTypeOK, StepsKnown, loopVars
  <2>2. \A f \in firing : entry'[f] = entry[f]
    BY <1>2, <1>4 DEF Vacant
  <2> QED
    BY <1>3, <2>1, <2>2 DEF IInv, LoopInv, FiringShape, loopVars
<1>6. TimingInv'
  <2>1. \A f \in rearmed \cup firing : entry'[f] = entry[f]
    BY <1>2, <1>4 DEF Vacant, IInv, LoopInv, LoopTypeOK
  <2> QED
    BY <1>2, <1>3, <2>1 DEF IInv, TimingInv, NowBehind, FiringWasDue, RearmedIsLater, loopVars, NoOverflow
<1>7. DeletionInv'
  BY <1>2, <1>3 DEF IInv, DeletionInv, DeletedStaysSilent, loopVars
<1> QED
  BY <1>5, <1>6, <1>7 DEF Rest

LEMMA AddOwnedKeeps == ASSUME IInv, add_owned_timer PROVE Rest'
<1>0. TableInv /\ LoopTypeOK
  BY DEF IInv, LoopInv
<1>1. PICK e \in Owned, s \in Step \cup {0} : add_timer(e, s)
  BY DEF add_owned_timer
<1>2. e \in Entry /\ e \notin firing /\ s \in Tick
  BY FiringInEntry, StepsInTick DEF IInv, Owned
<1>3. /\ e \in held /\ e \notin timer_queue
      /\ timer_queue \subseteq timer_queue' /\ timer_queue' \subseteq timer_queue \cup {e}
      /\ held \ {e} \subseteq held' /\ held' \subseteq held /\ clock' = clock
      /\ \A f \in Entry : f # e => entry'[f] = entry[f]
      /\ entry'[e].tick_step \in {0, s, entry[e].tick_step}
      /\ e \in timer_queue' => e \notin held'
  BY <1>0, <1>1, <1>2, AddTimerFrame
<1>4. /\ UNCHANGED <<pc, mode, run, now, size, is_op, firing, rearmed>>
      /\ deleted' = deleted \cap held'
  BY DEF add_owned_timer, Call
<1>5. timer_queue \subseteq Entry /\ held \subseteq Entry /\ firing \subseteq held
  BY <1>0 DEF TableInv, TimerTypeOK, LoopTypeOK
<1>6. LoopTypeOK' /\ FiringShape' /\ StepsKnown'
  BY <1>2, <1>3, <1>4 DEF IInv, LoopInv, LoopTypeOK, FiringShape, StepsKnown
<1>7. TimingInv'
  <2>1. \A f \in rearmed \cup firing : entry'[f] = entry[f]
    BY <1>0, <1>2, <1>3, <1>5 DEF LoopTypeOK
  <2> QED
    BY <1>3, <1>4, <2>1 DEF IInv, TimingInv, NowBehind, FiringWasDue, RearmedIsLater, NoOverflow
<1>8. DeletionInv'
  BY <1>2, <1>3, <1>4 DEF IInv, DeletionInv, DeletedStaysSilent
<1> QED
  BY <1>6, <1>7, <1>8 DEF Rest

LEMMA DropOwnedKeeps == ASSUME IInv, drop_owned PROVE Rest'
<1>0. TableInv /\ LoopTypeOK
  BY DEF IInv, LoopInv
<1>1. PICK e \in Owned : drop_entry(e) /\ deleted' = deleted \ {e}
  BY DEF drop_owned
<1>2. e \in Entry /\ e \in held /\ e \notin firing /\ e \notin timer_queue
  BY <1>0, FiringInEntry DEF IInv, Owned, TableInv, Apart
<1>3. /\ timer_queue' = timer_queue /\ held' = held \ {e} /\ clock' = clock
      /\ \A f \in Entry : f # e => entry'[f] = entry[f]
      /\ entry'[e].tick_step = 0
  BY <1>0, <1>1, <1>2, DropFrame
<1>4. UNCHANGED <<pc, mode, run, now, size, is_op, firing, rearmed>>
  BY DEF drop_owned
<1>5. LoopTypeOK' /\ FiringShape' /\ StepsKnown'
  BY <1>1, <1>2, <1>3, <1>4 DEF IInv, LoopInv, LoopTypeOK, FiringShape, StepsKnown
<1>6. TimingInv'
  <2>1. \A f \in rearmed \cup firing : entry'[f] = entry[f]
    BY <1>0, <1>2, <1>3 DEF LoopTypeOK, TableInv, TimerTypeOK
  <2> QED
    BY <1>3, <1>4, <2>1 DEF IInv, TimingInv, NowBehind, FiringWasDue, RearmedIsLater, NoOverflow
<1>7. DeletionInv'
  BY <1>1, <1>3, <1>4 DEF IInv, DeletionInv, DeletedStaysSilent
<1> QED
  BY <1>5, <1>6, <1>7 DEF Rest

LEMMA DeleteKeeps == ASSUME IInv, del PROVE Rest'
<1>0. TableInv /\ LoopTypeOK
  BY DEF IInv, LoopInv
<1>1. PICK i \in Id : /\ DeleteFiring \/ \A e \in firing : entry[e].time_id # i
                      /\ del_timer(i)
                      /\ deleted' = deleted \cup Named(i)
  BY DEF del
<1>2. /\ entry' = entry /\ clock' = clock
      /\ timer_queue' \subseteq timer_queue /\ held \subseteq held'
      /\ timer_queue' \cup held' = timer_queue \cup held
      /\ ~ IdReuse => \A e \in timer_queue' : entry[e].time_id # i
  BY <1>0, <1>1, DelFrame
<1>3. /\ UNCHANGED <<pc, mode, run, now, size, is_op, firing>>
      /\ rearmed' = rearmed \cap timer_queue'
  BY DEF del, Call
<1>4. LoopTypeOK' /\ FiringShape' /\ StepsKnown'
  BY <1>1, <1>2, <1>3 DEF IInv, LoopInv, LoopTypeOK, FiringShape, StepsKnown, Named
<1>5. TimingInv'
  BY <1>2, <1>3 DEF IInv, TimingInv, NowBehind, FiringWasDue, RearmedIsLater, NoOverflow
<1>6. DeletionInv'
  BY <1>1, <1>2, <1>3 DEF IInv, DeletionInv, DeletedStaysSilent, Named
<1> QED
  BY <1>4, <1>5, <1>6 DEF Rest

(* The entry with the least key is taken; it was due at now. *)
LEMMA FireKeeps == ASSUME IInv, fire PROVE Rest'
<1>0. TableInv /\ LoopTypeOK
  BY DEF IInv, LoopInv
<1>1. PICK e \in Entry : tick_time(now, e) /\ firing' = {e} /\ rearmed' = rearmed \ {e}
  BY DEF fire
<1>2. /\ e \in timer_queue /\ entry[e].tick_ms <= now
      /\ timer_queue' = timer_queue \ {e} /\ held' = held \cup {e}
      /\ entry' = entry /\ clock' = clock
  BY <1>1 DEF tick_time, IsFirst
<1>3. /\ pc = "timers" /\ pc' = "callback" /\ is_op' = TRUE
      /\ UNCHANGED <<mode, run, now, size, deleted>>
  BY DEF fire, Goto
<1>4. LoopTypeOK' /\ FiringShape' /\ StepsKnown'
  <2>1. LoopTypeOK' /\ StepsKnown'
    BY <1>1, <1>2, <1>3 DEF IInv, LoopInv, LoopTypeOK, StepsKnown, Points
  <2>2. ~ IdReuse => entry[e].time_id # 0
    BY <1>0, <1>2 DEF TableInv, IdInv, QueuedHaveIds
  <2> QED
    BY <1>1, <1>2, <1>3, <2>1, <2>2 DEF FiringShape
<1>5. TimingInv'
  BY <1>1, <1>2, <1>3 DEF IInv, TimingInv, NowBehind, FiringWasDue, RearmedIsLater, NoOverflow
<1>6. DeletionInv'
  BY <1>1, <1>2, <1>3 DEF IInv, DeletionInv, DeletedStaysSilent
<1> QED
  BY <1>4, <1>5, <1>6 DEF Rest

(* What is put back is due after now: the step is not 0 and the clock did not
   go back. *)
LEMMA ReturnKeeps == ASSUME IInv, callback_return PROVE Rest'
<1>0. TableInv /\ LoopTypeOK /\ StepsKnown
  BY DEF IInv, LoopInv
<1>1. PICK ret \in {"OK", "CONTINUE", "OVER"}, time \in Step \cup {0} : callback_returns(ret, time)
  BY DEF callback_return
<1>2. PICK e \in firing : /\ drop_entry(e) \/ add_timer(e, NewStep(ret, time, e))
                          /\ rearmed' = rearmed \cup (timer_queue' \ timer_queue)
  BY <1>1 DEF callback_returns
<1>3. /\ pc = "callback" /\ pc' = "timers" /\ firing' = {}
      /\ deleted' = deleted \cap (timer_queue' \cup held')
      /\ UNCHANGED <<mode, run, now, size, is_op>>
  BY <1>1 DEF callback_returns, Goto
<1> DEFINE s == NewStep(ret, time, e)
<1>4. e \in Entry /\ e \in held /\ e \notin timer_queue
  BY <1>0, <1>2, FiringInEntry DEF IInv, LoopTypeOK, TableInv, Apart
<1>5. s \in Step \cup {0} /\ s \in Tick
  BY <1>0, <1>4, NewStepKnown, StepsInTick
<1> HIDE DEF s
<1>6. /\ timer_queue \subseteq timer_queue' /\ timer_queue' \subseteq timer_queue \cup {e}
      /\ clock' = clock
      /\ \A f \in Entry : f # e => entry'[f] = entry[f]
      /\ entry'[e].tick_step \in {0, s, entry[e].tick_step}
      /\ e \in timer_queue' => s # 0 /\ entry'[e].tick_ms = Later(s)
  <2>1. CASE drop_entry(e)
    BY <1>0, <1>4, <2>1, DropFrame
  <2>2. CASE add_timer(e, s)
    BY <1>0, <1>4, <1>5, <2>2, AddTimerFrame
  <2> QED
    BY <1>2, <2>1, <2>2 DEF s
<1>7. timer_queue \subseteq Entry /\ clock \in 0 .. MaxNow
  BY <1>0 DEF TableInv, TimerTypeOK
<1>8. LoopTypeOK'
  BY <1>2, <1>3, <1>6 DEF IInv, LoopInv, LoopTypeOK, Points
<1>9. FiringShape' /\ StepsKnown'
  BY <1>0, <1>3, <1>5, <1>6 DEF FiringShape, StepsKnown
<1>10. TimingInv'
  <2> SUFFICES ASSUME BackStep = 0, NoOverflow
               PROVE  NowBehind' /\ FiringWasDue' /\ RearmedIsLater'
    BY DEF TimingInv, NoOverflow
  <2>1. NowBehind /\ RearmedIsLater
    BY DEF IInv, TimingInv
  <2>2. \A f \in timer_queue : entry'[f].tick_ms = entry[f].tick_ms
    BY <1>4, <1>6, <1>7
  <2>3. e \in timer_queue' => entry'[e].tick_ms > now
    <3> SUFFICES ASSUME e \in timer_queue' PROVE Later(s) > now
      BY <1>6
    <3>1. s \in Step /\ s \in 1 .. U64Max /\ MaxNow + s <= U64Max
      BY <1>5, <1>6 DEF Tick, NoOverflow
    <3>2. Later(s) = clock + s
      BY <3>1, <1>7, ClockAssumption DEF Later
    <3>3. now <= clock /\ now \in Int /\ clock \in Int
      BY <1>0, <1>3, <1>7, <2>1 DEF NowBehind, LoopTypeOK
    <3> QED
      BY <3>1, <3>2, <3>3
  <2>4. RearmedIsLater'
    BY <1>0, <1>2, <1>3, <1>6, <2>1, <2>2, <2>3 DEF RearmedIsLater, LoopTypeOK
  <2>5. NowBehind' /\ FiringWasDue'
    BY <1>3, <1>6, <2>1 DEF NowBehind, FiringWasDue
  <2> QED
    BY <2>4, <2>5
<1>11. DeletionInv'
  <2> SUFFICES ASSUME ~ IdReuse, ~ DeleteFiring PROVE DeletedStaysSilent'
    BY DEF DeletionInv
  <2>1. deleted \cap (timer_queue \cup firing) = {}
    BY DEF IInv, DeletionInv, DeletedStaysSilent
  <2> QED
    BY <1>2, <1>3, <1>6, <2>1 DEF DeletedStaysSilent
<1> QED
  BY <1>8, <1>9, <1>10, <1>11 DEF Rest

(* Steps of the loop that leave the table alone: either the pass goes on, or
   it begins by reading the clock, or the thread is outside a pass. *)
LEMMA ControlKeeps ==
    ASSUME IInv,
           \/ shutdown \/ start_run \/ start_run_once \/ loop_test \/ select_nothing
           \/ select_events \/ sockets_done \/ select_fails \/ timers_done \/ wake
           \/ UNCHANGED vars
    PROVE  Rest'
<1>0. /\ LoopTypeOK /\ FiringShape /\ StepsKnown
      /\ clock \in 0 .. MaxNow /\ 0 \in 0 .. MaxNow
  BY ClockAssumption DEF IInv, LoopInv, TableInv, TimerTypeOK
<1>1. UNCHANGED timerVars /\ firing' = firing /\ deleted' = deleted
  BY DEF shutdown, Call, start_run, start_run_once, loop_test, select_nothing,
         select_events, sockets_done, select_fails, timers_done, wake, vars, loopVars
<1> DEFINE Stays == UNCHANGED <<pc, mode, now, size, is_op, rearmed>> /\ run' \in BOOLEAN
           Begins == /\ pc' = "timers" /\ now' = clock /\ rearmed' = {} /\ firing = {}
                     /\ is_op' = FALSE /\ size' \in 0 .. MaxSize /\ UNCHANGED <<mode, run>>
           Outside == /\ pc' \in Points \ {"timers", "callback"} /\ firing = {}
                      /\ mode' \in {"run", "run_once"} /\ run' \in BOOLEAN
                      /\ now' \in 0 .. MaxNow /\ size' \in 0 .. MaxSize
                      /\ is_op' \in BOOLEAN /\ rearmed' \subseteq timer_queue
<1>2. Stays \/ Begins \/ Outside
  <2>1. CASE shutdown
    BY <2>1 DEF shutdown, Call
  <2>2. CASE start_run \/ start_run_once \/ loop_test \/ select_fails \/ wake
    BY <1>0, <2>2 DEF start_run, start_run_once, loop_test, select_fails, wake, Goto,
                      LoopTypeOK, FiringShape, Points
  <2>3. CASE select_nothing \/ sockets_done
    <3>1. 0 \in 0 .. MaxSize
      BY OpsAssumption
    <3> QED
      BY <1>0, <2>3, <3>1 DEF select_nothing, sockets_done, Goto, ReadNow, LoopTypeOK, FiringShape
  <2>4. CASE select_events
    <3>1. 1 .. MaxSize \subseteq 0 .. MaxSize
      BY OpsAssumption
    <3> QED
      BY <1>0, <2>4, <3>1 DEF select_events, Goto, LoopTypeOK, FiringShape, Points
  <2>5. CASE timers_done
    <3>1. 0 \in 0 .. MaxSize
      BY OpsAssumption
    <3>2. /\ pc = "timers" /\ pc' \in {"out", "loop", "sleep"}
          /\ now' = 0 /\ size' = 0 /\ is_op' = FALSE /\ rearmed' = {}
          /\ UNCHANGED <<mode, run>>
      BY <2>5 DEF timers_done, Goto
    <3> QED
      BY <1>0, <3>1, <3>2 DEF LoopTypeOK, FiringShape, Points
  <2>6. CASE UNCHANGED vars
    BY <1>0, <2>6 DEF vars, loopVars, LoopTypeOK
  <2> QED
    BY <2>1, <2>2, <2>3, <2>4, <2>5, <2>6
<1>3. LoopTypeOK' /\ FiringShape' /\ StepsKnown'
  BY <1>0, <1>1, <1>2 DEF LoopTypeOK, FiringShape, StepsKnown, timerVars, Points
<1>4. TimingInv'
  <2> SUFFICES ASSUME BackStep = 0, NoOverflow
               PROVE  NowBehind' /\ FiringWasDue' /\ RearmedIsLater'
    BY DEF TimingInv, NoOverflow
  <2>1. NowBehind /\ FiringWasDue /\ RearmedIsLater
    BY DEF IInv, TimingInv
  <2> QED
    BY <1>0, <1>1, <1>2, <2>1 DEF NowBehind, FiringWasDue, RearmedIsLater, timerVars
<1>5. DeletionInv'
  BY <1>1 DEF IInv, DeletionInv, DeletedStaysSilent, timerVars
<1> QED
  BY <1>3, <1>4, <1>5 DEF Rest

LEMMA ClockKeeps == ASSUME IInv, Clock PROVE Rest'
<1>1. /\ UNCHANGED loopVars
      /\ UNCHANGED <<entry, timer_queue, time_maps, time_id, held, hung>>
      /\ clock' = clock + 1 \/ \E d \in 1 .. BackStep : clock' = clock - d
  BY DEF Clock, Time, AdvanceClock
<1>2. LoopTypeOK' /\ FiringShape' /\ StepsKnown'
  BY <1>1 DEF IInv, LoopInv, LoopTypeOK, FiringShape, StepsKnown, loopVars
<1>3. TimingInv'
  <2> SUFFICES ASSUME BackStep = 0, NoOverflow
               PROVE  NowBehind' /\ FiringWasDue' /\ RearmedIsLater'
    BY DEF TimingInv, NoOverflow
  <2>1. clock' = clock + 1 /\ clock \in Int /\ now \in Int
    BY <1>1 DEF IInv, LoopInv, LoopTypeOK, TableInv, TimerTypeOK
  <2> QED
    BY <1>1, <2>1 DEF IInv, TimingInv, NowBehind, FiringWasDue, RearmedIsLater, loopVars
<1>4. DeletionInv'
  BY <1>1 DEF IInv, DeletionInv, DeletedStaysSilent, loopVars
<1> QED
  BY <1>2, <1>3, <1>4 DEF Rest

LEMMA IInvInit == Init => IInv
<1> SUFFICES ASSUME Init PROVE IInv
  OBVIOUS
<1>1. TableInv
  BY TableInvInit DEF Init
<1>2. LoopTypeOK
  <2>1. now \in 0 .. MaxNow /\ size \in 0 .. MaxSize
    BY ClockAssumption, OpsAssumption DEF Init
  <2>2. run \in BOOLEAN /\ is_op \in BOOLEAN /\ mode \in {"run", "run_once"} /\ pc \in Points
    BY DEF Init, Points
  <2>3. firing \subseteq held /\ rearmed \subseteq timer_queue
        /\ deleted \subseteq timer_queue \cup held
    BY DEF Init
  <2> QED
    BY <2>1, <2>2, <2>3 DEF LoopTypeOK
<1>3. FiringShape /\ TimingInv /\ DeletionInv
  BY DEF Init, FiringShape, TimingInv, NowBehind, FiringWasDue, RearmedIsLater, DeletionInv,
         DeletedStaysSilent
<1>4. StepsKnown
  BY DEF Init, TimerInit, StepsKnown, Default
<1> QED
  BY <1>1, <1>2, <1>3, <1>4 DEF IInv, LoopInv

LEMMA IInvNext == IInv /\ [Next]_vars => IInv'
<1> SUFFICES ASSUME IInv, [Next]_vars PROVE IInv'
  OBVIOUS
<1>1. TableInv'
  BY LoopKeepsTable DEF IInv
<1>2. Rest'
  BY AddNewTimerKeeps, NewEntryKeeps, AddOwnedKeeps, DropOwnedKeeps, DeleteKeeps, FireKeeps,
     ReturnKeeps, ControlKeeps, ClockKeeps DEF Next, Calls, LoopStep
<1> QED
  BY <1>1, <1>2 DEF IInv, LoopInv, Rest

LEMMA IInvAlways == Spec => []IInv
BY IInvInit, IInvNext, PTL DEF Spec

-----------------------------------------------------------------------------
(* Every variable of the loop and of the table keeps its type. *)
THEOREM LoopTypeCorrect == Spec => []TypeOK
<1>1. IInv => TypeOK
  BY DEF IInv, LoopInv, TableInv, TypeOK
<1> QED
  BY <1>1, IInvAlways, PTL

(* With a clock that is not set back, no timer fires before its deadline. *)
THEOREM LoopNeverEarly ==
    ASSUME BackStep = 0, NoOverflow PROVE Spec => []NeverEarly
<1>1. IInv => NeverEarly
  <2> SUFFICES ASSUME IInv, NEW e \in firing PROVE entry[e].tick_ms <= clock
    BY DEF NeverEarly
  <2>1. pc = "callback" /\ now <= clock /\ entry[e].tick_ms <= now
    BY DEF IInv, LoopInv, FiringShape, TimingInv, NowBehind, FiringWasDue
  <2>2. entry[e].tick_ms \in Int /\ now \in Int /\ clock \in Int
    BY FiringInEntry DEF IInv, LoopInv, LoopTypeOK, TableInv, TimerTypeOK, EntryFields, Tick
  <2> QED
    BY <2>1, <2>2
<1> QED
  BY <1>1, IInvAlways, PTL

(* With a clock that is not set back, no timer fires twice in one pass, whatever
   the callbacks of the pass add, delete or return. *)
THEOREM LoopOncePerPass ==
    ASSUME BackStep = 0, NoOverflow PROVE Spec => OncePerPass
<1>1. IInv /\ [Next]_vars => [fire => firing' \cap rearmed = {}]_vars
  <2> SUFFICES ASSUME IInv, fire PROVE firing' \cap rearmed = {}
    OBVIOUS
  <2>1. PICK e \in Entry : tick_time(now, e) /\ firing' = {e}
    BY DEF fire
  <2>2. entry[e].tick_ms <= now /\ pc = "timers"
    BY <2>1 DEF fire, Goto, tick_time
  <2>3. e \in rearmed => entry[e].tick_ms > now
    BY <2>2 DEF IInv, TimingInv, RearmedIsLater
  <2>4. entry[e].tick_ms \in Int /\ now \in Int
    BY DEF IInv, LoopInv, LoopTypeOK, TableInv, TimerTypeOK, EntryFields, Tick
  <2> QED
    BY <2>1, <2>2, <2>3, <2>4
<1> QED
  BY <1>1, IInvAlways, PTL DEF Spec, OncePerPass

(* del_timer is final, until the ids come round, for every program that leaves
   the deletion of a firing timer to its return value. *)
THEOREM LoopDeletedStaysSilent ==
    ASSUME ~ IdReuse, ~ DeleteFiring PROVE Spec => []DeletedStaysSilent
<1>1. IInv => DeletedStaysSilent
  BY DEF IInv, DeletionInv
<1> QED
  BY <1>1, IInvAlways, PTL

-----------------------------------------------------------------------------
(* Refinement of TimerService.  Every operation of the table that changes
   time_maps is a step of the service. *)
MappedIds == DOMAIN time_maps \subseteq 1 .. time_id

LEMMA MappedIdsHold == ASSUME TableInv, ~ IdReuse PROVE MappedIds
<1> SUFFICES ASSUME NEW i \in DOMAIN time_maps PROVE i \in 1 .. time_id
  BY DEF MappedIds
<1>1. PICK e \in timer_queue : entry[e].time_id = i
  BY DEF TableInv, MappedIsQueued
<1>2. e \in Entry /\ entry[e].time_id \in Id /\ time_id \in Id
  BY DEF TableInv, TimerTypeOK, EntryFields
<1>3. entry[e].time_id # 0 /\ entry[e].time_id <= time_id
  BY <1>2 DEF TableInv, IdInv, QueuedHaveIds, IdsBounded
<1> QED
  BY <1>1, <1>2, <1>3 DEF Id

(* The ids are issued one after the other. *)
LEMMA NewIdIsNext ==
    ASSUME TableInv, ~ IdReuse, NEW i \in Id, calc_new_id(i)
    PROVE  i = time_id + 1 /\ time_id' = time_id + 1 /\ time_id \in Nat
<1>1. i \in Free /\ i > time_id /\ time_id' = i /\ \A j \in Free : j <= time_id \/ j >= i
  BY DEF calc_new_id, IsNewId
<1>2. time_id \in Nat /\ i \in Nat
  BY IdAssumption DEF TableInv, TimerTypeOK, Id
<1>3. time_id + 1 \in Free
  <2>1. time_id + 1 \in IdRange
    <3>1. i \in IdRange
      BY <1>1 DEF Free
    <3> QED
      BY <1>1, <1>2, <3>1, IdAssumption DEF IdRange, Id
  <2>2. time_id + 1 \notin DOMAIN time_maps
    BY <1>2, MappedIdsHold DEF MappedIds
  <2> QED
    BY <2>1, <2>2 DEF Free
<1> QED
  BY <1>1, <1>2, <1>3

ServiceStep == [Service!Next]_<<clock, 1 .. time_id, time_maps, FiringIds>>

LEMMA FiringIdsKept ==
    ASSUME firing' = firing, \A f \in firing : entry'[f] = entry[f]
    PROVE  FiringIds' = FiringIds
BY DEF FiringIds

LEMMA InsertNewServes ==
    ASSUME TableInv, ~ IdReuse, NEW e \in Entry, NEW rec \in EntryFields, insert_new(e, rec),
           FiringIds' = FiringIds
    PROVE  ServiceStep
<1>1. CASE spin
  BY <1>1 DEF spin, ServiceStep
<1>2. CASE \E i \in Id : calc_new_id(i) /\ insert(e, [rec EXCEPT !.time_id = i])
  <2>1. PICK i \in Id : calc_new_id(i) /\ insert(e, [rec EXCEPT !.time_id = i])
    BY <1>2
  <2>2. [rec EXCEPT !.time_id = i].time_id = i /\ [rec EXCEPT !.time_id = i].tick_ms = rec.tick_ms
        /\ rec.tick_ms \in Tick
    BY DEF EntryFields
  <2>3. time_maps' = Bind(i, rec.tick_ms) /\ clock' = clock
    BY <2>1, <2>2 DEF insert
  <2>4. i = time_id + 1 /\ time_id' = time_id + 1 /\ time_id \in Nat
    BY <2>1, NewIdIsNext
  <2>5. i \notin 1 .. time_id /\ (1 .. time_id)' = (1 .. time_id) \cup {i}
    BY <2>4
  <2>6. Service!New(i, rec.tick_ms)
    BY <2>3, <2>5 DEF Service!New, Service!Arms, Bind
  <2> QED
    BY <2>2, <2>6 DEF ServiceStep, Service!Next
<1> QED
  BY <1>1, <1>2 DEF insert_new

(* What add_timer does to the armed ids when it keeps the id of its entry. *)
LEMMA AddTimerArms ==
    ASSUME TableInv, ~ IdReuse, NEW e \in Entry, NEW s \in Tick, add_timer(e, s),
           entry[e].time_id # 0
    PROVE  LET i == entry[e].time_id IN
           /\ i \in 1 .. time_id /\ i \in Id /\ i \notin DOMAIN time_maps
           /\ UNCHANGED <<clock, time_id>>
           /\ UNCHANGED time_maps \/ \E t \in Tick : Service!Arms(i, t)
<1> DEFINE rec == [entry[e] EXCEPT !.tick_step = s, !.tick_ms = Later(s)]
<1>1. rec \in EntryFields /\ rec.time_id = entry[e].time_id
  <2>1. entry[e] \in EntryFields /\ Later(s) \in Tick
    BY LaterInTick DEF TableInv, TimerTypeOK
  <2> QED
    BY <2>1 DEF EntryFields
<1> DEFINE i == entry[e].time_id
<1>2. i \in 1 .. time_id /\ i \in Id
  <2>1. entry[e].time_id \in Id /\ time_id \in Id /\ entry[e].time_id <= time_id
    BY DEF TableInv, TimerTypeOK, IdInv, IdsBounded, EntryFields
  <2> QED
    BY <2>1 DEF Id
<1>3. i \notin DOMAIN time_maps
  <2>1. e \in held /\ e \notin timer_queue
    BY DEF add_timer, TableInv, Apart
  <2>2. \A f \in timer_queue : entry[f].time_id # i
    BY <2>1 DEF TableInv, TimerTypeOK, IdInv, IdsDiffer
  <2> QED
    BY <2>2 DEF TableInv, MappedIsQueued
<1>4. CASE drop_entry(e)
  BY <1>2, <1>3, <1>4 DEF drop_entry
<1>5. CASE insert(e, rec) /\ UNCHANGED <<time_id, hung>>
  <2>1. time_maps' = Bind(i, rec.tick_ms) /\ clock' = clock /\ time_id' = time_id
    BY <1>1, <1>5 DEF insert
  <2>2. rec.tick_ms \in Tick
    <3> HIDE DEF rec
    <3> QED
      BY <1>1 DEF EntryFields
  <2> HIDE DEF rec
  <2>3. Service!Arms(i, rec.tick_ms)
    BY <2>1 DEF Service!Arms, Bind
  <2> QED
    BY <1>2, <1>3, <2>1, <2>2, <2>3
<1> QED
  BY <1>4, <1>5 DEF add_timer

(* add_timer called by the program, with an entry that is not firing. *)
LEMMA AddOwnedServes ==
    ASSUME IInv, ~ IdReuse, NEW e \in Owned, NEW s \in Tick, add_timer(e, s), firing' = firing
    PROVE  ServiceStep
<1>0. TableInv /\ e \in Entry /\ e \notin firing /\ firing \subseteq Entry
  BY FiringInEntry DEF IInv, LoopInv, Owned
<1>1. FiringIds' = FiringIds
  BY <1>0, AddTimerFrame, FiringIdsKept
<1>2. CASE entry[e].time_id = 0
  <2>1. CASE drop_entry(e)
    BY <1>1, <2>1 DEF drop_entry, ServiceStep
  <2>2. CASE insert_new(e, [entry[e] EXCEPT !.tick_step = s, !.tick_ms = Later(s)])
    <3>1. [entry[e] EXCEPT !.tick_step = s, !.tick_ms = Later(s)] \in EntryFields
      <4>1. entry[e] \in EntryFields /\ Later(s) \in Tick
        BY <1>0, LaterInTick DEF TableInv, TimerTypeOK
      <4> QED
        BY <4>1 DEF EntryFields
    <3> QED
      BY <1>0, <1>1, <2>2, <3>1, InsertNewServes
  <2> QED
    BY <1>2, <2>1, <2>2 DEF add_timer
<1>3. CASE entry[e].time_id # 0
  <2> DEFINE i == entry[e].time_id
  <2>1. /\ i \in 1 .. time_id /\ i \in Id /\ i \notin DOMAIN time_maps
        /\ UNCHANGED <<clock, time_id>>
        /\ UNCHANGED time_maps \/ \E t \in Tick : Service!Arms(i, t)
    BY <1>0, <1>3, AddTimerArms
  <2>2. i \notin FiringIds
    BY <1>0, <1>3 DEF FiringIds, TableInv, IdInv, IdsDiffer
  <2>3. CASE UNCHANGED time_maps
    BY <1>1, <2>1, <2>3 DEF ServiceStep
  <2>4. ASSUME NEW t \in Tick, Service!Arms(i, t) PROVE ServiceStep
    <3>1. Service!Again(i, t)
      BY <1>1, <2>1, <2>2, <2>4 DEF Service!Again
    <3> QED
      BY <2>1, <3>1 DEF ServiceStep, Service!Next
  <2> QED
    BY <2>1, <2>3, <2>4
<1> QED
  BY <1>2, <1>3

(* A callback returning: its id, which is not 0, is kept or let go. *)
LEMMA ReturnServes == ASSUME IInv, ~ IdReuse, callback_return PROVE ServiceStep
<1>0. TableInv /\ StepsKnown
  BY DEF IInv, LoopInv
<1>1. PICK ret \in {"OK", "CONTINUE", "OVER"}, time \in Step \cup {0} : callback_returns(ret, time)
  BY DEF callback_return
<1>2. PICK e \in firing : drop_entry(e) \/ add_timer(e, NewStep(ret, time, e))
  BY <1>1 DEF callback_returns
<1>3. pc = "callback" /\ firing' = {}
  BY <1>1 DEF callback_returns, Goto
<1> DEFINE i == entry[e].time_id
<1>4. e \in Entry /\ firing = {e} /\ i # 0 /\ i \in Id
  BY <1>0, <1>2, <1>3, FiringInEntry
     DEF IInv, LoopInv, FiringShape, TableInv, TimerTypeOK, EntryFields
<1>5. FiringIds = {i} /\ FiringIds' = {}
  BY <1>3, <1>4 DEF FiringIds
<1>6. /\ UNCHANGED <<clock, time_id>>
      /\ UNCHANGED time_maps \/ (i \notin DOMAIN time_maps /\ \E t \in Tick : Service!Arms(i, t))
  <2>1. CASE drop_entry(e)
    BY <2>1 DEF drop_entry
  <2>2. CASE add_timer(e, NewStep(ret, time, e))
    <3>1. NewStep(ret, time, e) \in Tick
      BY <1>0, <1>4, NewStepKnown, StepsInTick
    <3> QED
      BY <1>0, <1>4, <2>2, <3>1, AddTimerArms
  <2> QED
    BY <1>2, <2>1, <2>2
<1>7. Service!Return(i)
  BY <1>5, <1>6 DEF Service!Return
<1> QED
  BY <1>4, <1>7 DEF ServiceStep, Service!Next

LEMMA DelServes ==
    ASSUME TableInv, NEW i \in Id, del_timer(i), FiringIds' = FiringIds PROVE ServiceStep
<1>1. CASE i \notin DOMAIN time_maps
  BY <1>1 DEF del_timer, timerVars, ServiceStep
<1>2. CASE i \in DOMAIN time_maps
  <2>1. time_maps' = Unbind(i) /\ clock' = clock /\ time_id' = time_id
    BY <1>2 DEF del_timer
  <2>2. Service!Cancel(i)
    BY <1>2, <2>1 DEF Service!Cancel, Service!Disarms, Unbind
  <2> QED
    BY <2>2 DEF ServiceStep, Service!Next
<1> QED
  BY <1>1, <1>2

(* The entry of the least key has the least deadline of all armed ids, and it
   was due at now, which the clock has passed. *)
LEMMA FireServes ==
    ASSUME IInv, ~ IdReuse, BackStep = 0, NoOverflow, fire PROVE ServiceStep
<1>0. TableInv
  BY DEF IInv, LoopInv
<1>1. PICK e \in Entry : tick_time(now, e) /\ firing' = {e}
  BY DEF fire
<1> DEFINE i == entry[e].time_id
<1>2. /\ e \in timer_queue /\ entry[e].tick_ms <= now
      /\ \A f \in timer_queue : ~ KeyBefore(f, e)
      /\ time_maps' = Unbind(i) /\ clock' = clock /\ time_id' = time_id
  BY <1>1 DEF tick_time, IsFirst
<1>3. i \in DOMAIN time_maps /\ time_maps[i] = entry[e].tick_ms
  BY <1>0, <1>2 DEF TableInv, IdInv, QueueMapped
<1>4. timer_queue \subseteq Entry /\ \A f \in Entry : entry[f].tick_ms \in Int
  BY <1>0 DEF TableInv, TimerTypeOK, EntryFields, Tick
<1>5. ASSUME NEW j \in DOMAIN time_maps PROVE time_maps[i] <= time_maps[j]
  <2>1. PICK f \in timer_queue : entry[f].time_id = j /\ entry[f].tick_ms = time_maps[j]
    BY <1>0 DEF TableInv, MappedIsQueued
  <2>2. ~ (entry[f].tick_ms < entry[e].tick_ms)
    BY <1>2, <2>1 DEF KeyBefore
  <2> QED
    BY <1>3, <1>4, <2>1, <2>2
<1>6. time_maps[i] <= clock
  <2>1. pc = "timers" /\ now <= clock
    BY DEF fire, Goto, IInv, TimingInv, NowBehind
  <2>2. now \in Int /\ clock \in Int
    BY DEF IInv, LoopInv, LoopTypeOK, TableInv, TimerTypeOK
  <2> QED
    BY <1>2, <1>3, <1>4, <2>1, <2>2
<1>7. i \in Id
  BY <1>0 DEF TableInv, TimerTypeOK, EntryFields
<1>8. FiringIds = {} /\ FiringIds' = {i}
  <2>1. firing = {} /\ entry' = entry
    BY <1>1 DEF fire, Goto, IInv, LoopInv, FiringShape, tick_time
  <2> QED
    BY <1>1, <2>1 DEF FiringIds
<1>9. Service!Fire(i)
  BY <1>2, <1>3, <1>5, <1>6, <1>8 DEF Service!Fire, Service!Disarms, Unbind
<1> QED
  BY <1>7, <1>9 DEF ServiceStep, Service!Next

LEMMA ServiceInit == Init => Service!Init
<1> SUFFICES ASSUME Init PROVE Service!Init
  OBVIOUS
<1>1. clock = 0 /\ 1 .. time_id = {} /\ time_maps = [i \in {} |-> 0] /\ FiringIds = {}
  BY DEF Init, TimerInit, FiringIds
<1> QED
  BY <1>1 DEF Service!Init

LEMMA ServiceNext ==
    ASSUME ~ IdReuse, BackStep = 0, NoOverflow, IInv, [Next]_vars PROVE ServiceStep
<1>0. /\ TableInv /\ TimerTypeOK /\ StepsKnown /\ clock \in Int
      /\ firing \subseteq held /\ firing \subseteq Entry
  BY DEF IInv, LoopInv, TableInv, TimerTypeOK, LoopTypeOK
<1>1. CASE add_new_timer \/ add_new_timer_at
  <2>1. PICK e \in Entry, rec \in EntryFields : add_first_timer(e, rec)
    BY <1>0, <1>1, ConstructorTypes DEF add_new_timer, AddNewTimer, add_new_timer_at, AddNewTimerAt
  <2>2. FiringIds' = FiringIds
    <3>1. firing' = firing
      BY <1>1 DEF add_new_timer, add_new_timer_at, Call
    <3>2. e \in Vacant /\ \A f \in Entry : f # e => entry'[f] = entry[f]
      BY <1>0, <2>1, AddFirstFrame
    <3> QED
      BY <1>0, <3>1, <3>2, FiringIdsKept DEF Vacant
  <2> QED
    BY <1>0, <2>1, <2>2, InsertNewServes DEF add_first_timer
<1>3. CASE add_owned_timer
  BY <1>3, AddOwnedServes, StepsInTick DEF add_owned_timer, Call
<1>4. CASE new_entry \/ drop_owned
  <2>1. UNCHANGED <<clock, time_id, time_maps, firing>>
    BY <1>4 DEF new_entry, Call, Construct, construct, drop_owned, drop_entry
  <2>2. \A f \in firing : entry'[f] = entry[f]
    <3>1. CASE new_entry
      BY <1>0, <3>1 DEF new_entry, Construct, construct, Vacant, TimerTypeOK
    <3>2. CASE drop_owned
      BY <1>0, <3>2 DEF drop_owned, drop_entry, Owned, TimerTypeOK
    <3> QED
      BY <1>4, <3>1, <3>2
  <2> QED
    BY <2>1, <2>2, FiringIdsKept DEF ServiceStep
<1>5. CASE del
  <2>1. PICK i \in Id : del_timer(i)
    BY <1>5 DEF del
  <2>2. entry' = entry /\ firing' = firing
    BY <1>0, <1>5, <2>1, DelFrame DEF del, Call
  <2> QED
    BY <1>0, <2>1, <2>2, FiringIdsKept, DelServes
<1>6. CASE fire
  BY <1>6, FireServes
<1>7. CASE callback_return
  BY <1>7, ReturnServes
<1>8. CASE Clock
  <2>1. clock' = clock + 1 /\ UNCHANGED <<time_id, time_maps, FiringIds>>
    BY <1>8, FiringIdsKept DEF Clock, Time, AdvanceClock, loopVars
  <2>2. Service!Passes
    BY <1>0, <2>1 DEF Service!Passes
  <2> QED
    BY <2>2 DEF ServiceStep, Service!Next
<1>9. ASSUME \/ shutdown \/ start_run \/ start_run_once \/ loop_test \/ select_nothing
             \/ select_events \/ sockets_done \/ select_fails \/ timers_done \/ wake
             \/ UNCHANGED vars
      PROVE  ServiceStep
  <2>1. UNCHANGED timerVars /\ firing' = firing
    BY <1>9 DEF shutdown, Call, start_run, start_run_once, loop_test, select_nothing,
                select_events, sockets_done, select_fails, timers_done, wake, vars, loopVars
  <2> QED
    BY <2>1, FiringIdsKept DEF timerVars, ServiceStep
<1> QED
  BY <1>1, <1>3, <1>4, <1>5, <1>6, <1>7, <1>8, <1>9 DEF Next, Calls, LoopStep

(* Until the ids come round, and with a clock that is not set back, the loop
   with its tree and its map is the timer service TimerService describes. *)
THEOREM LoopImplementsService ==
    ASSUME ~ IdReuse, BackStep = 0, NoOverflow PROVE Spec => ImplementsTimerService
<1>1. IInv /\ [Next]_vars => [Service!Next]_<<clock, 1 .. time_id, time_maps, FiringIds>>
  BY ServiceNext DEF ServiceStep
<1> QED
  BY <1>1, ServiceInit, IInvAlways, PTL
     DEF Spec, ImplementsTimerService, Service!Spec, Service!serviceVars
=============================================================================
