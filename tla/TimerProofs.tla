---------------------------- MODULE TimerProofs ----------------------------
(***************************************************************************)
(* Proofs about the timer table, for every value of the constants of       *)
(* Timer.  The inductive invariant TableInv says that the tree and the     *)
(* hash map hold the same timers, and, as long as the ids do not come      *)
(* round, that no two entries share an id.  It is proved operation by      *)
(* operation, so that a module that calls the same operations can use the  *)
(* lemmas.                                                                 *)
(***************************************************************************)
EXTENDS Timer, FiniteSetTheorems, TLAPS

Apart == timer_queue \cap held = {}

(* Ids of entries: none beyond the cursor, none 0 in the tree, no two equal. *)
IdsBounded == \A e \in Entry : entry[e].time_id <= time_id
QueuedHaveIds == \A e \in timer_queue : entry[e].time_id # 0
IdsDiffer == \A e, f \in Entry :
                (e # f /\ entry[e].time_id # 0) => entry[e].time_id # entry[f].time_id

QueueMapped == \A e \in timer_queue : /\ entry[e].time_id \in DOMAIN time_maps
                                      /\ time_maps[entry[e].time_id] = entry[e].tick_ms

IdInv == IdsBounded /\ QueuedHaveIds /\ IdsDiffer /\ QueueMapped

TableInv == TimerTypeOK /\ Apart /\ MappedIsQueued /\ (~ IdReuse => IdInv)

(* The numbers the operations compute stay in the types. *)
LEMMA LaterInTick == ASSUME TimerTypeOK, NEW s \in Tick PROVE Later(s) \in Tick
BY ClockAssumption DEF TimerTypeOK, Later, Tick

LEMMA ConstructorTypes ==
    /\ Default \in EntryFields
    /\ TimerTypeOK => \A s \in Step, p \in BOOLEAN : new_timer(s, p) \in EntryFields
    /\ \A t \in AtTime : new_timer_at(t) \in EntryFields
<1>1. Default \in EntryFields
  BY IdAssumption, ClockAssumption DEF Default, EntryFields, Id, Tick
<1>2. ASSUME TimerTypeOK, NEW s \in Step, NEW p \in BOOLEAN
      PROVE  new_timer(s, p) \in EntryFields
  <2>1. s \in Tick /\ Later(s) \in Tick
    BY <1>2, InputAssumption, LaterInTick DEF Tick
  <2> QED
    BY <2>1, <1>1 DEF new_timer, EntryFields, Default
<1>3. ASSUME NEW t \in AtTime PROVE new_timer_at(t) \in EntryFields
  BY <1>1, InputAssumption DEF new_timer_at, EntryFields, Default, Tick
<1> QED
  BY <1>1, <1>2, <1>3

(* What is known of a constructed entry's id. *)
LEMMA ConstructorIds ==
    /\ Default.time_id = 0
    /\ \A s, p : new_timer(s, p).time_id = 0
    /\ \A t : new_timer_at(t).time_id = 0
BY DEF Default, new_timer, new_timer_at

(* An id from calc_new_id is unmapped; when ids do not come round it is beyond
   every id in use. *)
LEMMA NewIdFacts ==
    ASSUME TableInv, NEW i \in Id, calc_new_id(i)
    PROVE  /\ i \notin DOMAIN time_maps
           /\ ~ IdReuse => /\ i > time_id /\ i # 0
                           /\ \A e \in Entry : entry[e].time_id < i
BY DEF TableInv, TimerTypeOK, calc_new_id, IsNewId, Free, Id, IdInv, IdsBounded, EntryFields

-----------------------------------------------------------------------------
(* Writing an entry into a slot outside the tree, as construct and drop_entry
   do, with id 0. *)
LEMMA RewriteKeeps ==
    ASSUME TableInv, NEW e \in Entry, e \notin timer_queue,
           NEW rec \in EntryFields, rec.time_id = 0,
           entry' = [entry EXCEPT ![e] = rec],
           held' \subseteq Entry, held' \cap timer_queue = {},
           UNCHANGED <<clock, timer_queue, time_maps, time_id, hung>>
    PROVE  TableInv'
<1> USE DEF TableInv
<1>1. TimerTypeOK'
  BY DEF TimerTypeOK
<1>2. Apart'
  BY DEF Apart
<1>3. \A f \in timer_queue : entry'[f] = entry[f]
  BY DEF TimerTypeOK
<1>4. MappedIsQueued'
  BY <1>3 DEF MappedIsQueued
<1>5. ASSUME ~ IdReuse PROVE IdInv'
  <2>1. IdsBounded'
    BY <1>5 DEF IdInv, IdsBounded, TimerTypeOK, Id
  <2>2. QueuedHaveIds' /\ QueueMapped'
    BY <1>3, <1>5 DEF IdInv, QueuedHaveIds, QueueMapped
  <2>3. IdsDiffer'
    BY <1>5 DEF IdInv, IdsDiffer, TimerTypeOK
  <2> QED
    BY <2>1, <2>2, <2>3 DEF IdInv
<1> QED
  BY <1>1, <1>2, <1>4, <1>5

LEMMA DropKeeps == ASSUME TableInv, NEW e \in held, drop_entry(e) PROVE TableInv'
<1>1. e \in Entry /\ e \notin timer_queue
  BY DEF TableInv, TimerTypeOK, Apart
<1>2. held' \subseteq Entry /\ held' \cap timer_queue = {}
  BY DEF TableInv, TimerTypeOK, Apart, drop_entry
<1> QED
  BY <1>1, <1>2, ConstructorTypes, ConstructorIds, RewriteKeeps DEF drop_entry

LEMMA ConstructKeeps ==
    ASSUME TableInv, NEW e \in Entry, NEW rec \in EntryFields, rec.time_id = 0,
           construct(e, rec)
    PROVE  TableInv'
<1>1. e \notin timer_queue
  BY DEF construct, Vacant
<1>2. held' \subseteq Entry /\ held' \cap timer_queue = {}
  BY <1>1 DEF TableInv, TimerTypeOK, Apart, construct
<1> QED
  BY <1>1, <1>2, RewriteKeeps DEF construct

(* Inserting an entry from outside the tree, under an id no other entry has
   when ids do not come round. *)
LEMMA InsertKeeps ==
    ASSUME TableInv, NEW e \in Entry, e \notin timer_queue,
           NEW rec \in EntryFields, insert(e, rec),
           time_id' \in Id, hung' \in BOOLEAN,
           ~ IdReuse => /\ time_id <= time_id' /\ rec.time_id <= time_id' /\ rec.time_id # 0
                        /\ \A f \in Entry \ {e} : entry[f].time_id # rec.time_id
    PROVE  TableInv'
<1> USE DEF TableInv
<1>0. /\ entry' = [entry EXCEPT ![e] = rec]
      /\ time_maps' = Bind(rec.time_id, rec.tick_ms)
      /\ timer_queue' = timer_queue \cup {e}
      /\ held' = held \ {e}
      /\ clock' = clock
  BY DEF insert
<1>1. rec.time_id \in Id /\ rec.tick_ms \in Tick
  BY DEF EntryFields
<1>2. /\ DOMAIN time_maps' = DOMAIN time_maps \cup {rec.time_id}
      /\ time_maps'[rec.time_id] = rec.tick_ms
      /\ \A j \in DOMAIN time_maps : j # rec.time_id => time_maps'[j] = time_maps[j]
  BY <1>0 DEF Bind
<1>3. /\ entry'[e] = rec
      /\ \A f \in Entry : f # e => entry'[f] = entry[f]
  BY <1>0 DEF TimerTypeOK
<1>4. TimerTypeOK'
  <2>1. time_maps' \in [DOMAIN time_maps' -> Tick] /\ DOMAIN time_maps' \subseteq Id
    BY <1>0, <1>1, <1>2 DEF TimerTypeOK, Bind
  <2> QED
    BY <2>1, <1>0 DEF TimerTypeOK
<1>5. Apart'
  BY <1>0 DEF Apart
<1>6. MappedIsQueued'
  <2> SUFFICES ASSUME NEW i \in DOMAIN time_maps'
               PROVE  \E f \in timer_queue' : /\ entry'[f].time_id = i
                                              /\ entry'[f].tick_ms = time_maps'[i]
    BY DEF MappedIsQueued
  <2>1. CASE i = rec.time_id
    BY <2>1, <1>0, <1>2, <1>3
  <2>2. CASE i # rec.time_id
    <3>1. i \in DOMAIN time_maps /\ time_maps'[i] = time_maps[i]
      BY <2>2, <1>2
    <3>2. PICK f \in timer_queue : entry[f].time_id = i /\ entry[f].tick_ms = time_maps[i]
      BY <3>1 DEF MappedIsQueued
    <3>3. f \in Entry /\ f # e
      BY DEF TimerTypeOK
    <3> QED
      BY <3>1, <3>2, <3>3, <1>0, <1>3
  <2> QED
    BY <2>1, <2>2
<1>7. ASSUME ~ IdReuse PROVE IdInv'
  <2>0. IdInv /\ timer_queue \subseteq Entry /\ \A f \in Entry : entry[f].time_id \in Id
    BY <1>7 DEF TimerTypeOK, EntryFields
  <2>1. IdsBounded'
    <3> SUFFICES ASSUME NEW f \in Entry PROVE entry'[f].time_id <= time_id'
      BY DEF IdsBounded
    <3>1. CASE f = e
      BY <3>1, <1>3, <1>7
    <3>2. CASE f # e
      BY <3>2, <1>3, <1>7, <2>0 DEF IdInv, IdsBounded, TimerTypeOK, Id
    <3> QED
      BY <3>1, <3>2
  <2>2. QueuedHaveIds'
    BY <1>0, <1>3, <1>7, <2>0 DEF IdInv, QueuedHaveIds
  <2>3. IdsDiffer'
    BY <1>3, <1>7, <2>0 DEF IdInv, IdsDiffer
  <2>4. QueueMapped'
    BY <1>0, <1>2, <1>3, <1>7, <2>0 DEF IdInv, QueueMapped
  <2> QED
    BY <2>1, <2>2, <2>3, <2>4 DEF IdInv
<1> QED
  BY <1>4, <1>5, <1>6, <1>7

(* Removing an entry under its own id, as del_timer and tick_time do. *)
LEMMA RemoveKeeps ==
    ASSUME TableInv, NEW e \in timer_queue,
           time_maps' = Unbind(entry[e].time_id),
           timer_queue' = timer_queue \ {e},
           held' = held \cup {e},
           UNCHANGED <<clock, entry, time_id, hung>>
    PROVE  TableInv'
<1> USE DEF TableInv
<1>1. /\ DOMAIN time_maps' = DOMAIN time_maps \ {entry[e].time_id}
      /\ \A j \in DOMAIN time_maps : j # entry[e].time_id => time_maps'[j] = time_maps[j]
  BY DEF Unbind
<1>2. TimerTypeOK' /\ Apart'
  <2>1. time_maps' \in [DOMAIN time_maps' -> Tick] /\ DOMAIN time_maps' \subseteq Id
    BY <1>1 DEF TimerTypeOK, Unbind
  <2> QED
    BY <2>1 DEF TimerTypeOK, Apart
<1>3. MappedIsQueued'
  <2> SUFFICES ASSUME NEW i \in DOMAIN time_maps'
               PROVE  \E f \in timer_queue' : /\ entry'[f].time_id = i
                                              /\ entry'[f].tick_ms = time_maps'[i]
    BY DEF MappedIsQueued
  <2>1. PICK f \in timer_queue : entry[f].time_id = i /\ entry[f].tick_ms = time_maps[i]
    BY <1>1 DEF MappedIsQueued
  <2> QED
    BY <1>1, <2>1
<1>4. ASSUME ~ IdReuse PROVE IdInv'
  <2>0. IdInv /\ timer_queue \subseteq Entry
    BY <1>4 DEF TimerTypeOK
  <2>1. IdsBounded' /\ QueuedHaveIds' /\ IdsDiffer'
    BY <2>0 DEF IdInv, IdsBounded, QueuedHaveIds, IdsDiffer
  <2>2. QueueMapped'
    BY <1>1, <2>0 DEF IdInv, QueueMapped, QueuedHaveIds, IdsDiffer
  <2> QED
    BY <2>1, <2>2 DEF IdInv
<1> QED
  BY <1>2, <1>3, <1>4

(* calc_new_id spinning changes nothing but hung. *)
LEMMA SpinKeeps == ASSUME TableInv, spin PROVE TableInv'
<1>1. TimerTypeOK' /\ Apart' /\ MappedIsQueued'
  BY DEF TableInv, spin, TimerTypeOK, Apart, MappedIsQueued
<1>2. ASSUME ~ IdReuse PROVE IdInv'
  BY <1>2 DEF TableInv, spin, IdInv, IdsBounded, QueuedHaveIds, IdsDiffer, QueueMapped
<1> QED
  BY <1>1, <1>2 DEF TableInv

LEMMA InsertNewKeeps ==
    ASSUME TableInv, NEW e \in Entry, e \notin timer_queue,
           NEW rec \in EntryFields, insert_new(e, rec)
    PROVE  TableInv'
<1>1. CASE spin
  BY <1>1, SpinKeeps
<1>2. CASE /\ \E i \in Id : calc_new_id(i) /\ insert(e, [rec EXCEPT !.time_id = i])
           /\ UNCHANGED hung
  <2>1. PICK i \in Id : calc_new_id(i) /\ insert(e, [rec EXCEPT !.time_id = i])
    BY <1>2
  <2> DEFINE new == [rec EXCEPT !.time_id = i]
  <2>2. new \in EntryFields /\ new.time_id = i
    BY DEF EntryFields
  <2>3. time_id' = i /\ hung' \in BOOLEAN
    BY <1>2, <2>1 DEF calc_new_id, TableInv, TimerTypeOK
  <2>4. ASSUME ~ IdReuse
        PROVE  /\ time_id <= time_id' /\ new.time_id <= time_id' /\ new.time_id # 0
               /\ \A f \in Entry \ {e} : entry[f].time_id # new.time_id
    <3>1. i > time_id /\ i # 0 /\ \A f \in Entry : entry[f].time_id < i
      BY <2>1, <2>4, NewIdFacts
    <3>2. i \in Int /\ time_id \in Int /\ \A f \in Entry : entry[f].time_id \in Int
      BY DEF TableInv, TimerTypeOK, EntryFields, Id
    <3> HIDE DEF new
    <3> QED
      BY <2>2, <2>3, <3>1, <3>2
  <2> HIDE DEF new
  <2>5. insert(e, new)
    BY <2>1 DEF new
  <2> QED
    BY <2>2, <2>3, <2>4, <2>5, InsertKeeps
<1> QED
  BY <1>1, <1>2 DEF insert_new

LEMMA AddFirstKeeps ==
    ASSUME TableInv, NEW e \in Entry, NEW rec \in EntryFields, add_first_timer(e, rec)
    PROVE  TableInv'
BY InsertNewKeeps DEF add_first_timer, Vacant

LEMMA AddTimerKeeps ==
    ASSUME TableInv, NEW e \in Entry, NEW s \in Tick, add_timer(e, s)
    PROVE  TableInv'
<1> DEFINE rec == [entry[e] EXCEPT !.tick_step = s, !.tick_ms = Later(s)]
<1>1. e \in held /\ e \notin timer_queue
  BY DEF add_timer, TableInv, Apart
<1>2. rec \in EntryFields /\ rec.time_id = entry[e].time_id
  <2>1. Later(s) \in Tick /\ entry[e] \in EntryFields
    BY LaterInTick DEF TableInv, TimerTypeOK
  <2> QED
    BY <2>1 DEF EntryFields
<1>3. CASE s = 0 /\ drop_entry(e)
  BY <1>1, <1>3, DropKeeps
<1>4. CASE s # 0 /\ entry[e].time_id # 0 /\ insert(e, rec) /\ UNCHANGED <<time_id, hung>>
  <2>1. time_id' \in Id /\ hung' \in BOOLEAN
    BY <1>4 DEF TableInv, TimerTypeOK
  <2>2. ASSUME ~ IdReuse
        PROVE  /\ time_id <= time_id' /\ rec.time_id <= time_id' /\ rec.time_id # 0
               /\ \A f \in Entry \ {e} : entry[f].time_id # rec.time_id
    <3> HIDE DEF rec
    <3> QED
      BY <1>2, <1>4, <2>2 DEF TableInv, IdInv, IdsBounded, IdsDiffer, TimerTypeOK, Id
  <2> HIDE DEF rec
  <2> QED
    BY <1>1, <1>2, <1>4, <2>1, <2>2, InsertKeeps
<1>5. CASE s # 0 /\ entry[e].time_id = 0 /\ insert_new(e, rec)
  <2> HIDE DEF rec
  <2> QED
    BY <1>1, <1>2, <1>5, InsertNewKeeps
<1> QED
  BY <1>3, <1>4, <1>5 DEF add_timer

LEMMA TickKeeps ==
    ASSUME TableInv, NEW e \in Entry, NEW tm, tick_time(tm, e)
    PROVE  TableInv'
BY RemoveKeeps DEF tick_time, IsFirst

(* del_timer finds the entry of a mapped id, and removes it. *)
LEMMA DelKeeps == ASSUME TableInv, NEW i \in Id, del_timer(i) PROVE TableInv'
<1> DEFINE found == {e \in timer_queue : /\ entry[e].time_id = i
                                         /\ entry[e].tick_ms = time_maps[i]}
<1>1. CASE i \notin DOMAIN time_maps
  <2>1. UNCHANGED timerVars
    BY <1>1 DEF del_timer
  <2>2. TimerTypeOK' /\ Apart' /\ MappedIsQueued'
    BY <2>1 DEF timerVars, TableInv, TimerTypeOK, Apart, MappedIsQueued
  <2>3. ASSUME ~ IdReuse PROVE IdInv'
    BY <2>1, <2>3 DEF timerVars, TableInv, IdInv, IdsBounded, QueuedHaveIds, IdsDiffer, QueueMapped
  <2> QED
    BY <2>2, <2>3 DEF TableInv
<1>2. CASE i \in DOMAIN time_maps
  <2>1. found # {}
    BY <1>2 DEF TableInv, MappedIsQueued
  <2>2. /\ time_maps' = Unbind(i)
        /\ UNCHANGED <<clock, entry, time_id, hung>>
        /\ \E e \in found : timer_queue' = timer_queue \ {e} /\ held' = held \cup {e}
    BY <1>2, <2>1 DEF del_timer
  <2>3. PICK e \in found : timer_queue' = timer_queue \ {e} /\ held' = held \cup {e}
    BY <2>2
  <2> QED
    BY <2>2, <2>3, RemoveKeeps
<1> QED
  BY <1>1, <1>2

LEMMA TimeKeeps == ASSUME TableInv, Time PROVE TableInv'
<1>1. clock' \in 0 .. MaxNow
  BY ClockAssumption DEF TableInv, TimerTypeOK, Time, AdvanceClock
<1>2. TimerTypeOK' /\ Apart' /\ MappedIsQueued'
  BY <1>1 DEF TableInv, Time, TimerTypeOK, Apart, MappedIsQueued
<1>3. ASSUME ~ IdReuse PROVE IdInv'
  BY <1>3 DEF TableInv, Time, IdInv, IdsBounded, QueuedHaveIds, IdsDiffer, QueueMapped
<1> QED
  BY <1>2, <1>3 DEF TableInv

-----------------------------------------------------------------------------
LEMMA TableInvInit == TimerInit => TableInv
<1> SUFFICES ASSUME TimerInit PROVE TableInv
  OBVIOUS
<1>1. Default \in EntryFields /\ Default.time_id = 0
  BY ConstructorTypes, ConstructorIds
<1>2. TimerTypeOK
  <2>1. clock \in 0 .. MaxNow /\ time_id \in Id
    BY IdAssumption, ClockAssumption DEF TimerInit, Id
  <2>3. hung \in BOOLEAN /\ timer_queue \subseteq Entry /\ held \subseteq Entry
    BY DEF TimerInit
  <2>4. entry \in [Entry -> EntryFields]
    BY <1>1 DEF TimerInit
  <2>2. DOMAIN time_maps = {} /\ time_maps \in [DOMAIN time_maps -> Tick]
    BY DEF TimerInit
  <2> QED
    BY <2>1, <2>2, <2>3, <2>4 DEF TimerTypeOK
<1>3. Apart /\ MappedIsQueued /\ QueuedHaveIds /\ QueueMapped
  BY DEF TimerInit, Apart, MappedIsQueued, QueuedHaveIds, QueueMapped
<1>4. IdsBounded /\ IdsDiffer
  BY <1>1 DEF TimerInit, IdsBounded, IdsDiffer
<1> QED
  BY <1>2, <1>3, <1>4 DEF TableInv, IdInv

LEMMA TableInvNext == TableInv /\ [TimerNext]_timerVars => TableInv'
<1> SUFFICES ASSUME TableInv, [TimerNext]_timerVars PROVE TableInv'
  OBVIOUS
<1>0. TimerTypeOK
  BY DEF TableInv
<1>1. CASE Construct
  BY <1>0, <1>1, ConstructKeeps, ConstructorTypes, ConstructorIds DEF Construct
<1>2. CASE AddNewTimer
  BY <1>0, <1>2, AddFirstKeeps, ConstructorTypes DEF AddNewTimer
<1>3. CASE AddNewTimerAt
  BY <1>0, <1>3, AddFirstKeeps, ConstructorTypes DEF AddNewTimerAt
<1>4. CASE \E e \in Entry, s \in Step \cup {0} : add_timer(e, s)
  <2>1. Step \cup {0} \subseteq Tick
    BY InputAssumption, ClockAssumption DEF Tick
  <2> QED
    BY <1>4, <2>1, AddTimerKeeps
<1>5. CASE \E i \in Id : del_timer(i)
  BY <1>5, DelKeeps
<1>6. CASE \E e \in held : drop_entry(e)
  BY <1>6, DropKeeps
<1>7. CASE \E tm \in 0 .. MaxNow, e \in Entry : tick_time(tm, e)
  BY <1>7, TickKeeps
<1>8. CASE Time
  BY <1>8, TimeKeeps
<1>9. CASE UNCHANGED timerVars
  <2>1. TimerTypeOK' /\ Apart' /\ MappedIsQueued'
    BY <1>9 DEF timerVars, TableInv, TimerTypeOK, Apart, MappedIsQueued
  <2>2. ASSUME ~ IdReuse PROVE IdInv'
    BY <1>9, <2>2 DEF timerVars, TableInv, IdInv, IdsBounded, QueuedHaveIds, IdsDiffer, QueueMapped
  <2> QED
    BY <2>1, <2>2 DEF TableInv
<1> QED
  BY <1>1, <1>2, <1>3, <1>4, <1>5, <1>6, <1>7, <1>8, <1>9 DEF TimerNext

LEMMA TableInvMeans ==
    TableInv => TimerTypeOK /\ MappedIsQueued /\ QueuedIsMapped /\ UniqueIds
<1> SUFFICES ASSUME TableInv
             PROVE  TimerTypeOK /\ MappedIsQueued /\ QueuedIsMapped /\ UniqueIds
  OBVIOUS
<1>1. QueuedIsMapped
  BY DEF TableInv, IdInv, QueueMapped, QueuedIsMapped
<1>2. UniqueIds
  BY DEF TableInv, IdInv, IdsDiffer, UniqueIds, TimerTypeOK
<1> QED
  BY <1>1, <1>2 DEF TableInv

LEMMA TableInvAlways == TimerSpec => []TableInv
BY TableInvInit, TableInvNext, PTL DEF TimerSpec

(* Whatever the program does with the table, its variables keep their types. *)
THEOREM TimerTypeCorrect == TimerSpec => []TimerTypeOK
BY TableInvAlways, TableInvMeans, PTL

(* del_timer's lookup in time_maps never misses the tree (timer.rs:78-85),
   even after ids are reused. *)
THEOREM TimerMapsLeadToQueue == TimerSpec => []MappedIsQueued
BY TableInvAlways, TableInvMeans, PTL

(* Until the ids come round, every queued timer is mapped, so that it can be
   deleted, and an id names one timer. *)
THEOREM TimerQueueIsMapped == TimerSpec => []QueuedIsMapped
BY TableInvAlways, TableInvMeans, PTL

THEOREM TimerIdsUnique == TimerSpec => []UniqueIds
BY TableInvAlways, TableInvMeans, PTL
-----------------------------------------------------------------------------
(* The loop of calc_new_id.  CursorInv: its cursor is 0, where it starts, or an
   id the loop passes over. *)
CursorInv == time_id \in IdRange \cup {0}

(* Two forms of induction over the naturals that do not take the formula as an
   operator: a nonempty set has a least element, and a set that has 0 and is
   closed under successor has every natural. *)
LEMMA LessIsWellFounded == IsWellFoundedOn({p \in Nat \X Nat : p[1] < p[2]}, Nat)
BY NatLessThanWellFounded, Zenon DEF OpToRel

LEMMA LeastElement ==
    ASSUME NEW T, T \subseteq Nat, T # {}
    PROVE  \E x \in T : \A y \in T : x <= y
<1> DEFINE R == {p \in Nat \X Nat : p[1] < p[2]}
<1>1. IsWellFoundedOn(R, Nat)
  BY LessIsWellFounded
<1>2. PICK x \in T : \A y \in T : ~ (<<y, x>> \in R)
  <2> HIDE DEF R
  <2> QED
    BY <1>1, WFMin
<1>3. ASSUME NEW y \in T PROVE x <= y
  <2>1. x \in Nat /\ y \in Nat /\ <<y, x>> \notin R
    BY <1>2
  <2>2. ~ (y < x)
    BY <2>1
  <2> QED
    BY <2>1, <2>2
<1> QED
  BY <1>3

LEMMA InductionOnNat ==
    ASSUME NEW S, 0 \in S, \A n \in Nat : n \in S => n + 1 \in S
    PROVE  Nat \subseteq S
<1> SUFFICES ASSUME Nat \ S # {} PROVE FALSE
  OBVIOUS
<1>1. PICK x \in Nat \ S : \A y \in Nat \ S : x <= y
  BY LeastElement
<1>2. x # 0 /\ x - 1 \in Nat /\ ~ (x <= x - 1)
  OBVIOUS
<1>3. x - 1 \in S
  BY <1>1, <1>2
<1> QED
  BY <1>2, <1>3

(* The id the scan finds from a cursor, and how many turns that takes. *)
NextFree(c, i) ==
    /\ i \in Free
    /\ IF i > c THEN \A j \in Free : j <= c \/ j >= i
                ELSE \A j \in Free : j <= c /\ j >= i

LastId == IF TimeMaxId = 0 THEN 1 ELSE TimeMaxId
Turns(c, i) ==
    IF i > c THEN i - c
    ELSE IF TimeMaxId = U32Max THEN i + (U32Max + 1) - c ELSE i + LastId - c

LEMMA IdRangeIs ==
    /\ TimeMaxId = U32Max => IdRange = 0 .. U32Max
    /\ TimeMaxId # U32Max => IdRange = 1 .. LastId
    /\ LastId \in 1 .. U32Max /\ U32Max \in Nat /\ TimeMaxId \in 0 .. U32Max
    /\ IdRange \cup {0} \subseteq Id /\ Id = 0 .. U32Max
<1>1. LastId \in 1 .. U32Max /\ U32Max \in Nat /\ TimeMaxId \in 0 .. U32Max /\ 0 \in 0 .. U32Max
  BY IdAssumption DEF LastId
<1>2. TimeMaxId # U32Max => IdRange = 1 .. LastId
  <2>1. {1} \cup (1 .. TimeMaxId) = 1 .. LastId
    BY <1>1 DEF LastId
  <2> QED
    BY <2>1 DEF IdRange
<1>3. TimeMaxId = U32Max => IdRange = 0 .. U32Max
  BY DEF IdRange, Id
<1>4. IdRange \subseteq 0 .. U32Max
  BY <1>1, <1>2, <1>3
<1> QED
  BY <1>1, <1>2, <1>3, <1>4 DEF Id

(* One turn, without the remainder. *)
LEMMA NextCursorIs ==
    ASSUME NEW c \in IdRange \cup {0}
    PROVE  /\ NextCursor(c) \in IdRange
           /\ TimeMaxId = U32Max => NextCursor(c) = IF c = U32Max THEN 0 ELSE c + 1
           /\ TimeMaxId # U32Max => NextCursor(c) = IF c = LastId THEN 1 ELSE c + 1
<1>1. c \in 0 .. U32Max /\ (TimeMaxId # U32Max => c <= LastId)
  BY IdRangeIs
<1>2. c = U32Max => (c + 1) % (U32Max + 1) = 0
  BY <1>1, IdRangeIs
<1>3. c # U32Max => (c + 1) % (U32Max + 1) = c + 1
  BY <1>1, IdRangeIs
<1>4. TimeMaxId # U32Max => c # U32Max
  BY <1>1, IdAssumption DEF LastId
<1>5. NextCursor(c) = IF (c + 1) % (U32Max + 1) > TimeMaxId THEN 1 ELSE (c + 1) % (U32Max + 1)
  BY DEF NextCursor
<1>6. CASE TimeMaxId = U32Max
  BY <1>1, <1>2, <1>3, <1>5, <1>6, IdRangeIs
<1>7. CASE TimeMaxId # U32Max
  BY <1>1, <1>3, <1>4, <1>5, <1>7, IdRangeIs DEF LastId
<1> QED
  BY <1>6, <1>7

(* The id a turn passes over is not free, and the scan goes on to the same id
   from the next cursor, one turn closer. *)
LEMMA TurnApproaches ==
    ASSUME NEW c \in IdRange \cup {0}, NEW i, NextFree(c, i)
    PROVE  /\ Turns(c, i) \in 1 .. U32Max + 1
           /\ NextCursor(c) \notin DOMAIN time_maps => i = NextCursor(c)
           /\ NextCursor(c) \in DOMAIN time_maps =>
                 NextFree(NextCursor(c), i) /\ Turns(NextCursor(c), i) = Turns(c, i) - 1
<1> DEFINE d == NextCursor(c)
<1>1. /\ d \in IdRange
      /\ TimeMaxId = U32Max => d = IF c = U32Max THEN 0 ELSE c + 1
      /\ TimeMaxId # U32Max => d = IF c = LastId THEN 1 ELSE c + 1
  BY NextCursorIs
<1>2. i \in Free /\ Free \subseteq IdRange /\ i \in IdRange
  BY DEF NextFree, Free
<1>3. d \notin DOMAIN time_maps => d \in Free
  BY <1>1 DEF Free
<1>4. d \in DOMAIN time_maps => i # d
  BY <1>2 DEF Free
<1> HIDE DEF d
<1>5. CASE TimeMaxId = U32Max
  <2>1. c \in 0 .. U32Max /\ i \in 0 .. U32Max /\ Free \subseteq 0 .. U32Max /\ U32Max \in Nat
    BY <1>2, <1>5, IdRangeIs
  <2>2. Turns(c, i) \in 1 .. U32Max + 1
    BY <1>5, <2>1 DEF Turns
  <2>3. d \notin DOMAIN time_maps => i = d
    BY <1>1, <1>3, <1>5, <2>1 DEF NextFree
  <2>4. i # d => NextFree(d, i)
    BY <1>1, <1>2, <1>5, <2>1 DEF NextFree
  <2>5. i # d => Turns(d, i) = Turns(c, i) - 1
    BY <1>1, <1>5, <2>1 DEF Turns
  <2> QED
    BY <1>4, <2>2, <2>3, <2>4, <2>5 DEF d
<1>6. CASE TimeMaxId # U32Max
  <2>1. /\ c \in 0 .. LastId /\ i \in 1 .. LastId /\ Free \subseteq 1 .. LastId
        /\ LastId \in 1 .. U32Max /\ U32Max \in Nat
    BY <1>2, <1>6, IdRangeIs
  <2>2. Turns(c, i) \in 1 .. U32Max + 1
    BY <1>6, <2>1 DEF Turns
  <2>3. d \notin DOMAIN time_maps => i = d
    BY <1>1, <1>3, <1>6, <2>1 DEF NextFree
  <2>4. i # d => NextFree(d, i)
    BY <1>1, <1>2, <1>6, <2>1 DEF NextFree
  <2>5. i # d => Turns(d, i) = Turns(c, i) - 1
    BY <1>1, <1>6, <2>1 DEF Turns
  <2> QED
    BY <1>4, <2>2, <2>3, <2>4, <2>5 DEF d
<1> QED
  BY <1>5, <1>6

(* The recursive function scan exists: there is one of n turns for every n. *)
Scanned(g, n) ==
    g = [m \in 0 .. n |->
            [c \in Id |->
                IF m = 0 THEN c
                ELSE IF NextCursor(c) \in DOMAIN time_maps THEN g[m - 1][NextCursor(c)]
                     ELSE NextCursor(c)]]

LEMMA ScanExists == \A n \in Nat : \E g : Scanned(g, n)
<1> DEFINE S == {n \in Nat : \E g : Scanned(g, n)}
<1>1. 0 \in S
  <2> DEFINE g == [m \in 0 .. 0 |-> [c \in Id |-> c]]
  <2>1. Scanned(g, 0)
    BY DEF Scanned
  <2> QED
    BY <2>1
<1>2. ASSUME NEW n \in Nat, n \in S PROVE n + 1 \in S
  <2>1. PICK g : Scanned(g, n)
    BY <1>2
  <2> DEFINE h == [m \in 0 .. n + 1 |->
                      IF m <= n THEN g[m]
                      ELSE [c \in Id |-> IF NextCursor(c) \in DOMAIN time_maps
                                         THEN g[n][NextCursor(c)] ELSE NextCursor(c)]]
             row(k, m) == [c \in Id |->
                IF m = 0 THEN c
                ELSE IF NextCursor(c) \in DOMAIN time_maps THEN k[m - 1][NextCursor(c)]
                     ELSE NextCursor(c)]
  <2>2. \A m \in 0 .. n : g[m] = row(g, m)
    BY <2>1 DEF Scanned
  <2>3. \A m \in 0 .. n + 1 : h[m] = row(h, m)
    <3> SUFFICES ASSUME NEW m \in 0 .. n + 1 PROVE h[m] = row(h, m)
      OBVIOUS
    <3>1. CASE m = n + 1
      <4>1. h[n] = g[n] /\ n + 1 # 0 /\ (n + 1) - 1 = n
        OBVIOUS
      <4>2. h[n + 1] = [c \in Id |-> IF NextCursor(c) \in DOMAIN time_maps
                                     THEN g[n][NextCursor(c)] ELSE NextCursor(c)]
        OBVIOUS
      <4> HIDE DEF h
      <4>3. h[n + 1] = row(h, n + 1)
        BY <4>1, <4>2
      <4> QED
        BY <3>1, <4>3
    <3>2. CASE m \in 1 .. n
      <4>1. h[m] = g[m] /\ h[m - 1] = g[m - 1] /\ m # 0 /\ m \in 0 .. n
        BY <3>2
      <4> HIDE DEF h
      <4>2. row(g, m) = row(h, m)
        BY <4>1
      <4> HIDE DEF row
      <4> QED
        BY <2>2, <4>1, <4>2
    <3>3. CASE m = 0
      <4>1. h[0] = g[0] /\ 0 \in 0 .. n
        OBVIOUS
      <4> HIDE DEF h
      <4>2. row(g, 0) = row(h, 0)
        OBVIOUS
      <4> HIDE DEF row
      <4> QED
        BY <2>2, <3>3, <4>1, <4>2
    <3> QED
      BY <3>1, <3>2, <3>3
  <2>4. h = [m \in 0 .. n + 1 |-> h[m]]
    OBVIOUS
  <2> HIDE DEF h
  <2>5. Scanned(h, n + 1)
    BY <2>3, <2>4 DEF Scanned
  <2> QED
    BY <2>5
<1> HIDE DEF S
<1>3. Nat \subseteq S
  BY <1>1, <1>2, InductionOnNat
<1> QED
  BY <1>3 DEF S

LEMMA ScanIs ==
    /\ scan[0] = [c \in Id |-> c]
    /\ \A n \in 1 .. U32Max + 1 :
          scan[n] = [c \in Id |-> IF NextCursor(c) \in DOMAIN time_maps
                                  THEN scan[n - 1][NextCursor(c)] ELSE NextCursor(c)]
<1>1. U32Max + 1 \in Nat
  BY IdRangeIs
<1>2. \E g : Scanned(g, U32Max + 1)
  BY <1>1, ScanExists
<1>3. scan = CHOOSE g : Scanned(g, U32Max + 1)
  BY DEF scan, Scanned
<1>4. Scanned(scan, U32Max + 1)
  BY <1>2, <1>3
<1>5. \A m \in 0 .. U32Max + 1 :
          scan[m] = [c \in Id |->
                IF m = 0 THEN c
                ELSE IF NextCursor(c) \in DOMAIN time_maps THEN scan[m - 1][NextCursor(c)]
                     ELSE NextCursor(c)]
  BY <1>4 DEF Scanned
<1> QED
  BY <1>1, <1>5

(* From any cursor, as many turns as it takes find the id IsNewId describes. *)
LEMMA ScanFinds ==
    ASSUME NEW n \in Nat, n <= U32Max + 1,
           NEW c \in IdRange \cup {0}, NEW i, NextFree(c, i), Turns(c, i) <= n
    PROVE  scan[n][c] = i
<1> DEFINE P(k) == k <= U32Max + 1 =>
                      \A a \in IdRange \cup {0} : \A x :
                         NextFree(a, x) /\ Turns(a, x) <= k => scan[k][a] = x
           S == {k \in Nat : P(k)}
<1>0. U32Max \in Nat /\ IdRange \cup {0} \subseteq Id
  BY IdRangeIs
<1>1. 0 \in S
  <2>1. \A a \in IdRange \cup {0} : \A x : NextFree(a, x) => ~ (Turns(a, x) <= 0)
    BY <1>0, TurnApproaches
  <2> QED
    BY <2>1
<1>2. ASSUME NEW k \in Nat, k \in S PROVE k + 1 \in S
  <2> SUFFICES ASSUME k + 1 <= U32Max + 1, NEW a \in IdRange \cup {0}, NEW x,
                      NextFree(a, x), Turns(a, x) <= k + 1
               PROVE  scan[k + 1][a] = x
    OBVIOUS
  <2>1. scan[k + 1] = [b \in Id |-> IF NextCursor(b) \in DOMAIN time_maps
                                    THEN scan[k][NextCursor(b)] ELSE NextCursor(b)]
    BY <1>0, ScanIs
  <2>2. scan[k + 1][a] = IF NextCursor(a) \in DOMAIN time_maps
                         THEN scan[k][NextCursor(a)] ELSE NextCursor(a)
    BY <1>0, <2>1
  <2>3. /\ NextCursor(a) \in IdRange
        /\ Turns(a, x) \in 1 .. U32Max + 1
        /\ NextCursor(a) \notin DOMAIN time_maps => x = NextCursor(a)
        /\ NextCursor(a) \in DOMAIN time_maps =>
              NextFree(NextCursor(a), x) /\ Turns(NextCursor(a), x) = Turns(a, x) - 1
    BY NextCursorIs, TurnApproaches
  <2>4. P(k)
    BY <1>2
  <2>5. NextCursor(a) \in DOMAIN time_maps => scan[k][NextCursor(a)] = x
    BY <1>0, <2>3, <2>4
  <2> QED
    BY <2>2, <2>3, <2>5
<1> HIDE DEF S
<1>3. Nat \subseteq S
  BY <1>1, <1>2, InductionOnNat
<1>4. P(n)
  BY <1>3 DEF S
<1> QED
  BY <1>4

(* While an id is free, IsNewId describes one. *)
LEMMA NextFreeExists ==
    ASSUME NEW c \in IdRange \cup {0}, Free # {}
    PROVE  \E i : NextFree(c, i)
<1>1. Free \subseteq Nat /\ c \in Nat
  BY IdRangeIs DEF Free
<1>2. CASE \E j \in Free : j > c
  <2> DEFINE T == {j \in Free : j > c}
  <2>1. PICK i \in T : \A j \in T : i <= j
    BY <1>1, <1>2, LeastElement
  <2> QED
    BY <1>1, <2>1 DEF NextFree
<1>3. CASE ~ \E j \in Free : j > c
  <2>1. PICK i \in Free : \A j \in Free : i <= j
    BY <1>1, LeastElement
  <2> QED
    BY <1>1, <1>3, <2>1 DEF NextFree
<1> QED
  BY <1>2, <1>3

LEMMA ScanAgreesWithId == CursorInv => ScanAgrees
<1> SUFFICES ASSUME CursorInv, Free # {}, NEW i \in Id
             PROVE  IsNewId(i) <=> i = scan[U32Max + 1][time_id]
  BY DEF ScanAgrees
<1>1. time_id \in IdRange \cup {0} /\ U32Max + 1 \in Nat
  BY IdRangeIs DEF CursorInv
<1>2. \A x : NextFree(time_id, x) => scan[U32Max + 1][time_id] = x
  <2>1. \A x : NextFree(time_id, x) => Turns(time_id, x) <= U32Max + 1
    BY <1>1, TurnApproaches
  <2> QED
    BY <1>1, <2>1, ScanFinds
<1>3. PICK x : NextFree(time_id, x)
  BY <1>1, NextFreeExists
<1>4. \A y : IsNewId(y) <=> NextFree(time_id, y)
  BY DEF IsNewId, NextFree
<1> QED
  BY <1>2, <1>3, <1>4

(* Only calc_new_id moves the cursor, to the id it issues. *)
LEMMA InsertNewMoves ==
    ASSUME CursorInv, NEW e, NEW rec, insert_new(e, rec)
    PROVE  CursorInv'
BY DEF CursorInv, insert_new, spin, calc_new_id, IsNewId, Free, IdRange

LEMMA CursorStays ==
    ASSUME CursorInv, [TimerNext]_timerVars
    PROVE  CursorInv'
<1>1. ASSUME UNCHANGED time_id PROVE CursorInv'
  BY <1>1 DEF CursorInv, IdRange
<1>2. CASE AddNewTimer \/ AddNewTimerAt
  BY <1>2, InsertNewMoves DEF AddNewTimer, AddNewTimerAt, add_first_timer
<1>3. CASE \E e \in Entry, s \in Step \cup {0} : add_timer(e, s)
  BY <1>1, <1>3, InsertNewMoves DEF add_timer, drop_entry
<1>4. CASE \E i \in Id : del_timer(i)
  BY <1>1, <1>4 DEF del_timer, timerVars
<1>5. CASE Construct \/ Time \/ (\E e \in held : drop_entry(e))
           \/ \E tm \in 0 .. MaxNow, e \in Entry : tick_time(tm, e)
  BY <1>1, <1>5 DEF Construct, construct, Time, drop_entry, tick_time
<1>6. CASE UNCHANGED timerVars
  BY <1>1, <1>6 DEF timerVars
<1> QED
  BY <1>2, <1>3, <1>4, <1>5, <1>6 DEF TimerNext

(* calc_new_id's loop, from every reachable table and cursor, stops at the id
   IsNewId describes while one is free (timer.rs:108-121), for every
   time_max_id and however the cursor wraps. *)
THEOREM TimerScanAgrees == TimerSpec => []ScanAgrees
<1>1. TimerInit => CursorInv
  BY DEF TimerInit, CursorInv
<1>2. CursorInv /\ [TimerNext]_timerVars => CursorInv'
  BY CursorStays
<1> QED
  BY <1>1, <1>2, ScanAgreesWithId, PTL DEF TimerSpec

-----------------------------------------------------------------------------
(* Every id held by time_maps stands for a queued entry of its own, so a full
   range of ids is a full tree. *)
CountInv == TableInv /\ IsFiniteSet(timer_queue) /\ HangsOnlyWhenFull

LEMMA MappedAreCounted ==
    ASSUME MappedIsQueued, IsFiniteSet(timer_queue), NEW S, S \subseteq DOMAIN time_maps
    PROVE  Cardinality(S) <= Cardinality(timer_queue)
<1> DEFINE T == {e \in timer_queue : entry[e].time_id \in S}
           g == [e \in T |-> entry[e].time_id]
<1>1. IsFiniteSet(T) /\ Cardinality(T) <= Cardinality(timer_queue)
  BY FS_Subset
<1>2. g \in Surjection(T, S)
  BY DEF MappedIsQueued, Surjection
<1>3. IsFiniteSet(S) /\ Cardinality(S) <= Cardinality(T)
  <2> HIDE DEF T, g
  <2> QED
    BY <1>1, <1>2, FS_Surjection
<1>4. Cardinality(S) \in Nat /\ Cardinality(T) \in Nat /\ Cardinality(timer_queue) \in Nat
  BY <1>1, <1>3, FS_CardinalityType
<1> HIDE DEF T
<1> QED
  BY <1>1, <1>3, <1>4

(* The tree grows by at most one entry a call, and while a call spins no other
   call is made. *)
LEMMA QueueStep ==
    ASSUME TableInv, [TimerNext]_timerVars
    PROVE  /\ \E e : timer_queue' \subseteq timer_queue \cup {e}
           /\ hung' => spin \/ (hung /\ UNCHANGED timer_queue)
<1>0. hung \in BOOLEAN
  BY DEF TableInv, TimerTypeOK
<1>1. ASSUME NEW e, NEW rec, insert_new(e, rec), ~ hung
      PROVE  timer_queue' \subseteq timer_queue \cup {e} /\ (hung' => spin)
  BY <1>1 DEF insert_new, insert, spin
<1>2. CASE ~ hung /\ (AddNewTimer \/ AddNewTimerAt)
  BY <1>1, <1>2 DEF AddNewTimer, AddNewTimerAt, add_first_timer
<1>3. CASE ~ hung /\ \E e \in Entry, s \in Step \cup {0} : add_timer(e, s)
  <2>1. PICK e \in Entry, s \in Step \cup {0} : add_timer(e, s)
    BY <1>3
  <2>2. CASE drop_entry(e)
    BY <1>3, <2>2 DEF drop_entry
  <2>3. CASE \E rec : insert(e, rec) /\ UNCHANGED hung
    BY <1>3, <2>3 DEF insert
  <2>4. CASE \E rec : insert_new(e, rec)
    BY <1>1, <1>3, <2>4
  <2> QED
    BY <2>1, <2>2, <2>3, <2>4 DEF add_timer
<1>4. CASE ~ hung /\ \E i \in Id : del_timer(i)
  BY <1>4 DEF del_timer, timerVars
<1>5. CASE ~ hung /\ (Construct \/ (\E e \in held : drop_entry(e))
                        \/ \E tm \in 0 .. MaxNow, e \in Entry : tick_time(tm, e))
  BY <1>5 DEF Construct, construct, drop_entry, tick_time
<1>6. CASE Time \/ UNCHANGED timerVars
  BY <1>6 DEF Time, timerVars
<1> QED
  BY <1>2, <1>3, <1>4, <1>5, <1>6 DEF TimerNext

LEMMA CountStep == CountInv /\ [TimerNext]_timerVars => CountInv'
<1> SUFFICES ASSUME CountInv, [TimerNext]_timerVars PROVE CountInv'
  OBVIOUS
<1>1. TableInv'
  BY TableInvNext DEF CountInv
<1>2. IsFiniteSet(timer_queue')
  <2>1. PICK e : timer_queue' \subseteq timer_queue \cup {e}
    BY QueueStep DEF CountInv
  <2>2. IsFiniteSet(timer_queue \cup {e})
    BY FS_AddElement DEF CountInv
  <2> QED
    BY <2>1, <2>2, FS_Subset
<1>3. HangsOnlyWhenFull'
  <2>1. IdRange' = IdRange
    BY DEF IdRange
  <2>2. CASE spin
    <3>1. IdRange \subseteq DOMAIN time_maps /\ timer_queue' = timer_queue
      BY <2>2 DEF spin, Free
    <3>2. Cardinality(IdRange) <= Cardinality(timer_queue)
      BY <3>1, MappedAreCounted DEF CountInv, TableInv
    <3>3. Cardinality(IdRange) \in Nat /\ Cardinality(timer_queue) \in Nat
      <4>1. IsFiniteSet(IdRange)
        BY IdRangeIs, FS_Interval DEF IdRange
      <4> QED
        BY <4>1, FS_CardinalityType DEF CountInv
    <3> QED
      BY <2>1, <3>1, <3>2, <3>3 DEF HangsOnlyWhenFull
  <2>3. CASE ~ spin
    BY <2>1, <2>3, QueueStep DEF CountInv, HangsOnlyWhenFull
  <2> QED
    BY <2>2, <2>3
<1> QED
  BY <1>1, <1>2, <1>3 DEF CountInv

(* calc_new_id spins only when the tree holds at least as many timers as there
   are ids: no sequence of calls leaks an id from time_maps. *)
THEOREM TimerHangsOnlyWhenFull == TimerSpec => []HangsOnlyWhenFull
<1>1. TimerInit => CountInv
  BY TableInvInit, FS_EmptySet DEF TimerInit, CountInv, HangsOnlyWhenFull
<1>2. CountInv => HangsOnlyWhenFull
  BY DEF CountInv
<1> QED
  BY <1>1, <1>2, CountStep, PTL DEF TimerSpec

=============================================================================
