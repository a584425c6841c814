---------------------------- MODULE RawArcProofs ----------------------------
(***************************************************************************)
(* FromRawArc is safe for any number of threads and references, as long as *)
(* fetch_sub is called only to give a count back.  The inductive invariant *)
(* ties the counter to the references that exist, each owned once, and     *)
(* says where the knowledge of every thread's uses is kept until the box   *)
(* is dropped: in the counter, or with the owner of some reference.        *)
(***************************************************************************)
EXTENDS RawArc, FiniteSetTheorems, TLAPS

(* Every reference has one owner, and is a handle or a bare count. *)
OwnedOnce ==
    /\ \A t, u \in Thread : t # u => Owned(t) \cap Owned(u) = {}
    /\ \A t \in Thread : handles[t] \cap credits[t] = {}

CountIsExact == cnt = Cardinality(Live)

(* What a thread half way through a method owns: fetch_sub has its handle and,
   with a counter that was not 1, the count it gives back; a last reference is
   the only one. *)
MethodsOwn ==
    \A t \in Thread :
        /\ pc[t] = "using" => handles[t] # {}
        /\ pc[t] = "sub"   => handles[t] # {} /\ credits[t] # {}
        /\ pc[t] = "last"  => handles[t] # {} /\ Live = handles[t] /\ cnt = 1

(* Each thread knows its own uses; those of a thread are published, or known to
   the owner of a reference, who will publish them. *)
UsesKept ==
    \A u \in Thread :
        /\ u \in known[u]
        /\ u \in published \/ \E v \in Thread : Owned(v) # {} /\ u \in known[v]

ArcInv == /\ RawArcTypeOK /\ OwnedOnce /\ CountIsExact /\ MethodsOwn /\ UsesKept
          /\ NoUseAfterFree /\ NothingLeaks /\ UsesBeforeFree

-----------------------------------------------------------------------------
(* Counting. *)

LEMMA LiveIsFinite == IsFiniteSet(Live) /\ Cardinality(Live) \in Nat
  <1>1. Live \subseteq Ref
    BY DEF Live
  <1> QED
    BY <1>1, RefAssumption, FS_Subset, FS_CardinalityType

LEMMA OneMore ==
    ASSUME CountIsExact, NEW r \in Fresh, Live' = Live \cup {r}, cnt' = cnt + 1
    PROVE  CountIsExact'
  <1>1. r \notin Live
    BY DEF Fresh
  <1>2. Cardinality(Live \cup {r}) = Cardinality(Live) + 1
    BY <1>1, LiveIsFinite, FS_AddElement
  <1> QED
    BY <1>2 DEF CountIsExact

LEMMA OneLess ==
    ASSUME CountIsExact, NEW r \in Live, Live' = Live \ {r}, cnt' = cnt - 1
    PROVE  CountIsExact'
  <1>1. Cardinality(Live \ {r}) = Cardinality(Live) - 1
    BY LiveIsFinite, FS_RemoveElement
  <1> QED
    BY <1>1 DEF CountIsExact

LEMMA CountOfNone == CountIsExact => (cnt = 0 <=> Live = {})
  BY LiveIsFinite, FS_EmptySet DEF CountIsExact

LEMMA CountOfOne ==
    ASSUME CountIsExact, cnt = 1, NEW r \in Live
    PROVE  Live = {r}
  <1>1. Cardinality(Live) = 1
    BY DEF CountIsExact
  <1>2. IsFiniteSet(Live \ {r}) /\ Cardinality(Live \ {r}) = Cardinality(Live) - 1
    BY LiveIsFinite, FS_RemoveElement
  <1>3. Live \ {r} = {}
    BY <1>1, <1>2, FS_EmptySet
  <1> QED
    BY <1>3

-----------------------------------------------------------------------------
(* Steps. *)

(* A step that leaves the references and the counter alone. *)
LEMMA SameOwners ==
    ASSUME UNCHANGED <<cnt, handles, credits>>
    PROVE  /\ Live' = Live /\ \A t : Owned(t)' = Owned(t)
           /\ OwnedOnce => OwnedOnce'
           /\ CountIsExact => CountIsExact'
  BY DEF Live, Owned, OwnedOnce, CountIsExact

(* A thread gets a fresh reference, a handle or a count. *)
LEMMA GetsOne ==
    ASSUME ArcInv, NEW t \in Thread, NEW r \in Fresh,
           \/ handles' = [handles EXCEPT ![t] = @ \cup {r}] /\ UNCHANGED credits
           \/ credits' = [credits EXCEPT ![t] = @ \cup {r}] /\ UNCHANGED handles,
           fetch_add, pc[t] = "idle", UNCHANGED <<pc, freed, known, published>>,
           NEW v \in Thread, Owned(v) # {}, pc[v] \in {"idle", "using"}
    PROVE  ArcInv'
  <1>1. /\ Owned(t)' = Owned(t) \cup {r}
        /\ \A u \in Thread \ {t} : Owned(u)' = Owned(u)
    BY DEF ArcInv, RawArcTypeOK, Owned
  <1>2. Live' = Live \cup {r}
    BY <1>1 DEF Live, Fresh
  <1>3. RawArcTypeOK'
    BY DEF ArcInv, RawArcTypeOK, fetch_add, Fresh
  <1>4. r \in Ref /\ \A u \in Thread : r \notin Owned(u)
    BY DEF Fresh, Live
  <1>5. OwnedOnce'
    <2>1. \A u, w \in Thread : u # w => Owned(u)' \cap Owned(w)' = {}
      BY <1>1, <1>4 DEF ArcInv, OwnedOnce
    <2>2. \A u \in Thread : handles'[u] \cap credits'[u] = {}
      BY <1>4 DEF ArcInv, OwnedOnce, RawArcTypeOK, Owned
    <2> QED
      BY <2>1, <2>2 DEF OwnedOnce
  <1>6. CountIsExact'
    BY <1>2, OneMore DEF ArcInv, fetch_add
  <1>7. \A u \in Thread : pc[u] # "last"
    <2>1. PICK q \in Ref : q \in Owned(v)
      BY DEF ArcInv, RawArcTypeOK, Owned
    <2>2. SUFFICES ASSUME NEW u \in Thread, pc[u] = "last"
                   PROVE  FALSE
      OBVIOUS
    <2>3. q \in handles[u]
      BY <2>1, <2>2 DEF ArcInv, MethodsOwn, Live
    <2> QED
      BY <2>1, <2>2, <2>3 DEF ArcInv, OwnedOnce, Owned
  <1>8. MethodsOwn'
    BY <1>7 DEF ArcInv, MethodsOwn, RawArcTypeOK
  <1>9. UsesKept'
    BY <1>1 DEF ArcInv, UsesKept
  <1>10. NoUseAfterFree' /\ NothingLeaks' /\ UsesBeforeFree'
    <2>1. Live' # {}
      BY <1>2
    <2>2. Live # {}
      BY DEF Live, Owned, ArcInv, RawArcTypeOK
    <2>3. ~ freed /\ \A u \in Thread : pc[u] \notin {"fence", "free"}
      BY <2>2 DEF ArcInv, NoUseAfterFree, DropsAlone
    <2> QED
      BY <2>1, <2>3 DEF NoUseAfterFree, NothingLeaks, UsesBeforeFree
  <1> QED
    BY <1>3, <1>5, <1>6, <1>8, <1>9, <1>10 DEF ArcInv

(* A method's thread that has or just had a reference is not overtaken by the
   end of the box. *)
LEMMA NotYetFreed ==
    ASSUME ArcInv, NEW r, r \in Live
    PROVE  ~ freed /\ \A u \in Thread : pc[u] \notin {"fence", "free"}
  BY DEF ArcInv, NoUseAfterFree, DropsAlone

LEMMA SendKeeps ==
    ASSUME ArcInv, NEW t \in Thread, NEW w \in Thread, send(t, w)
    PROVE  ArcInv'
  <1>1. PICK r \in handles[t] : handles' = [handles EXCEPT ![t] = @ \ {r}, ![w] = @ \cup {r}]
    BY DEF send
  <1>2. /\ t # w /\ pc[t] = "idle"
        /\ known' = [known EXCEPT ![w] = @ \cup known[t]]
        /\ UNCHANGED <<cnt, credits, pc, freed, published>>
    BY DEF send
  <1>3. RawArcTypeOK'
    BY <1>1, <1>2 DEF ArcInv, RawArcTypeOK
  <1>4. r \in Owned(t) /\ r \in Ref /\ \A u \in Thread \ {t} : r \notin Owned(u)
    BY DEF ArcInv, RawArcTypeOK, Owned, OwnedOnce
  <1>5. /\ Owned(t)' = Owned(t) \ {r}
        /\ Owned(w)' = Owned(w) \cup {r}
        /\ \A u \in Thread \ {t, w} : Owned(u)' = Owned(u)
    BY <1>1, <1>2, <1>4 DEF ArcInv, RawArcTypeOK, Owned, OwnedOnce
  <1>6. Live' = Live
    BY <1>2, <1>4, <1>5 DEF Live
  <1>7. OwnedOnce'
    <2>1. \A u, v \in Thread : u # v => Owned(u)' \cap Owned(v)' = {}
      BY <1>4, <1>5 DEF ArcInv, OwnedOnce
    <2>2. \A u \in Thread : handles'[u] \cap credits'[u] = {}
      BY <1>1, <1>2, <1>4 DEF ArcInv, OwnedOnce, RawArcTypeOK, Owned
    <2> QED
      BY <2>1, <2>2 DEF OwnedOnce
  <1>8. CountIsExact'
    BY <1>2, <1>6 DEF ArcInv, CountIsExact
  <1>9. \A u \in Thread : pc[u] # "last"
    BY <1>2, <1>4 DEF ArcInv, MethodsOwn, Live, Owned, OwnedOnce
  <1>10. MethodsOwn'
    BY <1>1, <1>2, <1>9 DEF ArcInv, MethodsOwn, RawArcTypeOK
  <1>11. UsesKept'
    <2>1. known[t] \subseteq known'[w] /\ \A u \in Thread : known[u] \subseteq known'[u]
      BY <1>2 DEF ArcInv, RawArcTypeOK
    <2>2. Owned(w)' # {} /\ \A u \in Thread \ {t} : Owned(u) # {} => Owned(u)' # {}
      BY <1>2, <1>5
    <2>3. \A u \in Thread : u \in known'[u]
      BY <2>1 DEF ArcInv, UsesKept
    <2>4. \A u \in Thread : u \in published' \/ \E v \in Thread : Owned(v)' # {} /\ u \in known'[v]
      BY <1>2, <2>1, <2>2 DEF ArcInv, UsesKept
    <2> QED
      BY <2>3, <2>4 DEF UsesKept
  <1>12. r \in Live
    BY <1>4 DEF Live
  <1>13. NoUseAfterFree' /\ NothingLeaks' /\ UsesBeforeFree'
    BY <1>2, <1>6, <1>12, NotYetFreed DEF NoUseAfterFree, NothingLeaks, UsesBeforeFree
  <1> QED
    BY <1>3, <1>7, <1>8, <1>10, <1>11, <1>13 DEF ArcInv

LEMMA UseKeeps ==
    ASSUME ArcInv, NEW t \in Thread, use(t)
    PROVE  ArcInv'
  <1>1. /\ handles[t] # {} /\ pc[t] = "idle" /\ pc' = [pc EXCEPT ![t] = "using"]
        /\ known' = [u \in Thread |-> IF u = t THEN known[u] ELSE known[u] \ {t}]
        /\ published' = published \ {t}
        /\ UNCHANGED <<cnt, handles, credits, freed>>
    BY DEF use, Transition
  <1>2. RawArcTypeOK'
    BY <1>1 DEF ArcInv, RawArcTypeOK
  <1>3. /\ Live' = Live /\ \A u : Owned(u)' = Owned(u)
        /\ OwnedOnce' /\ CountIsExact'
    BY <1>1, SameOwners DEF ArcInv
  <1>4. MethodsOwn'
    BY <1>1, <1>3 DEF ArcInv, MethodsOwn, RawArcTypeOK
  <1>5. UsesKept'
    BY <1>1, <1>3 DEF ArcInv, UsesKept, Owned
  <1>6. PICK r \in Ref : r \in Live
    BY <1>1 DEF ArcInv, RawArcTypeOK, Live, Owned
  <1>7. NoUseAfterFree' /\ NothingLeaks' /\ UsesBeforeFree'
    BY <1>1, <1>3, <1>6, NotYetFreed
    DEF ArcInv, RawArcTypeOK, NoUseAfterFree, NothingLeaks, UsesBeforeFree
  <1> QED
    BY <1>2, <1>3, <1>4, <1>5, <1>7 DEF ArcInv

LEMMA UseDoneKeeps ==
    ASSUME ArcInv, NEW t \in Thread, use_done(t)
    PROVE  ArcInv'
  <1>1. /\ pc[t] = "using" /\ pc' = [pc EXCEPT ![t] = "idle"]
        /\ UNCHANGED <<cnt, handles, credits, freed, known, published>>
    BY DEF use_done, Transition
  <1>2. RawArcTypeOK'
    BY <1>1 DEF ArcInv, RawArcTypeOK
  <1>3. /\ Live' = Live /\ \A u : Owned(u)' = Owned(u)
        /\ OwnedOnce' /\ CountIsExact'
    BY <1>1, SameOwners DEF ArcInv
  <1>4. MethodsOwn' /\ UsesKept'
    BY <1>1, <1>3 DEF ArcInv, MethodsOwn, UsesKept, RawArcTypeOK
  <1>5. PICK r \in Ref : r \in Live
    BY <1>1 DEF ArcInv, MethodsOwn, RawArcTypeOK, Live, Owned
  <1>6. NoUseAfterFree' /\ NothingLeaks' /\ UsesBeforeFree'
    BY <1>1, <1>3, <1>5, NotYetFreed
    DEF ArcInv, RawArcTypeOK, NoUseAfterFree, NothingLeaks, UsesBeforeFree
  <1> QED
    BY <1>2, <1>3, <1>4, <1>6 DEF ArcInv

(* A decrement: the thread gives up one of its references and publishes what it
   knows.  The thread that gives up the last one goes on to the fence. *)
LEMMA GivesUpOne ==
    ASSUME ArcInv, NEW t \in Thread, NEW r \in Ref,
           \/ /\ r \in handles[t] /\ handles' = [handles EXCEPT ![t] = @ \ {r}]
              /\ UNCHANGED credits
           \/ /\ r \in credits[t] /\ credits' = [credits EXCEPT ![t] = @ \ {r}]
              /\ UNCHANGED handles,
           cnt' = cnt - 1, Release(t), UNCHANGED <<freed, known>>,
           pc[t] \in {"idle", "last", "sub"},
           pc' = [pc EXCEPT ![t] = IF cnt = 1 THEN "fence" ELSE "idle"]
    PROVE  ArcInv'
  <1>1. r \in Owned(t) /\ r \in Live /\ \A u \in Thread \ {t} : r \notin Owned(u)
    BY DEF ArcInv, Owned, OwnedOnce, Live
  <1>2. /\ Owned(t)' = Owned(t) \ {r}
        /\ \A u \in Thread \ {t} : Owned(u)' = Owned(u) /\ handles'[u] = handles[u]
                                   /\ credits'[u] = credits[u]
    BY DEF ArcInv, RawArcTypeOK, Owned, OwnedOnce
  <1>3. Live' = Live \ {r}
    BY <1>1, <1>2 DEF Live
  <1>4. CountIsExact'
    BY <1>1, <1>3, OneLess DEF ArcInv
  <1>5. cnt \in Nat /\ cnt # 0
    BY <1>1, CountOfNone DEF ArcInv, RawArcTypeOK
  <1>6. RawArcTypeOK'
    BY <1>5 DEF ArcInv, RawArcTypeOK, Release
  <1>7. OwnedOnce'
    BY <1>2 DEF ArcInv, OwnedOnce, RawArcTypeOK
  <1>8. ~ freed /\ \A u \in Thread : pc[u] \notin {"fence", "free"}
    BY <1>1, NotYetFreed
  <1>9. \A u \in Thread \ {t} : pc[u] # "last"
    BY <1>1 DEF ArcInv, MethodsOwn, Owned
  <1>10. MethodsOwn'
    BY <1>2, <1>9 DEF ArcInv, MethodsOwn, RawArcTypeOK
  <1>11. UsesKept'
    <2>1. published' = published \cup known[t]
      BY DEF Release
    <2>2. \A u \in Thread : u \in published' \/ \E v \in Thread : Owned(v)' # {} /\ u \in known'[v]
      BY <1>2, <2>1 DEF ArcInv, UsesKept
    <2> QED
      BY <2>2 DEF ArcInv, UsesKept
  <1>12. CASE cnt = 1
    <2>1. Live' = {}
      BY <1>1, <1>3, <1>12, CountOfOne DEF ArcInv
    <2>2. \A u \in Thread \ {t} : pc[u] = "idle"
      <3>1. \A u \in Thread \ {t} : Owned(u) = {}
        BY <1>2, <2>1 DEF ArcInv, RawArcTypeOK, Owned, Live
      <3> QED
        BY <1>8, <1>9, <3>1 DEF ArcInv, MethodsOwn, Owned, RawArcTypeOK
    <2>3. NoUseAfterFree' /\ NothingLeaks' /\ UsesBeforeFree'
      BY <1>8, <1>12, <2>1, <2>2
      DEF ArcInv, RawArcTypeOK, NoUseAfterFree, DropsAlone, NothingLeaks, UsesBeforeFree
    <2> QED
      BY <1>4, <1>6, <1>7, <1>10, <1>11, <2>3 DEF ArcInv
  <1>13. CASE cnt # 1
    <2>1. cnt' # 0
      BY <1>5, <1>13
    <2>2. Live' # {}
      <3>1. (CountIsExact => (cnt = 0 <=> Live = {}))'
        BY CountOfNone, PTL
      <3> QED
        BY <1>4, <2>1, <3>1
    <2>3. \A u \in Thread : pc'[u] \notin {"fence", "free"}
      BY <1>8, <1>13 DEF ArcInv, RawArcTypeOK
    <2>4. NoUseAfterFree' /\ NothingLeaks' /\ UsesBeforeFree'
      BY <1>8, <2>2, <2>3 DEF NoUseAfterFree, NothingLeaks, UsesBeforeFree
    <2> QED
      BY <1>4, <1>6, <1>7, <1>10, <1>11, <2>4 DEF ArcInv
  <1> QED
    BY <1>12, <1>13

LEMMA DropKeeps ==
    ASSUME ArcInv, NEW t \in Thread, drop_from(t, "idle") \/ drop_from(t, "last")
    PROVE  ArcInv'
  <1>1. PICK r \in handles[t] : handles' = [handles EXCEPT ![t] = @ \ {r}]
    BY DEF drop_from
  <1>2. r \in Ref
    BY DEF ArcInv, RawArcTypeOK
  <1> QED
    BY <1>1, <1>2, GivesUpOne DEF drop_from, Transition

LEMMA FetchSubKeeps ==
    ASSUME Credited, ArcInv, NEW t \in Thread, fetch_sub(t)
    PROVE  ArcInv'
  <1>1. /\ handles[t] # {} /\ pc[t] = "idle"
        /\ pc' = [pc EXCEPT ![t] = IF cnt = 1 THEN "last" ELSE "sub"]
        /\ UNCHANGED <<cnt, handles, credits, freed, known, published>>
    BY DEF fetch_sub, Transition
  <1>2. RawArcTypeOK'
    BY <1>1 DEF ArcInv, RawArcTypeOK
  <1>3. /\ Live' = Live /\ \A u : Owned(u)' = Owned(u)
        /\ OwnedOnce' /\ CountIsExact'
    BY <1>1, SameOwners DEF ArcInv
  <1>4. PICK r \in Ref : r \in Live /\ r \in handles[t]
    BY <1>1 DEF ArcInv, RawArcTypeOK, Live, Owned
  <1>5. cnt # 1 => credits[t] # {}
    <2>1. Live = {r} => cnt = 1
      BY FS_Singleton DEF ArcInv, CountIsExact
    <2> QED
      BY <1>4, <2>1 DEF fetch_sub
  <1>6. cnt = 1 => Live = handles[t]
    <2>1. cnt = 1 => Live = {r}
      BY <1>4, CountOfOne DEF ArcInv
    <2>2. handles[t] \subseteq Live
      BY DEF ArcInv, RawArcTypeOK, Live, Owned
    <2> QED
      BY <1>4, <2>1, <2>2
  <1>7. MethodsOwn'
    BY <1>1, <1>3, <1>5, <1>6 DEF ArcInv, MethodsOwn, RawArcTypeOK
  <1>8. UsesKept'
    BY <1>1, <1>3 DEF ArcInv, UsesKept
  <1>9. NoUseAfterFree' /\ NothingLeaks' /\ UsesBeforeFree'
    BY <1>1, <1>3, <1>4, NotYetFreed
    DEF ArcInv, RawArcTypeOK, NoUseAfterFree, NothingLeaks, UsesBeforeFree
  <1> QED
    BY <1>2, <1>3, <1>7, <1>8, <1>9 DEF ArcInv

LEMMA FetchSubSomeKeeps ==
    ASSUME ArcInv, NEW t \in Thread, fetch_sub_some(t)
    PROVE  ArcInv'
  <1>1. pc[t] = "sub" /\ handles[t] # {} /\ credits[t] # {}
    BY DEF fetch_sub_some, Transition, ArcInv, MethodsOwn
  <1>2. PICK r \in credits[t] : credits' = [credits EXCEPT ![t] = @ \ {r}]
    BY <1>1 DEF fetch_sub_some
  <1>3. r \in Ref
    BY DEF ArcInv, RawArcTypeOK
  <1>4. cnt # 1
    <2>1. PICK q \in Ref : q \in handles[t]
      BY <1>1 DEF ArcInv, RawArcTypeOK
    <2>2. q \in Live /\ r \in Live /\ q # r
      BY <1>3, <2>1 DEF Live, Owned, ArcInv, OwnedOnce
    <2> QED
      BY <2>2, CountOfOne DEF ArcInv
  <1> QED
    BY <1>1, <1>2, <1>3, <1>4, GivesUpOne DEF fetch_sub_some, Transition

LEMMA FenceKeeps ==
    ASSUME ArcInv, NEW t \in Thread, fence(t)
    PROVE  ArcInv'
  <1>1. /\ pc[t] = "fence" /\ pc' = [pc EXCEPT ![t] = "free"]
        /\ known' = [known EXCEPT ![t] = @ \cup published]
        /\ UNCHANGED <<cnt, handles, credits, freed, published>>
    BY DEF fence, Transition, Acquire
  <1>2. RawArcTypeOK'
    BY <1>1 DEF ArcInv, RawArcTypeOK
  <1>3. /\ Live' = Live /\ \A u : Owned(u)' = Owned(u)
        /\ OwnedOnce' /\ CountIsExact'
    BY <1>1, SameOwners DEF ArcInv
  <1>4. Live = {} /\ ~ freed /\ \A u \in Thread \ {t} : pc[u] = "idle"
    BY <1>1 DEF ArcInv, NoUseAfterFree, DropsAlone
  <1>5. \A v \in Thread : Owned(v) = {}
    BY <1>4 DEF Live, Owned, ArcInv, RawArcTypeOK
  <1>6. published = Thread
    BY <1>5 DEF ArcInv, UsesKept, RawArcTypeOK
  <1>7. known'[t] = Thread
    BY <1>1, <1>6 DEF ArcInv, RawArcTypeOK
  <1>8. MethodsOwn' /\ UsesKept'
    BY <1>1, <1>3, <1>4, <1>6 DEF ArcInv, MethodsOwn, UsesKept, RawArcTypeOK
  <1>9. NoUseAfterFree' /\ NothingLeaks' /\ UsesBeforeFree'
    BY <1>1, <1>3, <1>4, <1>7
    DEF ArcInv, RawArcTypeOK, NoUseAfterFree, DropsAlone, NothingLeaks, UsesBeforeFree
  <1> QED
    BY <1>2, <1>3, <1>8, <1>9 DEF ArcInv

LEMMA DropBoxKeeps ==
    ASSUME ArcInv, NEW t \in Thread, drop_box(t)
    PROVE  ArcInv'
  <1>1. /\ pc[t] = "free" /\ pc' = [pc EXCEPT ![t] = "idle"] /\ freed' = TRUE
        /\ UNCHANGED <<cnt, handles, credits, known, published>>
    BY DEF drop_box, Transition
  <1>2. RawArcTypeOK'
    BY <1>1 DEF ArcInv, RawArcTypeOK
  <1>3. /\ Live' = Live /\ \A u : Owned(u)' = Owned(u)
        /\ OwnedOnce' /\ CountIsExact'
    BY <1>1, SameOwners DEF ArcInv
  <1>4. Live = {} /\ \A u \in Thread \ {t} : pc[u] = "idle"
    BY <1>1 DEF ArcInv, NoUseAfterFree, DropsAlone
  <1>5. MethodsOwn' /\ UsesKept'
    BY <1>1, <1>3, <1>4 DEF ArcInv, MethodsOwn, UsesKept, RawArcTypeOK
  <1>6. NoUseAfterFree' /\ NothingLeaks' /\ UsesBeforeFree'
    BY <1>1, <1>3, <1>4
    DEF ArcInv, RawArcTypeOK, NoUseAfterFree, DropsAlone, NothingLeaks, UsesBeforeFree
  <1> QED
    BY <1>2, <1>3, <1>5, <1>6 DEF ArcInv

-----------------------------------------------------------------------------
LEMMA InitArcInv == Init => ArcInv
  <1> SUFFICES ASSUME Init
               PROVE  ArcInv
    OBVIOUS
  <1>1. PICK t \in Thread, r \in Ref : handles = [u \in Thread |-> IF u = t THEN {r} ELSE {}]
    BY DEF Init
  <1>2. credits = [u \in Thread |-> {}]
    BY DEF Init
  <1>3. Live = {r} /\ Owned(t) = {r} /\ \A u \in Thread \ {t} : Owned(u) = {}
    BY <1>1, <1>2 DEF Live, Owned
  <1>4. CountIsExact
    BY <1>3, FS_Singleton DEF Init, CountIsExact
  <1>5. RawArcTypeOK /\ OwnedOnce
    BY <1>1, <1>2 DEF Init, RawArcTypeOK, OwnedOnce, Owned
  <1>6. MethodsOwn /\ UsesKept
    BY DEF Init, MethodsOwn, UsesKept
  <1>7. NoUseAfterFree /\ NothingLeaks /\ UsesBeforeFree
    BY <1>3 DEF Init, NoUseAfterFree, NothingLeaks, UsesBeforeFree
  <1> QED
    BY <1>4, <1>5, <1>6, <1>7 DEF ArcInv

LEMMA NextArcInv == Credited /\ ArcInv /\ [Next]_vars => ArcInv'
  <1> SUFFICES ASSUME Credited, ArcInv, [Next]_vars
               PROVE  ArcInv'
    OBVIOUS
  <1>1. ASSUME NEW t \in Thread, Step(t)
        PROVE  ArcInv'
    <2>1. ASSUME clone(t)
          PROVE  ArcInv'
      <3>1. PICK v \in Thread, r \in Fresh :
                Borrowable(v) /\ handles' = [handles EXCEPT ![t] = @ \cup {r}]
        BY <2>1 DEF clone
      <3> QED
        BY <2>1, <3>1, GetsOne DEF clone, Borrowable, Owned
    <2>2. ASSUME from_raw(t)
          PROVE  ArcInv'
      BY <2>2, GetsOne DEF from_raw
    <2>3. ASSUME take_count(t)
          PROVE  ArcInv'
      BY <2>3, GetsOne DEF take_count, Owned
    <2>4. CASE \E u \in Thread : send(t, u)
      BY <2>4, SendKeeps
    <2>5. CASE use(t) \/ use_done(t)
      BY <2>5, UseKeeps, UseDoneKeeps
    <2>6. CASE drop(t) \/ fetch_sub_last(t)
      BY <2>6, DropKeeps DEF drop, fetch_sub_last
    <2>7. CASE fence(t) \/ drop_box(t)
      BY <2>7, FenceKeeps, DropBoxKeeps
    <2>8. CASE fetch_sub(t) \/ fetch_sub_some(t)
      BY <2>8, FetchSubKeeps, FetchSubSomeKeeps
    <2> QED
      BY <1>1, <2>1, <2>2, <2>3, <2>4, <2>5, <2>6, <2>7, <2>8 DEF Step
  <1>2. CASE UNCHANGED vars
    <2>1. /\ Live' = Live /\ \A u : Owned(u)' = Owned(u)
          /\ OwnedOnce' /\ CountIsExact'
      BY <1>2, SameOwners DEF ArcInv, vars
    <2>2. RawArcTypeOK' /\ MethodsOwn' /\ UsesKept'
      BY <1>2, <2>1 DEF ArcInv, RawArcTypeOK, MethodsOwn, UsesKept, vars
    <2>3. NoUseAfterFree' /\ NothingLeaks' /\ UsesBeforeFree'
      BY <1>2, <2>1 DEF ArcInv, NoUseAfterFree, DropsAlone, NothingLeaks, UsesBeforeFree, vars
    <2> QED
      BY <2>1, <2>2, <2>3 DEF ArcInv
  <1> QED
    BY <1>1, <1>2 DEF Next

LEMMA ArcInvariant == ASSUME Credited PROVE Spec => []ArcInv
  <1>1. ArcInv /\ [Next]_vars => ArcInv'
    BY NextArcInv
  <1> QED
    BY <1>1, InitArcInv, PTL DEF Spec

(* The variables of FromRawArc keep their types: the counter never goes below
   zero, for any number of threads (from_raw_arc.rs:32-103). *)
THEOREM ArcTypeCorrect == ASSUME Credited PROVE Spec => []RawArcTypeOK
  BY ArcInvariant, PTL DEF ArcInv

(* No thread touches the allocation once one has begun to drop it, and one only
   does, however their clones, moves, drops and fetch_subs interleave
   (from_raw_arc.rs:95-104). *)
THEOREM SafeToDrop == ASSUME Credited PROVE Spec => []NoUseAfterFree
  BY ArcInvariant, PTL DEF ArcInv

(* When no reference is left the box has been dropped, or is about to be
   (from_raw_arc.rs:95-104). *)
THEOREM LastOneDrops == ASSUME Credited PROVE Spec => []NothingLeaks
  BY ArcInvariant, PTL DEF ArcInv

(* Every use of the data by any thread happens before the drop of the box: the
   orderings of the counter are strong enough (from_raw_arc.rs:97-103). *)
THEOREM OrderedDrop == ASSUME Credited PROVE Spec => []UsesBeforeFree
  BY ArcInvariant, PTL DEF ArcInv
=============================================================================
