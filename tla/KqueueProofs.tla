---------------------------- MODULE KqueueProofs ----------------------------
(***************************************************************************)
(* What the kqueue selector promises of the callbacks and of the kernel's  *)
(* filters, proved for every set of descriptors and sockets, and whatever  *)
(* the kernel answers to a list of changes.  In order: what kevent makes   *)
(* of a list, by induction on it; the service of the sockets; the reports  *)
(* in sys_events, which go back to the kernel as changes; the filters.     *)
(* The first three need nothing of the program, nor does the extent of the *)
(* filters; that they serve every socket needs end callbacks that neither  *)
(* open a socket nor send (QuietEnds).                                     *)
(***************************************************************************)
EXTENDS KqueueSelector, UnixSocketsProofs, WellFoundedInduction

-----------------------------------------------------------------------------
(* What kevent makes of a list of changes, by induction on the list. *)
Change == [fd : Fd, filter : Filter, op : {"seen", "add", "delete"}]
Answer == [filters : [Fd -> SUBSET Filter], ok : BOOLEAN]

LEMMA LessIsWellFounded == IsWellFoundedOn({p \in Nat \X Nat : p[1] < p[2]}, Nat)
  BY NatLessThanWellFounded, Zenon DEF OpToRel

LEMMA InductionOnNat ==
    ASSUME NEW S, 0 \in S, \A n \in Nat : n \in S => n + 1 \in S
    PROVE  Nat \subseteq S
  <1> DEFINE R == {p \in Nat \X Nat : p[1] < p[2]}
             T == Nat \ S
  <1> SUFFICES ASSUME T # {} PROVE FALSE
    OBVIOUS
  <1>1. IsWellFoundedOn(R, Nat) /\ T \subseteq Nat
    BY LessIsWellFounded
  <1>2. PICK x \in T : \A y \in T : ~ (<<y, x>> \in R)
    <2> HIDE DEF R, T
    <2> QED
      BY <1>1, WFMin
  <1>3. x - 1 \in Nat /\ x - 1 < x
    OBVIOUS
  <1>4. x - 1 \in S
    BY <1>2, <1>3
  <1> QED
    BY <1>3, <1>4

(* One change, case by case. *)
LEMMA TakesIs ==
    ASSUME NEW r \in Answer, NEW c \in Change, NEW open, NEW keeps_add,
           NEW t, t = takes(r, c, open, keeps_add)
    PROVE  /\ t \in Answer
           /\ \A f \in Fd, x \in Filter :
                 /\ x \in t.filters[f] =>
                       \/ x \in r.filters[f]
                       \/ c.fd = f /\ c.filter = x /\ f \in open /\ c.op \in {"add", "seen"}
                 /\ x \in r.filters[f] =>
                       x \in t.filters[f] \/ (c.fd = f /\ c.filter = x /\ c.op = "delete")
           /\ t.ok => r.ok /\ (c.op = "add" => c.filter \in t.filters[c.fd])
           /\ r.ok /\ (\/ c.op = "seen" /\ c.filter \in r.filters[c.fd]
                       \/ c.op = "add" /\ c.fd \in open) => t.ok
  <1> DEFINE there == c.filter \in r.filters[c.fd]
             puts  == /\ r.ok /\ c.fd \in open
                      /\ c.op = "add" \/ (c.op = "seen" /\ ~there /\ keeps_add)
  <1>0. /\ c.fd \in Fd /\ c.filter \in Filter /\ c.op \in {"seen", "add", "delete"}
        /\ r.filters \in [Fd -> SUBSET Filter] /\ r.ok \in BOOLEAN
    BY DEF Change, Answer
  <1>1. CASE ~r.ok \/ (c.op = "seen" /\ there)
    <2>1. t = r
      BY <1>1 DEF takes
    <2> QED
      BY <1>0, <1>1, <2>1
  <1>2. CASE r.ok /\ c.op = "delete" /\ there
    <2>1. t = [r EXCEPT !.filters[c.fd] = @ \ {c.filter}]
      BY <1>2 DEF takes
    <2>2. t \in Answer /\ t.ok /\ t.filters = [r.filters EXCEPT ![c.fd] = @ \ {c.filter}]
      BY <1>0, <1>2, <2>1 DEF Answer
    <2> QED
      BY <1>0, <1>2, <2>2
  <1>3. CASE puts
    <2>1. t = [r EXCEPT !.filters[c.fd] = @ \cup {c.filter}]
      BY <1>0, <1>3 DEF takes
    <2>2. t \in Answer /\ t.ok /\ t.filters = [r.filters EXCEPT ![c.fd] = @ \cup {c.filter}]
      BY <1>0, <1>3, <2>1 DEF Answer
    <2> QED
      BY <1>0, <1>3, <2>2
  <1>4. CASE ~(~r.ok \/ (c.op = "seen" /\ there)) /\ ~(r.ok /\ c.op = "delete" /\ there) /\ ~puts
    <2>1. t = [r EXCEPT !.ok = FALSE]
      BY <1>4 DEF takes
    <2>2. t \in Answer /\ ~t.ok /\ t.filters = r.filters
      BY <1>0, <2>1 DEF Answer
    <2> QED
      BY <1>0, <1>4, <2>2
  <1> QED
    BY <1>1, <1>2, <1>3, <1>4

(* The recursive function of kevent exists, for lists of every length. *)
Took(g, n, list, open, keeps_add) ==
    g = [m \in 0 .. n |-> IF m = 0 THEN [filters |-> filters, ok |-> TRUE]
                          ELSE takes(g[m - 1], list[m], open, keeps_add)]

LEMMA TookExists ==
    ASSUME NEW list, NEW open, NEW keeps_add
    PROVE  \A n \in Nat : \E g : Took(g, n, list, open, keeps_add)
  <1> DEFINE S == {n \in Nat : \E g : Took(g, n, list, open, keeps_add)}
  <1>1. 0 \in S
    <2> DEFINE g == [m \in 0 .. 0 |-> [filters |-> filters, ok |-> TRUE]]
    <2>1. Took(g, 0, list, open, keeps_add)
      BY DEF Took
    <2> QED
      BY <2>1
  <1>2. ASSUME NEW n \in Nat, n \in S PROVE n + 1 \in S
    <2>1. PICK g : Took(g, n, list, open, keeps_add)
      BY <1>2
    <2> DEFINE h == [m \in 0 .. n + 1 |-> IF m <= n THEN g[m]
                                          ELSE takes(g[n], list[n + 1], open, keeps_add)]
    <2>2. \A m \in 1 .. n : g[m] = takes(g[m - 1], list[m], open, keeps_add)
      <3>1. \A m \in 0 .. n : g[m] = IF m = 0 THEN [filters |-> filters, ok |-> TRUE]
                                     ELSE takes(g[m - 1], list[m], open, keeps_add)
        BY <2>1, Zenon DEF Took
      <3> QED
        BY <3>1
    <2>3. g[0] = [filters |-> filters, ok |-> TRUE]
      BY <2>1 DEF Took
    <2>4. h[0] = [filters |-> filters, ok |-> TRUE]
      BY <2>3
    <2>5. \A m \in 1 .. n + 1 : h[m] = takes(h[m - 1], list[m], open, keeps_add)
      <3> SUFFICES ASSUME NEW m \in 1 .. n + 1
                   PROVE  h[m] = takes(h[m - 1], list[m], open, keeps_add)
        OBVIOUS
      <3>1. CASE m = n + 1
        <4>1. h[n + 1] = takes(g[n], list[n + 1], open, keeps_add)
              /\ h[n] = g[n] /\ (n + 1) - 1 = n
          OBVIOUS
        <4> HIDE DEF h
        <4> QED
          BY <3>1, <4>1
      <3>2. CASE m \in 1 .. n
        <4>1. h[m] = g[m] /\ h[m - 1] = g[m - 1]
          BY <3>2
        <4> HIDE DEF h
        <4> QED
          BY <2>2, <3>2, <4>1
      <3> QED
        BY <3>1, <3>2
    <2>6. h = [m \in 0 .. n + 1 |-> h[m]]
      OBVIOUS
    <2> HIDE DEF h
    <2>7. h = [m \in 0 .. n + 1 |-> IF m = 0 THEN [filters |-> filters, ok |-> TRUE]
                                    ELSE takes(h[m - 1], list[m], open, keeps_add)]
      <3>1. \A m \in 0 .. n + 1 : h[m] = IF m = 0 THEN [filters |-> filters, ok |-> TRUE]
                                         ELSE takes(h[m - 1], list[m], open, keeps_add)
        BY <2>4, <2>5
      <3> QED
        BY <2>6, <3>1, Zenon
    <2> QED
      BY <2>7 DEF Took
  <1> HIDE DEF S
  <1>3. Nat \subseteq S
    BY <1>1, <1>2, InductionOnNat
  <1> QED
    BY <1>3 DEF S

(* What is known of the answer a after the first n changes: only changes add or
   delete filters; while all is well every change so far has been made; and
   reports of filters that are there and additions to open descriptors are never
   refused. *)
After(a, n, list, open) ==
    /\ a \in Answer
    /\ \A f \in Fd, x \in Filter :
          /\ x \in a.filters[f] =>
                \/ x \in filters[f]
                \/ /\ f \in open
                   /\ \E i \in 1 .. n : list[i].fd = f /\ list[i].filter = x
                                        /\ list[i].op \in {"add", "seen"}
          /\ x \in filters[f] =>
                \/ x \in a.filters[f]
                \/ \E i \in 1 .. n : list[i].fd = f /\ list[i].filter = x /\ list[i].op = "delete"
    /\ a.ok /\ (\A i \in 1 .. n : list[i].op # "delete") =>
          \A i \in 1 .. n : list[i].op = "add" => list[i].filter \in a.filters[list[i].fd]
    /\ (\A i \in 1 .. n : \/ list[i].op = "seen" /\ list[i].filter \in filters[list[i].fd]
                          \/ list[i].op = "add" /\ list[i].fd \in open) => a.ok

LEMMA AfterOne ==
    ASSUME NEW list \in Seq(Change), NEW open, NEW keeps_add, NEW n \in Nat, n < Len(list),
           NEW a, After(a, n, list, open), NEW b, b = takes(a, list[n + 1], open, keeps_add)
    PROVE  After(b, n + 1, list, open)
  <1>0. PICK c \in Change : c = list[n + 1]
    BY SMT
  <1>1. /\ b \in Answer
        /\ \A f \in Fd, x \in Filter :
              /\ x \in b.filters[f] =>
                    \/ x \in a.filters[f]
                    \/ c.fd = f /\ c.filter = x /\ f \in open /\ c.op \in {"add", "seen"}
              /\ x \in a.filters[f] =>
                    x \in b.filters[f] \/ (c.fd = f /\ c.filter = x /\ c.op = "delete")
        /\ b.ok => a.ok /\ (c.op = "add" => c.filter \in b.filters[c.fd])
        /\ a.ok /\ (\/ c.op = "seen" /\ c.filter \in a.filters[c.fd]
                    \/ c.op = "add" /\ c.fd \in open) => b.ok
    BY <1>0, TakesIs DEF After
  <1>2. \A i \in 1 .. n + 1 : i \in 1 .. n \/ i = n + 1
    OBVIOUS
  <1>3. \A i \in 1 .. n : i \in 1 .. n + 1 /\ i \in 1 .. Len(list)
    BY SMT
  <1>4. n + 1 \in 1 .. n + 1
    OBVIOUS
  <1>5. \A i \in 1 .. Len(list) : list[i] \in Change
    BY SMT
  <1>6. \A f \in Fd, x \in Filter :
           x \in b.filters[f] =>
              \/ x \in filters[f]
              \/ /\ f \in open
                 /\ \E i \in 1 .. n + 1 : list[i].fd = f /\ list[i].filter = x
                                          /\ list[i].op \in {"add", "seen"}
    <2> SUFFICES ASSUME NEW f \in Fd, NEW x \in Filter, x \in b.filters[f], x \notin filters[f]
                 PROVE  /\ f \in open
                        /\ \E i \in 1 .. n + 1 : list[i].fd = f /\ list[i].filter = x
                                                 /\ list[i].op \in {"add", "seen"}
      OBVIOUS
    <2>1. CASE x \in a.filters[f]
      <3>1. f \in open /\ \E i \in 1 .. n : list[i].fd = f /\ list[i].filter = x
                                            /\ list[i].op \in {"add", "seen"}
        BY <2>1 DEF After
      <3> QED
        BY <3>1, <1>3
    <2>2. CASE x \notin a.filters[f]
      BY <2>2, <1>0, <1>1, <1>4
    <2> QED
      BY <2>1, <2>2
  <1>7. \A f \in Fd, x \in Filter :
           x \in filters[f] =>
              \/ x \in b.filters[f]
              \/ \E i \in 1 .. n + 1 : list[i].fd = f /\ list[i].filter = x
                                       /\ list[i].op = "delete"
    <2> SUFFICES ASSUME NEW f \in Fd, NEW x \in Filter, x \in filters[f], x \notin b.filters[f]
                 PROVE  \E i \in 1 .. n + 1 : list[i].fd = f /\ list[i].filter = x
                                              /\ list[i].op = "delete"
      OBVIOUS
    <2>1. CASE x \notin a.filters[f]
      <3>1. \E i \in 1 .. n : list[i].fd = f /\ list[i].filter = x /\ list[i].op = "delete"
        BY <2>1 DEF After
      <3> QED
        BY <3>1, <1>3
    <2>2. CASE x \in a.filters[f]
      BY <2>2, <1>0, <1>1, <1>4
    <2> QED
      BY <2>1, <2>2
  <1>8. ASSUME b.ok, \A i \in 1 .. n + 1 : list[i].op # "delete",
               NEW i \in 1 .. n + 1, list[i].op = "add"
        PROVE  list[i].filter \in b.filters[list[i].fd]
    <2>1. CASE i = n + 1
      BY <1>0, <1>1, <1>8, <2>1
    <2>2. CASE i \in 1 .. n
      <3>1. list[i].filter \in a.filters[list[i].fd]
        BY <1>1, <1>3, <1>8, <2>2 DEF After
      <3>2. c.op # "delete"
        BY <1>0, <1>4, <1>8
      <3>3. list[i].fd \in Fd /\ list[i].filter \in Filter
        BY <1>3, <1>5, <2>2 DEF Change
      <3> QED
        BY <1>1, <3>1, <3>2, <3>3
    <2> QED
      BY <1>2, <2>1, <2>2
  <1>9. ASSUME \A i \in 1 .. n + 1 : \/ list[i].op = "seen" /\ list[i].filter \in filters[list[i].fd]
                                     \/ list[i].op = "add" /\ list[i].fd \in open
        PROVE  b.ok
    <2>1. a.ok
      BY <1>3, <1>9 DEF After
    <2>2. \/ c.op = "seen" /\ c.filter \in filters[c.fd]
          \/ c.op = "add" /\ c.fd \in open
      BY <1>0, <1>4, <1>9
    <2>3. c.filter \in filters[c.fd] => c.filter \in a.filters[c.fd]
      <3>1. c.fd \in Fd /\ c.filter \in Filter
        BY DEF Change
      <3>2. \A i \in 1 .. n : list[i].op # "delete"
        BY <1>3, <1>9
      <3> QED
        BY <3>1, <3>2 DEF After
    <2> QED
      BY <1>1, <2>1, <2>2, <2>3
  <1> QED
    BY <1>1, <1>6, <1>7, <1>8, <1>9 DEF After

LEMMA KeventIs ==
    ASSUME filters \in [Fd -> SUBSET Filter], NEW list \in Seq(Change), NEW open, NEW keeps_add
    PROVE  After(kevent(list, open, keeps_add), Len(list), list, open)
  <1>0. Len(list) \in Nat
    BY SMT
  <1> DEFINE took == CHOOSE g : Took(g, Len(list), list, open, keeps_add)
             S == {n \in Nat : n <= Len(list) => After(took[n], n, list, open)}
  <1>1. kevent(list, open, keeps_add) = took[Len(list)]
    BY DEF kevent, Took
  <1>2. Took(took, Len(list), list, open, keeps_add)
    BY <1>0, TookExists
  <1>3. \A m \in 0 .. Len(list) :
            took[m] = IF m = 0 THEN [filters |-> filters, ok |-> TRUE]
                      ELSE takes(took[m - 1], list[m], open, keeps_add)
    <2> HIDE DEF took
    <2> QED
      BY <1>2, Zenon DEF Took
  <1> HIDE DEF took
  <1>4. 0 \in S
    <2>1. took[0] = [filters |-> filters, ok |-> TRUE]
      <3>1. 0 \in 0 .. Len(list)
        BY <1>0
      <3> QED
        BY <3>1, <1>3, Zenon
    <2>2. After(took[0], 0, list, open)
      BY <2>1 DEF After, Answer
    <2> QED
      BY <2>2
  <1>5. ASSUME NEW n \in Nat, n \in S PROVE n + 1 \in S
    <2> SUFFICES ASSUME n + 1 <= Len(list) PROVE After(took[n + 1], n + 1, list, open)
      OBVIOUS
    <2>1. After(took[n], n, list, open) /\ n < Len(list)
      BY <1>0, <1>5
    <2>2. took[n + 1] = takes(took[n], list[n + 1], open, keeps_add)
      BY <1>0, <1>3
    <2> QED
      BY <2>1, <2>2, AfterOne
  <1> HIDE DEF S
  <1>6. Nat \subseteq S
    BY <1>4, <1>5, InductionOnNat
  <1>7. After(took[Len(list)], Len(list), list, open)
    BY <1>0, <1>6 DEF S
  <1> QED
    BY <1>1, <1>7

-----------------------------------------------------------------------------
Changes == Seq(Change)

LEMMA ConcatIs ==
    ASSUME NEW a \in Changes, NEW b \in Changes
    PROVE  /\ a \o b \in Changes /\ Len(a \o b) = Len(a) + Len(b)
           /\ Len(a) \in Nat /\ Len(b) \in Nat
           /\ \A i \in 1 .. Len(a) : (a \o b)[i] = a[i]
           /\ \A i \in 1 .. Len(b) : (a \o b)[Len(a) + i] = b[i]
  BY SMT DEF Changes

(* What a method leaves in sys_events. *)
Asks(list, f, flags, op) ==
    /\ list \in Seq(Change)
    /\ \A i \in 1 .. Len(list) : list[i].fd = f /\ list[i].op = op /\ list[i].filter \in flags
    /\ \A x \in Filter \cap flags : \E i \in 1 .. Len(list) : list[i].filter = x

LEMMA ChangesAre ==
    ASSUME NEW f \in Fd, NEW flags, NEW op \in {"add", "delete"}
    PROVE  Asks(changes(f, flags, op), f, flags, op) /\ changes(f, {}, op) = <<>>
  <1> DEFINE rd == [fd |-> f, filter |-> "READ", op |-> op]
             wr == [fd |-> f, filter |-> "WRITE", op |-> op]
             first  == IF "READ" \in flags THEN <<rd>> ELSE <<>>
             second == IF "WRITE" \in flags THEN <<wr>> ELSE <<>>
  <1>1. changes(f, flags, op) = first \o second
    BY DEF changes
  <1>2. /\ rd \in Change /\ rd.fd = f /\ rd.op = op /\ rd.filter = "READ"
        /\ wr \in Change /\ wr.fd = f /\ wr.op = op /\ wr.filter = "WRITE"
    BY DEF Change, Filter
  <1>3. changes(f, {}, op) = <<>>
    <2>1. changes(f, {}, op) = <<>> \o <<>>
      BY Zenon DEF changes
    <2> QED
      BY <2>1, SMT
  <1> HIDE DEF rd, wr
  <1>4. CASE "READ" \in flags /\ "WRITE" \in flags
    <2>1. first = <<rd>> /\ second = <<wr>>
      BY <1>4
    <2> HIDE DEF first, second
    <2>2. /\ <<rd>> \in Seq(Change) /\ Len(<<rd>>) = 1 /\ <<rd>>[1] = rd
          /\ <<wr>> \in Seq(Change) /\ Len(<<wr>>) = 1 /\ <<wr>>[1] = wr
      BY <1>2
    <2>3. first \in Changes /\ second \in Changes /\ Len(first) = 1 /\ Len(second) = 1
          /\ first[1] = rd /\ second[1] = wr
      BY <2>1, <2>2 DEF Changes
    <2>4. /\ first \o second \in Changes /\ Len(first \o second) = 1 + 1
          /\ \A i \in 1 .. 1 : (first \o second)[i] = first[i]
          /\ \A i \in 1 .. 1 : (first \o second)[1 + i] = second[i]
      <3>1. /\ first \o second \in Changes /\ Len(first \o second) = Len(first) + Len(second)
            /\ \A i \in 1 .. Len(first) : (first \o second)[i] = first[i]
            /\ \A i \in 1 .. Len(second) : (first \o second)[Len(first) + i] = second[i]
        BY <2>3, ConcatIs
      <3> QED
        BY <2>3, <3>1, Zenon
    <2>5. PICK c : c = first \o second
      OBVIOUS
    <2>6. c \in Changes /\ Len(c) = 1 + 1 /\ \A i \in 1 .. 1 : c[i] = first[i] /\ c[1 + i] = second[i]
      BY <2>4, <2>5, Zenon
    <2>7. c \in Seq(Change) /\ Len(c) = 2 /\ c[1] = rd /\ c[2] = wr
      BY <2>3, <2>6 DEF Changes
    <2> QED
      BY <1>1, <1>2, <1>3, <1>4, <2>5, <2>7 DEF Filter, Asks
  <1>5. CASE "READ" \in flags /\ "WRITE" \notin flags
    <2>1. first \o second = <<rd>>
      BY <1>2, <1>5
    <2> HIDE DEF first, second
    <2>2. <<rd>> \in Seq(Change) /\ Len(<<rd>>) = 1 /\ <<rd>>[1] = rd
      BY <1>2
    <2> QED
      BY <1>1, <1>2, <1>3, <1>5, <2>1, <2>2 DEF Filter, Asks
  <1>6. CASE "READ" \notin flags /\ "WRITE" \in flags
    <2>1. first \o second = <<wr>>
      BY <1>2, <1>6
    <2> HIDE DEF first, second
    <2>2. <<wr>> \in Seq(Change) /\ Len(<<wr>>) = 1 /\ <<wr>>[1] = wr
      BY <1>2
    <2> QED
      BY <1>1, <1>2, <1>3, <1>6, <2>1, <2>2 DEF Filter, Asks
  <1>7. CASE "READ" \notin flags /\ "WRITE" \notin flags
    <2>1. first \o second = <<>>
      BY <1>7
    <2> HIDE DEF first, second
    <2>2. <<>> \in Seq(Change) /\ Len(<<>>) = 0
      OBVIOUS
    <2> QED
      BY <1>1, <1>3, <1>7, <2>1, <2>2 DEF Filter, Asks
  <1> QED
    BY <1>4, <1>5, <1>6, <1>7

(* The kernel's answer to the reports and the changes of one call. *)
Answered(r, f, flags, op, open) ==
    /\ r \in Answer
    /\ \A g \in Fd, x \in Filter :
          /\ x \in r.filters[g] =>
                \/ x \in filters[g]
                \/ g \in open /\ \/ op = "add" /\ g = f /\ x \in flags
                                 \/ \E j \in 1 .. Len(evts) : evts[j].fd = g
          /\ x \in filters[g] =>
                x \in r.filters[g] \/ (op = "delete" /\ g = f /\ x \in flags)
    /\ op = "add" /\ r.ok => flags \cap Filter \subseteq r.filters[f]
    /\ /\ op = "add" /\ f \in open
       /\ \A j \in 1 .. Len(evts) : evts[j].filter \in filters[evts[j].fd]
       => r.ok

LEMMA FlushIs ==
    ASSUME filters \in [Fd -> SUBSET Filter], evts \in Seq(Report),
           NEW f \in Fd, NEW flags, NEW op \in {"add", "delete"}, NEW open,
           NEW r \in Flushes(changes(f, flags, op), open)
    PROVE  Answered(r, f, flags, op, open)
  <1> DEFINE back == [i \in DOMAIN evts |-> [fd |-> evts[i].fd, filter |-> evts[i].filter,
                                             op |-> "seen"]]
             made == changes(f, flags, op)
             list == back \o made
  <1>0. Len(evts) \in Nat /\ DOMAIN evts = 1 .. Len(evts) /\ \A i \in 1 .. Len(evts) : evts[i] \in Report
    BY SMT
  <1>1. PICK keeps_add \in BOOLEAN : r = kevent(list, open, keeps_add)
    BY DEF Flushes
  <1>2. /\ back \in Seq(Change) /\ Len(back) = Len(evts)
        /\ \A i \in 1 .. Len(evts) : /\ back[i].fd = evts[i].fd
                                     /\ back[i].filter = evts[i].filter
                                     /\ back[i].op = "seen"
    <2>1. \A i \in 1 .. Len(evts) : back[i] \in Change
      BY <1>0 DEF Change, Report
    <2>2. back = [i \in 1 .. Len(evts) |-> back[i]]
      BY <1>0
    <2>3. \A i \in 1 .. Len(evts) : /\ back[i].fd = evts[i].fd
                                    /\ back[i].filter = evts[i].filter
                                    /\ back[i].op = "seen"
      BY <1>0
    <2> HIDE DEF back
    <2>4. back \in Seq(Change) /\ Len(back) = Len(evts)
      BY <1>0, <2>1, <2>2
    <2> QED
      BY <2>3, <2>4
  <1> HIDE DEF back
  <1>3. /\ made \in Seq(Change)
        /\ \A i \in 1 .. Len(made) : made[i].fd = f /\ made[i].op = op /\ made[i].filter \in flags
        /\ \A x \in Filter \cap flags : \E i \in 1 .. Len(made) : made[i].filter = x
    <2>1. Asks(made, f, flags, op)
      BY ChangesAre
    <2> HIDE DEF made
    <2> QED
      BY <2>1 DEF Asks
  <1> HIDE DEF made
  <1>4. /\ list \in Seq(Change) /\ Len(list) = Len(back) + Len(made) /\ Len(made) \in Nat
        /\ \A i \in 1 .. Len(back) : list[i] = back[i]
        /\ \A i \in 1 .. Len(made) : list[Len(back) + i] = made[i]
    <2>1. back \in Changes /\ made \in Changes
      BY <1>2, <1>3 DEF Changes
    <2>2. list \in Changes
      BY <2>1, ConcatIs
    <2> QED
      BY <2>1, <2>2, ConcatIs, Zenon DEF Changes
  <1>5. \A i \in 1 .. Len(list) : \/ i \in 1 .. Len(evts)
                                  \/ \E k \in 1 .. Len(made) : i = Len(evts) + k
    <2> HIDE DEF list
    <2> SUFFICES ASSUME NEW i \in 1 .. Len(list), i \notin 1 .. Len(evts)
                 PROVE  i - Len(evts) \in 1 .. Len(made) /\ i = Len(evts) + (i - Len(evts))
      BY <1>0, <1>2, <1>4
    <2> QED
      BY <1>0, <1>2, <1>4
  <1>6. After(r, Len(list), list, open)
    BY <1>1, <1>4, KeventIs
  <1> HIDE DEF list
  <1>7. \A i \in 1 .. Len(evts) : /\ i \in 1 .. Len(list) /\ list[i].fd = evts[i].fd
                                  /\ list[i].filter = evts[i].filter /\ list[i].op = "seen"
    BY <1>0, <1>2, <1>4
  <1>8. \A k \in 1 .. Len(made) : /\ Len(evts) + k \in 1 .. Len(list)
                                  /\ list[Len(evts) + k].fd = f /\ list[Len(evts) + k].op = op
                                  /\ list[Len(evts) + k].filter = made[k].filter
                                  /\ made[k].filter \in flags
    BY <1>0, <1>2, <1>3, <1>4
  <1>9. \A i \in 1 .. Len(list) :
            \/ i \in 1 .. Len(evts) /\ list[i].fd = evts[i].fd
               /\ list[i].filter = evts[i].filter /\ list[i].op = "seen"
            \/ list[i].fd = f /\ list[i].op = op /\ list[i].filter \in flags
    BY <1>5, <1>7, <1>8
  <1>10. r \in Answer
    BY <1>6 DEF After
  <1>11. ASSUME NEW g \in Fd, NEW x \in Filter, x \in r.filters[g], x \notin filters[g]
         PROVE  g \in open /\ \/ op = "add" /\ g = f /\ x \in flags
                              \/ \E j \in 1 .. Len(evts) : evts[j].fd = g
    <2>1. PICK i \in 1 .. Len(list) : list[i].fd = g /\ list[i].filter = x
                                      /\ list[i].op \in {"add", "seen"} /\ g \in open
      BY <1>6, <1>11 DEF After
    <2> QED
      BY <1>9, <2>1
  <1>12. ASSUME NEW g \in Fd, NEW x \in Filter, x \in filters[g], x \notin r.filters[g]
         PROVE  op = "delete" /\ g = f /\ x \in flags
    <2>1. PICK i \in 1 .. Len(list) : list[i].fd = g /\ list[i].filter = x /\ list[i].op = "delete"
      BY <1>6, <1>12 DEF After
    <2> QED
      BY <1>9, <2>1
  <1>13. ASSUME op = "add", r.ok, NEW x \in flags \cap Filter
         PROVE  x \in r.filters[f]
    <2>1. PICK k \in 1 .. Len(made) : made[k].filter = x
      BY <1>3
    <2>2. \A i \in 1 .. Len(list) : list[i].op # "delete"
      BY <1>9, <1>13
    <2>3. PICK i \in 1 .. Len(list) : list[i].fd = f /\ list[i].op = "add" /\ list[i].filter = x
      BY <1>8, <1>13, <2>1
    <2> QED
      BY <1>6, <1>13, <2>2, <2>3 DEF After
  <1>14. ASSUME op = "add", f \in open,
                \A j \in 1 .. Len(evts) : evts[j].filter \in filters[evts[j].fd]
         PROVE  r.ok
    <2>1. \A i \in 1 .. Len(list) : \/ list[i].op = "seen" /\ list[i].filter \in filters[list[i].fd]
                                    \/ list[i].op = "add" /\ list[i].fd \in open
      BY <1>9, <1>14
    <2> QED
      BY <1>6, <2>1 DEF After
  <1> QED
    BY <1>10, <1>11, <1>12, <1>13, <1>14 DEF Answered

-----------------------------------------------------------------------------
(* What every step does to the sockets. *)
StepKeeps == SockInv' /\ StepServes

(* A step that leaves the sockets alone. *)
LEMMA IdleStep ==
    ASSUME SockInv, UNCHANGED <<fd_of, used, event_maps, stack, ended>>
    PROVE  StepKeeps
  BY SocketsStay, NoCall DEF StepKeeps, StepServes

(* A registered socket ends: its end callback goes over the whole stack, or in
   place of the frame of the callback that returned OVER. *)
LEMMA EndsStep ==
    ASSUME SockInv, NEW f \in DOMAIN event_maps, NEW stk,
           stk = stack \/ (stk = Pop /\ f = Top.fd /\ ReturnsOver),
           Ends(f, stk), UNCHANGED used
    PROVE  StepKeeps
  <1>0. ReturnsOver => stack # <<>> /\ Top.kind # "end"
    BY DEF ReturnsOver, Returning
  <1>1. SockInv'
    BY <1>0, EndsKeeps DEF Base
  <1>2. StepServes
    BY <1>0, OverIsOwn, EndsServes DEF StepServes
  <1> QED
    BY <1>1, <1>2 DEF StepKeeps

(* The top of the stack goes. *)
LEMMA PopStep ==
    ASSUME SockInv, stack # <<>>, stack' = Pop, UNCHANGED <<fd_of, used, event_maps, ended>>
    PROVE  StepKeeps
  BY PopKeeps, PopServes DEF StepKeeps, StepServes

(* unregister_socket, called by the dispatch loop or by the top callback, or on
   behalf of that one when it returns OVER. *)
LEMMA UnregisterStep ==
    ASSUME SockInv, NEW f, NEW stk,
           stk = stack \/ (stk = Pop /\ f = Top.fd /\ ReturnsOver),
           unregister_socket(f, stk), UNCHANGED used
    PROVE  StepKeeps
  <1>1. CASE f \in DOMAIN event_maps
    BY <1>1, EndsStep DEF unregister_socket
  <1>2. CASE f \notin DOMAIN event_maps
    <2>1. stack' = stk /\ UNCHANGED <<fd_of, used, event_maps, ended>>
      BY <1>2 DEF unregister_socket
    <2> QED
      BY <2>1, IdleStep, PopStep DEF ReturnsOver, Returning
  <1> QED
    BY <1>1, <1>2

-----------------------------------------------------------------------------
LEMMA DispatchStep ==
    ASSUME SockInv, Dispatch
    PROVE  StepKeeps
  <1>1. ASSUME NEW s \in Sock, accept_ok(s)
        PROVE  StepKeeps
    <2>1. PICK f \in Fd : Opened(s, f)
      BY <1>1 DEF accept_ok
    <2>2. /\ Now.fd \in DOMAIN event_maps
          /\ stack = <<>> /\ Push(stack, "accept", event_maps[Now.fd], Now.fd, s)
          /\ UNCHANGED <<event_maps, ended>>
      BY <1>1 DEF accept_ok, InMap, Turn, Dispatching, Owner
    <2>3. SockInv'
      BY <2>1, <2>2, AcceptKeeps
    <2>4. ServiceStep
      BY <2>2, PushServes
    <2> QED
      BY <2>3, <2>4 DEF StepKeeps, StepServes
  <1>2. ASSUME accept_err \/ read_data
        PROVE  StepKeeps
    <2>1. PICK kind \in {"accept", "read"} :
              /\ Now.fd \in DOMAIN event_maps
              /\ stack = <<>> /\ Push(stack, kind, event_maps[Now.fd], Now.fd, NoSock)
              /\ UNCHANGED <<fd_of, used, event_maps, ended>>
      BY <1>2 DEF accept_err, read_data, InMap, Turn, Dispatching, Owner
    <2>2. SockInv'
      BY <2>1, PushKeeps DEF Where
    <2>3. ServiceStep
      BY <2>1, PushServes
    <2> QED
      BY <2>2, <2>3 DEF StepKeeps, StepServes
  <1>3. ASSUME read_end \/ write_fails
        PROVE  StepKeeps
    BY <1>3, UnregisterStep DEF read_end, write_fails
  <1>4. ASSUME write_all \/ write_part
        PROVE  StepKeeps
    BY <1>4, IdleStep DEF write_all, write_part
  <1> QED
    BY <1>1, <1>2, <1>3, <1>4 DEF Dispatch

LEMMA ReturnStep ==
    ASSUME SockInv, Return
    PROVE  StepKeeps
  <1>1. ASSUME drop_given
        PROVE  StepKeeps
    <2>1. SockInv'
      BY <1>1, GivenCloses DEF drop_given, DropGiven
    <2>2. ServiceStep
      BY <1>1, NoCall DEF drop_given, DropGiven
    <2> QED
      BY <2>1, <2>2 DEF StepKeeps, StepServes
  <1>2. ASSUME callback_returns \/ end_returns
        PROVE  StepKeeps
    BY <1>2, PopStep DEF callback_returns, end_returns, Returning
  <1>3. ASSUME callback_over
        PROVE  StepKeeps
    BY <1>3, UnregisterStep DEF callback_over
  <1> QED
    BY <1>1, <1>2, <1>3 DEF Return

(* register_socket on a socket that was just opened. *)
LEMMA NewSocketStep ==
    ASSUME SockInv, NEW s \in Sock \ used, NEW f \in Fd, NEW flags, LowestFree(f),
           register_socket(s, f, flags), used' = used \cup {s}, UNCHANGED <<stack, ended>>
    PROVE  StepKeeps
  <1>2. \/ fd_of' = [fd_of EXCEPT ![s] = f] /\ event_maps' = Bind(event_maps, f, s)
        \/ fd_of' = [fd_of EXCEPT ![s] = NotOpen] /\ UNCHANGED event_maps
    BY DEF register_socket
  <1>3. CASE fd_of' = [fd_of EXCEPT ![s] = f] /\ event_maps' = Bind(event_maps, f, s)
    <2>1. Opened(s, f)
      BY <1>3 DEF Opened
    <2>2. f \notin DOMAIN event_maps
      BY <2>1, OpenedFacts
    <2>3. ServiceStep
      BY <1>3, <2>2, UnusedIsNew, RegisterServes
    <2> QED
      BY <1>3, <2>1, <2>3, RegisterKeeps DEF StepKeeps, StepServes
  <1>4. CASE fd_of' = [fd_of EXCEPT ![s] = NotOpen] /\ UNCHANGED event_maps
    <2>1. fd_of[s] = NotOpen /\ fd_of \in [Sock -> Fd \cup {NotOpen}]
      BY DEF SockInv, Shape, OneOwner
    <2>2. UNCHANGED fd_of
      BY <1>4, <2>1
    <2> QED
      BY <1>4, <2>2, RefusalKeeps, NoCall DEF StepKeeps, StepServes
  <1> QED
    BY <1>2, <1>3, <1>4

LEMMA UserCallStep ==
    ASSUME SockInv, UserCall
    PROVE  StepKeeps
  <1>1. ASSUME NEW s \in Sock, register(s)
        PROVE  StepKeeps
    BY <1>1, NewSocketStep DEF register
  <1>2. ASSUME NEW s \in Sock, register_refused(s)
        PROVE  StepKeeps
    BY <1>2, RefusalKeeps, NoCall DEF register_refused, StepKeeps, StepServes
  <1>3. ASSUME register_given
        PROVE  StepKeeps
    <2>2. PICK flags \in RegFlags : register_socket(Top.given, fd_of[Top.given], flags)
      BY <1>3 DEF register_given
    <2>3. \/ /\ fd_of' = [fd_of EXCEPT ![Top.given] = fd_of[Top.given]]
             /\ event_maps' = Bind(event_maps, fd_of[Top.given], Top.given)
          \/ fd_of' = [fd_of EXCEPT ![Top.given] = NotOpen] /\ UNCHANGED event_maps
      BY <2>2 DEF register_socket
    <2>4. [fd_of EXCEPT ![Top.given] = fd_of[Top.given]] = fd_of
      BY DEF SockInv, Shape
    <2>5. SockInv'
      BY <1>3, <2>3, <2>4, GivenRegisters, GivenCloses DEF register_given
    <2>6. ServiceStep
      <3>1. CASE event_maps' = Bind(event_maps, fd_of[Top.given], Top.given)
        BY <1>3, <2>3, <2>4, <3>1, GivenIsNew, RegisterServes DEF register_given
      <3>2. CASE UNCHANGED event_maps
        BY <1>3, <3>2, NoCall DEF register_given
      <3> QED
        BY <2>3, <3>1, <3>2
    <2> QED
      BY <2>5, <2>6 DEF StepKeeps, StepServes
  <1>4. ASSUME NEW f \in Fd, send_socket(f)
        PROVE  StepKeeps
    BY <1>4, IdleStep DEF send_socket
  <1>5. ASSUME unregister_own
        PROVE  StepKeeps
    BY <1>5, UnregisterStep DEF unregister_own
  <1>6. ASSUME NEW f \in Fd, unregister_other(f)
        PROVE  StepKeeps
    BY <1>6, UnregisterStep DEF unregister_other
  <1>7. ASSUME NEW f \in Fd, modify_socket(f)
        PROVE  StepKeeps
    <2>1. /\ f \in DOMAIN event_maps /\ UNCHANGED used
          /\ UNCHANGED <<fd_of, event_maps, stack, ended>> \/ Ends(f, stack)
      BY <1>7 DEF modify_socket
    <2> QED
      BY <2>1, IdleStep, EndsStep
  <1> QED
    BY <1>1, <1>2, <1>3, <1>4, <1>5, <1>6, <1>7 DEF UserCall

LEMMA KqueueStep == SockInv /\ [Next]_vars => SockInv' /\ StepServes
  <1> SUFFICES ASSUME SockInv, [Next]_vars PROVE StepKeeps
    BY DEF StepKeeps
  <1>1. CASE select
    BY <1>1, IdleStep DEF select, sockVars
  <1>2. CASE UNCHANGED vars
    BY <1>2, IdleStep DEF vars, sockVars
  <1> QED
    BY <1>1, <1>2, DispatchStep, ReturnStep, UserCallStep DEF Next

-----------------------------------------------------------------------------
(* The inductive invariant of the sockets holds of every state. *)
THEOREM KqueueInvariant == Spec => []SockInv
  <1>1. Init => SockInv
    BY SocketsInitial DEF Init
  <1>2. SockInv /\ [Next]_vars => SockInv'
    BY KqueueStep
  <1> QED
    BY <1>1, <1>2, PTL DEF Spec

(* The selector implements SocketService, for every program none of whose callbacks
   returns OVER after its socket has ended while another has the number: a socket's
   callbacks begin between its registration and its one end callback, and OVER ends
   the socket of the callback that returned it, or none.  With such an OVER
   read_done ends the other socket (kqueue.rs:79 and 104). *)
THEOREM KqueueImplementsSocketService ==
    ASSUME OwnOver
    PROVE  Spec => ImplementsSocketService
  <1>1. Init => Service!Init
    BY ServiceInitial DEF Init
  <1>2. SockInv /\ [Next]_vars => ServiceStep
    BY KqueueStep DEF StepServes
  <1> QED
    BY <1>1, <1>2, KqueueInvariant, PTL
    DEF Spec, ImplementsSocketService, Service!Spec, Service!serviceVars, ServiceStep
-----------------------------------------------------------------------------
(* The events of the last kevent, and who has the descriptors they name. *)
NoEnd == \A i \in 1 .. Len(stack) : stack[i].kind # "end"

(* While no end callback runs, each event of sys_events, the dispatched ones
   included, is for a socket that is in the map under the event's descriptor. *)
SeenAreCurrent ==
    NoEnd => \A j \in 1 .. Len(evts) :
                 evts[j].fd \in DOMAIN event_maps /\ event_maps[evts[j].fd] = evts[j].sock

(* An open socket is in the map, or was given to a callback that is running. *)
OpenIsKnown ==
    \A s \in Sock : fd_of[s] # NotOpen =>
        \/ fd_of[s] \in DOMAIN event_maps
        \/ \E i \in 1 .. Len(stack) : stack[i].given = s

(* No event of sys_events bears the descriptor of a given socket. *)
GivenNotSeen ==
    \A i \in 1 .. Len(stack) : stack[i].given # NoSock =>
        \A j \in 1 .. Len(evts) : evts[j].fd # fd_of[stack[i].given]

Reports == SeenAreCurrent /\ OpenIsKnown /\ GivenNotSeen

(* The sockets stay as they are, and so does the list, or it is cleared. *)
LEMMA ReportsStay ==
    ASSUME Reports, UNCHANGED <<fd_of, event_maps, stack>>, evts' = evts \/ evts' = <<>>
    PROVE  Reports'
  <1>1. NoEnd' <=> NoEnd
    BY DEF NoEnd
  <1>2. CASE evts' = evts
    BY <1>1, <1>2 DEF Reports, SeenAreCurrent, OpenIsKnown, GivenNotSeen
  <1>3. CASE evts' = <<>>
    BY <1>3 DEF Reports, SeenAreCurrent, OpenIsKnown, GivenNotSeen
  <1> QED
    BY <1>2, <1>3

(* A callback of a registered socket begins, with nothing given to it. *)
LEMMA ReportsPush ==
    ASSUME SockInv, Reports, stack = <<>>, NEW kind, NEW s, NEW f,
           Push(stack, kind, s, f, NoSock), UNCHANGED <<fd_of, event_maps, evts>>
    PROVE  Reports'
  <1>1. PICK c : c = [kind |-> kind, sock |-> s, fd |-> f, given |-> NoSock]
    OBVIOUS
  <1>2. stack' = Append(<<>>, c) /\ c.given = NoSock
    BY <1>1 DEF Push
  <1>3. Len(stack') = 1 /\ stack'[1] = c /\ Len(stack) = 0
    BY <1>2
  <1>4. NoEnd
    BY <1>3 DEF NoEnd
  <1>5. SeenAreCurrent'
    BY <1>4 DEF Reports, SeenAreCurrent
  <1>6. OpenIsKnown'
    BY <1>3 DEF Reports, OpenIsKnown
  <1>7. GivenNotSeen'
    BY <1>2, <1>3 DEF GivenNotSeen
  <1> QED
    BY <1>5, <1>6, <1>7 DEF Reports

(* accept: the new socket has a descriptor that no event bears. *)
LEMMA ReportsAccept ==
    ASSUME SockInv, Reports, stack = <<>>, NEW kind, NEW s, NEW f \in Fd, NEW t, NEW g,
           Opened(s, f), Push(stack, kind, t, g, s), UNCHANGED <<event_maps, evts>>
    PROVE  Reports'
  <1>1. PICK c : c = [kind |-> kind, sock |-> t, fd |-> g, given |-> s]
    OBVIOUS
  <1>2. stack' = Append(<<>>, c) /\ c.given = s
    BY <1>1 DEF Push
  <1>3. Len(stack') = 1 /\ stack'[1] = c /\ Len(stack) = 0
    BY <1>2
  <1>4. NoEnd
    BY <1>3 DEF NoEnd
  <1>5. /\ s \in Sock /\ f \notin DOMAIN event_maps
        /\ \A u \in Sock : fd_of'[u] = IF u = s THEN f ELSE fd_of[u]
    BY OpenedFacts
  <1>6. SeenAreCurrent'
    BY <1>4 DEF Reports, SeenAreCurrent
  <1>7. OpenIsKnown'
    BY <1>2, <1>3, <1>5 DEF Reports, OpenIsKnown
  <1>8. GivenNotSeen'
    BY <1>2, <1>3, <1>4, <1>5 DEF Reports, SeenAreCurrent, GivenNotSeen
  <1> QED
    BY <1>6, <1>7, <1>8 DEF Reports

(* A socket ends: no event of it is looked at before the list is cleared. *)
LEMMA ReportsEnd ==
    ASSUME SockInv, Reports, NEW f \in DOMAIN event_maps, NEW stk,
           stk = stack \/ (stack # <<>> /\ stk = Pop /\ Top.given = NoSock),
           Ends(f, stk), evts' = evts \/ evts' = <<>>
    PROVE  Reports'
  <1> DEFINE s == event_maps[f]
  <1>1. f \in Fd /\ s \in Sock /\ fd_of[s] = f /\ f # NotOpen
    BY NotOpenIsNoFd DEF SockInv, Shape, RegisteredIsOpen
  <1>2. /\ stk \in Seq(Frame) /\ Len(stk) \in Nat
        /\ \A i \in 1 .. Len(stk) : i \in 1 .. Len(stack) /\ stk[i] = stack[i]
    BY BaseShape DEF SockInv, Shape, Base
  <1>3. /\ Len(stack') = Len(stk) + 1
        /\ \A i \in 1 .. Len(stk) : stack'[i] = stk[i]
        /\ stack'[Len(stk) + 1].kind = "end" /\ stack'[Len(stk) + 1].given = NoSock
    <2>1. /\ Len(stack') = Len(stk) + 1
          /\ \A i \in 1 .. Len(stk) : stack'[i] = stk[i]
          /\ stack'[Len(stk) + 1] = [kind |-> "end", sock |-> s, fd |-> f, given |-> NoSock]
      BY <1>1, <1>2, PushShape DEF Ends, Where
    <2> QED
      BY <2>1
  <1>4. /\ \A u \in Sock : fd_of'[u] = IF u = s THEN NotOpen ELSE fd_of[u]
        /\ DOMAIN event_maps' = DOMAIN event_maps \ {f}
    BY <1>1 DEF Ends, SockInv, Shape, Without, Restrict
  <1>5. ~NoEnd'
    BY <1>2, <1>3 DEF NoEnd
  <1>6. \A i \in 1 .. Len(stack) : stack[i].given # NoSock => i \in 1 .. Len(stk)
    <2>1. CASE stk = stack
      BY <2>1
    <2>2. CASE stack # <<>> /\ stk = Pop /\ Top.given = NoSock
      <3>1. Len(stk) = Len(stack) - 1 /\ Len(stack) \in 1 .. Len(stack)
        BY <2>2, PopShape DEF SockInv, Shape
      <3>2. stack[Len(stack)].given = NoSock
        BY <2>2 DEF Top
      <3> QED
        BY <3>1, <3>2
    <2> QED
      BY <2>1, <2>2
  <1>7. OpenIsKnown'
    <2> SUFFICES ASSUME NEW u \in Sock, fd_of'[u] # NotOpen, fd_of'[u] \notin DOMAIN event_maps'
                 PROVE  \E i \in 1 .. Len(stack') : stack'[i].given = u
      BY DEF OpenIsKnown
    <2>1. u # s /\ fd_of[u] # NotOpen /\ fd_of[u] # f
      BY <1>1, <1>4 DEF SockInv, OneOwner
    <2>2. PICK i \in 1 .. Len(stack) : stack[i].given = u
      BY <1>4, <2>1 DEF Reports, OpenIsKnown
    <2>3. i \in 1 .. Len(stk)
      BY <1>6, <2>2, SockAssumption
    <2> QED
      BY <1>2, <1>3, <2>2, <2>3
  <1>8. GivenNotSeen'
    <2> SUFFICES ASSUME NEW i \in 1 .. Len(stack'), stack'[i].given # NoSock,
                        NEW j \in 1 .. Len(evts')
                 PROVE  evts'[j].fd # fd_of'[stack'[i].given]
      BY DEF GivenNotSeen
    <2>1. i \in 1 .. Len(stack) /\ stack'[i] = stack[i]
      BY <1>2, <1>3
    <2>2. stack[i].given \in Sock /\ stack[i].given # s
      BY <2>1, GivenAreUsed DEF SockInv, GivenWaits
    <2>3. j \in 1 .. Len(evts) /\ evts' = evts
      OBVIOUS
    <2> QED
      BY <1>4, <2>1, <2>2, <2>3 DEF Reports, GivenNotSeen
  <1> QED
    BY <1>5, <1>7, <1>8 DEF Reports, SeenAreCurrent

(* A callback that was given nothing, or no longer has it, returns. *)
LEMMA ReportsPop ==
    ASSUME SockInv, Reports, stack # <<>>, Top.given = NoSock, stack' = Pop,
           UNCHANGED <<fd_of, event_maps>>,
           evts' = <<>> \/ (evts' = evts /\ Top.kind # "end")
    PROVE  Reports'
  <1>1. /\ Len(stack') = Len(stack) - 1 /\ Len(stack) \in 1 .. Len(stack)
        /\ \A i \in 1 .. Len(stack') : stack'[i] = stack[i]
    BY PopShape DEF SockInv, Shape
  <1>2. \A i \in 1 .. Len(stack) : i = Len(stack) \/ i \in 1 .. Len(stack')
    BY <1>1
  <1>3. SeenAreCurrent'
    <2>1. CASE evts' = <<>>
      BY <2>1 DEF SeenAreCurrent
    <2>2. CASE evts' = evts /\ Top.kind # "end"
      <3>1. NoEnd' => NoEnd
        BY <1>1, <1>2, <2>2 DEF NoEnd, Top
      <3> QED
        BY <2>2, <3>1 DEF Reports, SeenAreCurrent
    <2> QED
      BY <2>1, <2>2
  <1>4. OpenIsKnown'
    BY <1>1, <1>2, SockAssumption DEF Reports, OpenIsKnown, Top
  <1>5. GivenNotSeen'
    BY <1>1 DEF Reports, GivenNotSeen
  <1> QED
    BY <1>3, <1>4, <1>5 DEF Reports

(* What was given to the top callback closes, or goes into the map. *)
LEMMA ReportsTake ==
    ASSUME SockInv, Reports, stack # <<>>, Top.given # NoSock,
           stack' = [stack EXCEPT ![Len(stack)].given = NoSock],
           \/ fd_of' = [fd_of EXCEPT ![Top.given] = NotOpen] /\ UNCHANGED event_maps
              /\ (evts' = evts \/ evts' = <<>>)
           \/ event_maps' = Bind(event_maps, fd_of[Top.given], Top.given) /\ UNCHANGED fd_of
              /\ evts' = <<>>
    PROVE  Reports'
  <1>1. /\ Len(stack') = Len(stack) /\ Len(stack) \in 1 .. Len(stack)
        /\ \A i \in 1 .. Len(stack) : /\ stack'[i].kind = stack[i].kind
                                      /\ i # Len(stack) => stack'[i].given = stack[i].given
        /\ stack'[Len(stack)].given = NoSock
    BY TakenShape DEF SockInv
  <1>2. NoEnd' <=> NoEnd
    BY <1>1 DEF NoEnd
  <1>3. \A i \in 1 .. Len(stack) : stack'[i].given # NoSock =>
            /\ i # Len(stack) /\ stack'[i].given = stack[i].given
            /\ stack[i].given \in Sock /\ stack[i].given # Top.given
    BY <1>1, GivenAreUsed DEF SockInv, GivenWaits, Top
  <1>4. Top.given \in Sock
    BY <1>1, GivenAreUsed DEF Top
  <1>5. CASE fd_of' = [fd_of EXCEPT ![Top.given] = NotOpen] /\ UNCHANGED event_maps
             /\ (evts' = evts \/ evts' = <<>>)
    <2>1. \A u \in Sock : fd_of'[u] = IF u = Top.given THEN NotOpen ELSE fd_of[u]
      BY <1>5 DEF SockInv, Shape
    <2>2. OpenIsKnown'
      <3> SUFFICES ASSUME NEW u \in Sock, fd_of'[u] # NotOpen, fd_of'[u] \notin DOMAIN event_maps'
                   PROVE  \E i \in 1 .. Len(stack') : stack'[i].given = u
        BY DEF OpenIsKnown
      <3>1. u # Top.given /\ fd_of'[u] = fd_of[u]
        BY <2>1
      <3>2. PICK i \in 1 .. Len(stack) : stack[i].given = u
        BY <1>5, <3>1 DEF Reports, OpenIsKnown
      <3>3. i # Len(stack)
        BY <3>1, <3>2 DEF Top
      <3> QED
        BY <1>1, <3>2, <3>3
    <2>3. SeenAreCurrent'
      BY <1>2, <1>5 DEF Reports, SeenAreCurrent
    <2>4. GivenNotSeen'
      BY <1>1, <1>3, <1>5, <2>1 DEF Reports, GivenNotSeen
    <2> QED
      BY <2>2, <2>3, <2>4 DEF Reports
  <1>6. CASE event_maps' = Bind(event_maps, fd_of[Top.given], Top.given) /\ UNCHANGED fd_of
             /\ evts' = <<>>
    <2>1. DOMAIN event_maps' = DOMAIN event_maps \cup {fd_of[Top.given]}
      BY <1>6 DEF Bind
    <2>2. OpenIsKnown'
      <3> SUFFICES ASSUME NEW u \in Sock, fd_of[u] # NotOpen, fd_of[u] \notin DOMAIN event_maps'
                   PROVE  \E i \in 1 .. Len(stack') : stack'[i].given = u
        BY <1>6 DEF OpenIsKnown
      <3>1. PICK i \in 1 .. Len(stack) : stack[i].given = u
        BY <2>1 DEF Reports, OpenIsKnown
      <3>2. i # Len(stack)
        BY <2>1, <3>1 DEF Top
      <3> QED
        BY <1>1, <3>1, <3>2
    <2> QED
      BY <1>6, <2>2 DEF Reports, SeenAreCurrent, GivenNotSeen
  <1> QED
    BY <1>5, <1>6

(* A socket the program opened goes into the map. *)
LEMMA ReportsRegister ==
    ASSUME SockInv, Reports, NEW s, NEW f \in Fd, Opened(s, f),
           event_maps' = Bind(event_maps, f, s), UNCHANGED stack, evts' = <<>>
    PROVE  Reports'
  <1>1. s \in Sock /\ \A u \in Sock : fd_of'[u] = IF u = s THEN f ELSE fd_of[u]
    BY OpenedFacts
  <1>2. DOMAIN event_maps' = DOMAIN event_maps \cup {f}
    BY DEF Bind
  <1>3. OpenIsKnown'
    BY <1>1, <1>2 DEF Reports, OpenIsKnown
  <1> QED
    BY <1>3 DEF Reports, SeenAreCurrent, GivenNotSeen
-----------------------------------------------------------------------------
(* The kernel's filters and the Events. *)
KernelTyped ==
    /\ filters \in [Fd -> SUBSET Filter]
    /\ evts \in Seq(Report) /\ Len(evts) <= MaxBatch
    /\ todo \in 0 .. MaxBatch
    /\ evts # <<>> => todo <= Len(evts)

EventsTyped ==
    /\ ev \in [Sock -> Events]
    /\ \A s \in Sock : ev[s].sent <= ev[s].submitted

KqueueInv == SockInv /\ Reports /\ KernelTyped /\ EventsTyped /\ WatchedIsRegistered

(* While no end callback runs, the filters of the events of sys_events are still
   there: sent back as changes, they change nothing. *)
SeenAreThere == NoEnd => \A j \in 1 .. Len(evts) : evts[j].filter \in filters[evts[j].fd]

(* The filters w give an Event what it asks, and EVFILT_WRITE while it has data
   in its buffer. *)
Serves(w, e) ==
    /\ e.flags \cap Filter \subseteq w
    /\ e.sent # e.submitted => e.is_in_write
    /\ e.is_in_write => "WRITE" \in w

AllWatched == \A f \in DOMAIN event_maps : Serves(filters[f], ev[event_maps[f]])

Steady == Apart /\ SeenAreThere /\ AllWatched

(* A program whose end callbacks open no socket and send nothing. *)
QuietEnds == <<"end", "register">> \notin Permits /\ <<"end", "send">> \notin Permits

(* What a step does to all of it: the types, the reports and the extent of the
   filters keep in every program, the rest when QuietEnds. *)
FlagsKeep ==
    /\ Reports' /\ KernelTyped' /\ EventsTyped' /\ WatchedIsRegistered'
    /\ QuietEnds /\ Steady => Steady'

LEMMA KernelKeeps ==
    ASSUME KernelTyped, filters' \in [Fd -> SUBSET Filter], evts' = evts \/ evts' = <<>>,
           todo' = todo \/ (todo > 0 /\ todo' = todo - 1)
    PROVE  KernelTyped'
  <1>1. todo' \in 0 .. MaxBatch /\ todo' <= todo /\ Len(evts) \in Nat
    BY SizeAssumption DEF KernelTyped
  <1>2. CASE evts' = evts
    BY <1>1, <1>2 DEF KernelTyped
  <1>3. CASE evts' = <<>>
    <2>1. evts' \in Seq(Report) /\ Len(evts') = 0
      BY <1>3
    <2> QED
      BY <1>1, <1>3, <2>1, SizeAssumption DEF KernelTyped
  <1> QED
    BY <1>2, <1>3

LEMMA EventSet ==
    ASSUME EventsTyped, NEW s \in Sock, NEW e \in Events, e.sent <= e.submitted,
           ev' = [ev EXCEPT ![s] = e]
    PROVE  EventsTyped' /\ ev'[s] = e /\ \A t \in Sock \ {s} : ev'[t] = ev[t]
  <1>1. /\ ev' \in [Sock -> Events] /\ ev'[s] = e
        /\ \A t \in Sock \ {s} : ev'[t] = ev[t]
    BY DEF EventsTyped
  <1>2. \A t \in Sock : ev'[t].sent <= ev'[t].submitted
    BY <1>1 DEF EventsTyped
  <1> QED
    BY <1>1, <1>2 DEF EventsTyped

(* Nothing is taken from the entries of the map but, perhaps, from that of f. *)
LEMMA WatchedStay ==
    ASSUME AllWatched, NEW f,
           \A g \in DOMAIN event_maps' \ {f} :
               /\ g \in DOMAIN event_maps /\ event_maps'[g] = event_maps[g]
               /\ filters[g] \subseteq filters'[g]
               /\ ev'[event_maps[g]] = ev[event_maps[g]],
           f \in DOMAIN event_maps' => Serves(filters'[f], ev'[event_maps'[f]])
    PROVE  AllWatched'
  <1> SUFFICES ASSUME NEW g \in DOMAIN event_maps' PROVE Serves(filters'[g], ev'[event_maps'[g]])
    BY DEF AllWatched
  <1>1. CASE g = f
    BY <1>1
  <1>2. CASE g # f
    <2>1. Serves(filters[g], ev[event_maps[g]])
      BY <1>2 DEF AllWatched
    <2>2. /\ event_maps'[g] = event_maps[g] /\ filters[g] \subseteq filters'[g]
          /\ ev'[event_maps[g]] = ev[event_maps[g]]
      BY <1>2
    <2> QED
      BY <2>1, <2>2 DEF Serves
  <1> QED
    BY <1>1, <1>2

(* A flush leaves no filter on a descriptor the map does not know, but what it
   was called to add. *)
LEMMA FlushKeeps ==
    ASSUME KqueueInv, NEW f \in Fd, NEW flags, NEW op \in {"add", "delete"}, NEW open,
           NEW r \in Flushes(changes(f, flags, op), open)
    PROVE  /\ r.filters \in [Fd -> SUBSET Filter] /\ r.ok \in BOOLEAN
           /\ \A g \in Fd : r.filters[g] # {} =>
                  \/ g \in DOMAIN event_maps
                  \/ g \in open \ OpenFds
                  \/ op = "add" /\ g = f
  <1>1. Answered(r, f, flags, op, open)
    BY FlushIs DEF KqueueInv, KernelTyped
  <1>2. r.filters \in [Fd -> SUBSET Filter] /\ r.ok \in BOOLEAN
    BY <1>1 DEF Answered, Answer
  <1>3. ASSUME NEW g \in Fd, r.filters[g] # {}, g \notin DOMAIN event_maps, g \in OpenFds,
               ~(op = "add" /\ g = f)
        PROVE  FALSE
    <2>1. PICK x \in Filter : x \in r.filters[g]
      BY <1>2, <1>3
    <2>2. filters[g] = {}
      BY <1>3 DEF KqueueInv, WatchedIsRegistered
    <2>3. PICK j \in 1 .. Len(evts) : evts[j].fd = g
      BY <1>1, <1>3, <2>1, <2>2 DEF Answered
    <2>4. PICK s \in Sock : fd_of[s] = g /\ g # NotOpen
      BY <1>3 DEF OpenFds, KqueueInv, SockInv, Shape
    <2>5. PICK i \in 1 .. Len(stack) : stack[i].given = s
      BY <1>3, <2>4 DEF KqueueInv, Reports, OpenIsKnown
    <2> QED
      BY <2>3, <2>4, <2>5, SockAssumption DEF KqueueInv, Reports, GivenNotSeen
  <1>4. \A g \in Fd : r.filters[g] # {} =>
            g \in DOMAIN event_maps \/ g \in open \ OpenFds \/ (op = "add" /\ g = f)
    <2>1. ASSUME NEW g \in Fd, r.filters[g] # {}, g \notin DOMAIN event_maps,
                 ~(op = "add" /\ g = f), g \notin OpenFds
          PROVE  g \in open
      <3>1. PICK x \in Filter : x \in r.filters[g]
        BY <1>2, <2>1
      <3>2. filters[g] = {}
        BY <2>1 DEF KqueueInv, WatchedIsRegistered
      <3> QED
        BY <1>1, <2>1, <3>1, <3>2 DEF Answered
    <2> QED
      BY <1>3, <2>1
  <1> QED
    BY <1>2, <1>4

LEMMA DeregisterKeeps ==
    ASSUME KqueueInv, NEW f \in Fd, NEW flags, deregister(f, flags), UNCHANGED event_maps
    PROVE  /\ filters' \in [Fd -> SUBSET Filter] /\ evts' = <<>>
           /\ WatchedIsRegistered'
           /\ \A g \in Fd, x \in Filter : x \in filters[g] =>
                  x \in filters'[g] \/ (g = f /\ x \in flags)
  <1>1. PICK r \in Flushes(changes(f, flags, "delete"), OpenFds) : flush_changes(r)
    BY DEF deregister
  <1>2. filters' = r.filters /\ evts' = <<>>
    BY <1>1 DEF flush_changes
  <1>3. /\ r.filters \in [Fd -> SUBSET Filter]
        /\ \A g \in Fd : r.filters[g] # {} => g \in DOMAIN event_maps
    BY FlushKeeps
  <1>4. Answered(r, f, flags, "delete", OpenFds)
    BY FlushIs DEF KqueueInv, KernelTyped
  <1> QED
    BY <1>2, <1>3, <1>4 DEF WatchedIsRegistered, Answered
LEMMA EndBegins ==
    ASSUME SockInv, NEW f \in DOMAIN event_maps, NEW stk, Base(stk), Ends(f, stk)
    PROVE  ~NoEnd'
  <1>1. f \in Fd /\ event_maps[f] \in Sock
    BY DEF SockInv, Shape
  <1>2. stk \in Seq(Frame) /\ Len(stk) \in Nat
    BY BaseShape DEF SockInv, Shape
  <1>3. Len(stack') = Len(stk) + 1 /\ stack'[Len(stk) + 1].kind = "end"
    <2>1. /\ Len(stack') = Len(stk) + 1
          /\ stack'[Len(stk) + 1] = [kind |-> "end", sock |-> event_maps[f], fd |-> f, given |-> NoSock]
      BY <1>1, <1>2, PushShape DEF Ends, Where
    <2> QED
      BY <2>1
  <1> QED
    BY <1>2, <1>3 DEF NoEnd

(* A registered socket ends, its descriptor's filters gone from r. *)
LEMMA EndFlags ==
    ASSUME KqueueInv, NEW f \in DOMAIN event_maps, NEW stk,
           stk = stack \/ (stack # <<>> /\ stk = Pop /\ Top.given = NoSock),
           Ends(f, stk), NEW m \in [Fd -> SUBSET Filter], filters' = Unfiltered(m, f),
           evts' = evts \/ evts' = <<>>, todo' = todo \/ (todo > 0 /\ todo' = todo - 1),
           \A g \in Fd : m[g] # {} => g \in DOMAIN event_maps,
           \A g \in Fd : filters[g] \subseteq m[g]
    PROVE  FlagsKeep
  <1>1. PICK s \in Sock : s = event_maps[f]
    BY DEF KqueueInv, SockInv, Shape
  <1>2. f \in Fd /\ \A g \in Fd : filters'[g] = IF g = f THEN {} ELSE m[g]
    BY DEF Unfiltered, KqueueInv, SockInv, Shape
  <1>3. filters' \in [Fd -> SUBSET Filter]
    BY DEF Unfiltered
  <1>4. /\ DOMAIN event_maps' = DOMAIN event_maps \ {f}
        /\ \A g \in DOMAIN event_maps' : event_maps'[g] = event_maps[g]
        /\ DOMAIN event_maps \subseteq Fd
    BY DEF Ends, Without, Restrict, KqueueInv, SockInv, Shape
  <1>5. KernelTyped'
    BY <1>3, KernelKeeps DEF KqueueInv
  <1>6. WatchedIsRegistered'
    BY <1>2, <1>4 DEF WatchedIsRegistered
  <1>7. ev' = [ev EXCEPT ![s] = NoEvent]
    BY <1>1 DEF Ends
  <1>8. NoEvent \in Events /\ NoEvent.sent <= NoEvent.submitted
    BY NoEventYet, SizeAssumption DEF Events
  <1>9. EventsTyped' /\ \A t \in Sock \ {s} : ev'[t] = ev[t]
    BY <1>7, <1>8, EventSet DEF KqueueInv
  <1>10. Reports'
    BY ReportsEnd DEF KqueueInv
  <1>11. ASSUME Steady
         PROVE  Steady'
    <2>1. Apart' /\ ~NoEnd'
      BY <1>11, ApartEnds, EndBegins DEF Base, Steady, KqueueInv
    <2>2. \A g \in DOMAIN event_maps' \ {f} :
              /\ g \in DOMAIN event_maps /\ event_maps'[g] = event_maps[g]
              /\ filters[g] \subseteq filters'[g]
              /\ ev'[event_maps[g]] = ev[event_maps[g]]
      BY <1>1, <1>2, <1>4, <1>9, OneEntry DEF KqueueInv
    <2>3. AllWatched'
      BY <1>4, <1>11, <2>2, WatchedStay DEF Steady
    <2> QED
      BY <2>1, <2>3 DEF Steady, SeenAreThere
  <1> QED
    BY <1>5, <1>6, <1>9, <1>10, <1>11 DEF FlagsKeep

LEMMA UnregisterFlags ==
    ASSUME KqueueInv, NEW f \in Fd, NEW stk,
           stk = stack \/ (stack # <<>> /\ stk = Pop /\ Top.given = NoSock),
           unregister_socket(f, stk), todo' = todo \/ (todo > 0 /\ todo' = todo - 1)
    PROVE  FlagsKeep
  <1>1. CASE f \in DOMAIN event_maps
    <2>1. /\ filters \in [Fd -> SUBSET Filter]
          /\ \A g \in Fd : filters[g] # {} => g \in DOMAIN event_maps
      BY DEF KqueueInv, KernelTyped, WatchedIsRegistered
    <2>2. Ends(f, stk) /\ filters' = Unfiltered(filters, f) /\ evts' = evts
      BY <1>1 DEF unregister_socket
    <2> QED
      BY <1>1, <2>1, <2>2, EndFlags
  <1>2. CASE f \notin DOMAIN event_maps
    <2>1. deregister(f, Filter) /\ stack' = stk /\ UNCHANGED <<fd_of, event_maps, ev, ended>>
      BY <1>2 DEF unregister_socket
    <2>2. /\ filters' \in [Fd -> SUBSET Filter] /\ evts' = <<>> /\ WatchedIsRegistered'
          /\ \A g \in Fd, x \in Filter : x \in filters[g] =>
                 x \in filters'[g] \/ (g = f /\ x \in Filter)
      BY <2>1, DeregisterKeeps
    <2>3. KernelTyped'
      BY <2>2, KernelKeeps DEF KqueueInv
    <2>4. Reports'
      <3>1. CASE stk = stack
        BY <2>1, <2>2, <3>1, ReportsStay DEF KqueueInv
      <3>2. CASE stack # <<>> /\ stk = Pop /\ Top.given = NoSock
        BY <2>1, <2>2, <3>2, ReportsPop DEF KqueueInv
      <3> QED
        BY <3>1, <3>2
    <2>5. EventsTyped'
      BY <2>1 DEF KqueueInv, EventsTyped
    <2>6. ASSUME Steady
          PROVE  Steady'
      <3>1. Apart'
        BY <2>1, <2>6, ApartStays DEF Steady, KqueueInv
      <3>2. DOMAIN event_maps \subseteq Fd /\ \A g \in Fd : filters[g] \subseteq Filter
        BY DEF KqueueInv, SockInv, Shape, KernelTyped
      <3>3. \A g \in DOMAIN event_maps \ {f} : filters[g] \subseteq filters'[g]
        BY <2>2, <3>2
      <3>4. AllWatched'
        BY <1>2, <2>1, <2>6, <3>3, WatchedStay DEF Steady
      <3> QED
        BY <2>2, <3>1, <3>4 DEF Steady, SeenAreThere
    <2> QED
      BY <2>2, <2>3, <2>4, <2>5, <2>6 DEF FlagsKeep
  <1> QED
    BY <1>1, <1>2

(* Nothing changes but which callbacks run. *)
LEMMA NothingFlagged ==
    ASSUME KqueueInv, UNCHANGED <<event_maps, ev, filters, evts>>,
           todo' = todo \/ (todo > 0 /\ todo' = todo - 1),
           Reports', Apart => Apart', NoEnd' => NoEnd
    PROVE  FlagsKeep
  <1>1. KernelTyped'
    BY KernelKeeps DEF KqueueInv, KernelTyped
  <1>2. EventsTyped' /\ WatchedIsRegistered'
    BY DEF KqueueInv, EventsTyped, WatchedIsRegistered
  <1>3. Steady => Steady'
    BY DEF Steady, SeenAreThere, AllWatched
  <1> QED
    BY <1>1, <1>2, <1>3 DEF FlagsKeep
-----------------------------------------------------------------------------
(* Every step, group by group, as Next has them. *)

(* What kevent reports is of sockets in the map. *)
LEMMA ReportedIsKnown ==
    ASSUME KqueueInv, NEW e \in Reported
    PROVE  /\ e \in Report /\ e.filter \in filters[e.fd]
           /\ e.fd \in DOMAIN event_maps /\ event_maps[e.fd] = e.sock
  <1>1. /\ e.fd \in Fd /\ e.filter \in Filter /\ e.sock \in used /\ e \in Report
        /\ e.filter \in filters[e.fd] /\ e.sock = SocketAt(e.fd)
    BY DEF Reported, Report, KqueueInv, SockInv, Shape
  <1>2. e.fd \in DOMAIN event_maps
    BY <1>1 DEF KqueueInv, WatchedIsRegistered
  <1>3. /\ event_maps[e.fd] \in used /\ fd_of[event_maps[e.fd]] = e.fd
        /\ e.fd # NotOpen
    BY <1>1, <1>2, NotOpenIsNoFd DEF KqueueInv, SockInv, RegisteredIsOpen, RegisteredLives
  <1>4. \A t \in used : fd_of[t] = e.fd => t = event_maps[e.fd]
    BY <1>3 DEF KqueueInv, SockInv, OneOwner, Shape
  <1>5. fd_of[SocketAt(e.fd)] = e.fd /\ SocketAt(e.fd) \in used
    BY <1>3 DEF SocketAt
  <1> QED
    BY <1>1, <1>2, <1>4, <1>5

LEMMA SelectFlags ==
    ASSUME KqueueInv, select
    PROVE  FlagsKeep
  <1>1. PICK n \in 0 .. MaxBatch : evts' \in [1 .. n -> Reported] /\ todo' = n
    BY DEF select
  <1>2. n \in Nat /\ n <= MaxBatch
    BY SizeAssumption
  <1>3. \A j \in 1 .. n : /\ evts'[j] \in Report /\ evts'[j].filter \in filters[evts'[j].fd]
                          /\ evts'[j].fd \in DOMAIN event_maps
                          /\ event_maps[evts'[j].fd] = evts'[j].sock
    BY <1>1, ReportedIsKnown
  <1>4. evts' \in Seq(Report) /\ Len(evts') = n
    <2>1. evts' \in [1 .. n -> Report]
      BY <1>1, <1>3
    <2> QED
      BY <1>2, <2>1
  <1>5. UNCHANGED <<filters, event_maps, ev, stack, fd_of>> /\ stack = <<>>
    BY DEF select, sockVars
  <1>6. KernelTyped'
    BY <1>1, <1>2, <1>4, <1>5 DEF KernelTyped, KqueueInv
  <1>7. EventsTyped' /\ WatchedIsRegistered'
    BY <1>5 DEF KqueueInv, EventsTyped, WatchedIsRegistered
  <1>8. Reports'
    BY <1>3, <1>4, <1>5 DEF KqueueInv, Reports, SeenAreCurrent, OpenIsKnown, GivenNotSeen
  <1>9. ASSUME Steady
        PROVE  Steady'
    <2>1. Apart'
      BY <1>5, <1>9, ApartStays DEF Steady, KqueueInv
    <2>2. SeenAreThere'
      BY <1>3, <1>4, <1>5 DEF SeenAreThere
    <2>3. AllWatched'
      BY <1>5, <1>9 DEF Steady, AllWatched
    <2> QED
      BY <2>1, <2>2, <2>3 DEF Steady
  <1> QED
    BY <1>6, <1>7, <1>8, <1>9 DEF FlagsKeep

(* The Event of one entry becomes e, and no filter of another entry goes. *)
LEMMA EntryFlags ==
    ASSUME KqueueInv, NEW f \in DOMAIN event_maps, NEW s \in Sock, s = event_maps[f],
           NEW e \in Events, e.sent <= e.submitted, ev' = [ev EXCEPT ![s] = e],
           UNCHANGED <<fd_of, event_maps, stack>>,
           evts' = evts \/ evts' = <<>>, todo' = todo \/ (todo > 0 /\ todo' = todo - 1),
           filters' \in [Fd -> SUBSET Filter], WatchedIsRegistered',
           \A g \in Fd \ {f} : filters[g] \subseteq filters'[g],
           filters' = filters \/ evts' = <<>>,
           QuietEnds /\ Steady => Serves(filters'[f], e)
    PROVE  FlagsKeep
  <1>1. KernelTyped' /\ Reports'
    BY KernelKeeps, ReportsStay DEF KqueueInv
  <1>2. EventsTyped' /\ ev'[s] = e /\ \A t \in Sock \ {s} : ev'[t] = ev[t]
    BY EventSet DEF KqueueInv
  <1>3. ASSUME QuietEnds, Steady
        PROVE  Steady'
    <2>1. Apart'
      BY <1>3, ApartStays DEF Steady, KqueueInv
    <2>2. SeenAreThere'
      <3>1. CASE evts' = evts /\ filters' = filters
        BY <1>3, <3>1 DEF SeenAreThere, Steady, NoEnd
      <3>2. CASE evts' = <<>>
        BY <3>2 DEF SeenAreThere
      <3> QED
        BY <3>1, <3>2
    <2>3. /\ ev'[event_maps'[f]] = e
          /\ \A g \in DOMAIN event_maps \ {f} : ev'[event_maps[g]] = ev[event_maps[g]]
      BY <1>2, OneEntry DEF KqueueInv
    <2>4. \A g \in DOMAIN event_maps' \ {f} :
              /\ g \in DOMAIN event_maps /\ event_maps'[g] = event_maps[g]
              /\ filters[g] \subseteq filters'[g]
              /\ ev'[event_maps[g]] = ev[event_maps[g]]
      BY <2>3 DEF KqueueInv, SockInv, Shape
    <2>5. AllWatched'
      BY <1>3, <2>3, <2>4, WatchedStay DEF Steady
    <2> QED
      BY <2>1, <2>2, <2>5 DEF Steady
  <1> QED
    BY <1>1, <1>2, <1>3 DEF FlagsKeep

(* write_done with all written. *)
LEMMA WriteAllFlags ==
    ASSUME KqueueInv, write_all
    PROVE  FlagsKeep
  <1>1. PICK f \in DOMAIN event_maps : f = Now.fd
    BY DEF write_all, InMap
  <1>2. PICK s \in Sock : s = event_maps[f] /\ s = Owner
    BY <1>1 DEF Owner, KqueueInv, SockInv, Shape
  <1>3. f \in Fd /\ UNCHANGED <<fd_of, event_maps, stack>> /\ todo > 0 /\ todo' = todo - 1
    BY DEF write_all, InMap, Turn, Dispatching, KqueueInv, SockInv, Shape
  <1>4. deregister(f, {"WRITE"})
    BY <1>1 DEF write_all
  <1>5. /\ filters' \in [Fd -> SUBSET Filter] /\ evts' = <<>> /\ WatchedIsRegistered'
        /\ \A g \in Fd, x \in Filter : x \in filters[g] =>
               x \in filters'[g] \/ (g = f /\ x \in {"WRITE"})
    BY <1>3, <1>4, DeregisterKeeps
  <1>7. PICK old \in Events : old = ev[s]
    BY DEF KqueueInv, EventsTyped
  <1>8. PICK m \in 0 .. MaxSend : m = old.submitted
    BY DEF Events
  <1>9. PICK flags \in SUBSET Flag : flags = old.flags \ {"WRITE"}
    BY DEF Events
  <1>10. PICK no \in BOOLEAN : no = FALSE
    OBVIOUS
  <1>11. ev' = [ev EXCEPT ![s].sent = m, ![s].is_in_write = no, ![s].flags = flags]
    BY <1>2, <1>7, <1>8, <1>9, <1>10 DEF write_all
  <1>12. PICK e : e = [old EXCEPT !.sent = m, !.is_in_write = no, !.flags = flags]
    OBVIOUS
  <1>13. ev' = [ev EXCEPT ![s] = e]
    BY <1>7, <1>11, <1>12 DEF KqueueInv, EventsTyped
  <1>14. e \in Events /\ e.flags = flags /\ e.is_in_write = no /\ e.submitted = m /\ e.sent = m
    BY <1>8, <1>12 DEF Events
  <1>15. e.sent <= e.submitted
    BY <1>14, SizeAssumption
  <1>16. \A g \in Fd \ {f} : filters[g] \subseteq filters'[g]
    BY <1>5 DEF KqueueInv, KernelTyped
  <1>17. ASSUME Steady
         PROVE  e.flags \cap Filter \subseteq filters'[f]
    <2>1. old.flags \cap Filter \subseteq filters[f]
      BY <1>2, <1>7, <1>17 DEF Steady, AllWatched, Serves
    <2> QED
      BY <1>3, <1>5, <1>9, <1>14, <2>1
  <1>18. e.sent = e.submitted /\ ~e.is_in_write
    BY <1>10, <1>14
  <1>19. filters' = filters \/ evts' = <<>>
    BY <1>5
  <1>20. Steady => Serves(filters'[f], e)
    BY <1>17, <1>18 DEF Serves
  <1> QED
    BY <1>2, <1>3, <1>5, <1>13, <1>14, <1>15, <1>16, <1>20, EntryFlags

(* write_done with some of it written. *)
LEMMA WritePartFlags ==
    ASSUME KqueueInv, write_part
    PROVE  FlagsKeep
  <1>1. PICK f \in DOMAIN event_maps : f = Now.fd
    BY DEF write_part, InMap
  <1>2. PICK s \in Sock : s = event_maps[f] /\ s = Owner
    BY <1>1 DEF Owner, KqueueInv, SockInv, Shape
  <1>3. UNCHANGED <<fd_of, event_maps, stack, filters, evts>> /\ todo > 0 /\ todo' = todo - 1
    BY DEF write_part, InMap, Turn, Dispatching
  <1>4. PICK n \in 1 .. Pending(s) - 1 : ev' = [ev EXCEPT ![s].sent = ev[s].sent + n]
    BY <1>2 DEF write_part
  <1>5. PICK old \in Events : old = ev[s]
    BY DEF KqueueInv, EventsTyped
  <1>6. PICK k \in 0 .. MaxSend : k = old.sent + n /\ k < old.submitted /\ old.sent # old.submitted
    <2>1. old.sent \in 0 .. MaxSend /\ old.submitted \in 0 .. MaxSend
      BY DEF Events
    <2>2. n \in 1 .. (old.submitted - old.sent) - 1
      BY <1>4, <1>5 DEF Pending
    <2> QED
      BY <2>1, <2>2, SizeAssumption
  <1>7. PICK e : e = [old EXCEPT !.sent = k]
    OBVIOUS
  <1>8. ev' = [ev EXCEPT ![s] = e]
    BY <1>4, <1>5, <1>6, <1>7 DEF KqueueInv, EventsTyped
  <1>9. /\ e \in Events /\ e.sent = k /\ e.submitted = old.submitted
        /\ e.flags = old.flags /\ e.is_in_write = old.is_in_write
    BY <1>7 DEF Events
  <1>10. e.sent <= e.submitted
    BY <1>6, <1>9, SizeAssumption DEF Events
  <1>11. filters' \in [Fd -> SUBSET Filter] /\ WatchedIsRegistered'
    BY <1>3 DEF KqueueInv, KernelTyped, WatchedIsRegistered
  <1>12. Steady => Serves(filters'[f], e)
    <2>1. Steady => Serves(filters[f], old)
      BY <1>2, <1>5 DEF Steady, AllWatched
    <2>2. Serves(filters[f], old) => Serves(filters[f], e)
      BY <1>6, <1>9, Zenon DEF Serves
    <2> QED
      BY <1>3, <2>1, <2>2
  <1>13. \A g \in Fd \ {f} : filters[g] \subseteq filters'[g]
    BY <1>3
  <1> QED
    BY <1>2, <1>3, <1>8, <1>9, <1>10, <1>11, <1>12, <1>13, EntryFlags

LEMMA DispatchFlags ==
    ASSUME KqueueInv, Dispatch
    PROVE  FlagsKeep
  <1>1. ASSUME NEW s \in Sock, accept_ok(s)
        PROVE  FlagsKeep
    <2>1. PICK f \in Fd : Opened(s, f)
      BY <1>1 DEF accept_ok
    <2>2. /\ stack = <<>> /\ Push(stack, "accept", Owner, Now.fd, s) /\ todo > 0 /\ todo' = todo - 1
          /\ UNCHANGED <<event_maps, ev, filters, evts>>
      BY <1>1 DEF accept_ok, InMap, Turn, Dispatching
    <2>3. Reports'
      BY <2>1, <2>2, ReportsAccept DEF KqueueInv
    <2>4. Apart'
      BY <2>2, ApartPush
    <2>5. NoEnd
      BY <2>2 DEF NoEnd
    <2> QED
      BY <2>2, <2>3, <2>4, <2>5, NothingFlagged
  <1>2. ASSUME accept_err \/ read_data
        PROVE  FlagsKeep
    <2>1. PICK kind \in {"accept", "read"} :
              /\ stack = <<>> /\ Push(stack, kind, Owner, Now.fd, NoSock) /\ todo > 0 /\ todo' = todo - 1
              /\ UNCHANGED <<fd_of, event_maps, ev, filters, evts>>
      BY <1>2 DEF accept_err, read_data, InMap, Turn, Dispatching
    <2>2. Reports'
      BY <2>1, ReportsPush DEF KqueueInv
    <2>3. Apart'
      BY <2>1, ApartPush
    <2>4. NoEnd
      BY <2>1 DEF NoEnd
    <2> QED
      BY <2>1, <2>2, <2>3, <2>4, NothingFlagged
  <1>3. ASSUME read_end \/ write_fails
        PROVE  FlagsKeep
    <2>1. Now.fd \in Fd /\ unregister_socket(Now.fd, stack) /\ todo > 0 /\ todo' = todo - 1
      BY <1>3 DEF read_end, write_fails, InMap, Turn, Dispatching, KqueueInv, SockInv, Shape
    <2> QED
      BY <2>1, UnregisterFlags
  <1> QED
    BY <1>1, <1>2, <1>3, WriteAllFlags, WritePartFlags DEF Dispatch
LEMMA ReturnFlags ==
    ASSUME KqueueInv, Return
    PROVE  FlagsKeep
  <1>1. stack # <<>>
    BY DEF Return, drop_given, DropGiven, callback_returns, callback_over, end_returns,
       ReturnsOver, Returning
  <1>2. /\ Len(stack) \in 1 .. Len(stack) /\ Top.fd \in Fd /\ Len(Pop) = Len(stack) - 1
        /\ \A i \in 1 .. Len(Pop) : Pop[i] = stack[i]
    BY <1>1, PopShape DEF KqueueInv, SockInv, Shape, Frame
  <1>3. ASSUME drop_given
        PROVE  FlagsKeep
    <2>1. /\ Top.given # NoSock /\ stack' = [stack EXCEPT ![Len(stack)].given = NoSock]
          /\ fd_of' = [fd_of EXCEPT ![Top.given] = NotOpen]
          /\ UNCHANGED <<event_maps, ev, filters, evts, todo>>
      BY <1>3 DEF drop_given, DropGiven
    <2>2. Reports'
      BY <1>1, <2>1, ReportsTake DEF KqueueInv
    <2>3. Apart => Apart'
      BY <1>1, <2>1, ApartStays DEF KqueueInv
    <2>4. NoEnd' => NoEnd
      <3>1. Len(stack') = Len(stack) /\ \A i \in 1 .. Len(stack) : stack'[i].kind = stack[i].kind
        BY <1>1, <2>1, TakenShape DEF KqueueInv, SockInv
      <3> QED
        BY <3>1 DEF NoEnd
    <2> QED
      BY <2>1, <2>2, <2>3, <2>4, NothingFlagged
  <1>4. ASSUME callback_returns
        PROVE  FlagsKeep
    <2>1. /\ Top.given = NoSock /\ Top.kind # "end" /\ stack' = Pop
          /\ UNCHANGED <<fd_of, event_maps, ev, filters, evts, todo>>
      BY <1>4 DEF callback_returns, Returning
    <2>2. Reports'
      BY <1>1, <2>1, ReportsPop DEF KqueueInv
    <2>3. Apart => Apart'
      BY <1>1, <2>1, ApartStays DEF KqueueInv
    <2>4. NoEnd' => NoEnd
      <3>1. \A i \in 1 .. Len(stack) : i = Len(stack) \/ i \in 1 .. Len(Pop)
        BY <1>2
      <3> QED
        BY <1>2, <2>1, <3>1 DEF NoEnd, Top
    <2> QED
      BY <2>1, <2>2, <2>3, <2>4, NothingFlagged
  <1>5. ASSUME callback_over
        PROVE  FlagsKeep
    BY <1>1, <1>2, <1>5, UnregisterFlags DEF callback_over, ReturnsOver, Returning
  <1>6. ASSUME end_returns
        PROVE  FlagsKeep
    <2>1. /\ Top.given = NoSock /\ Top.kind = "end" /\ stack' = Pop /\ deregister(Top.fd, Filter)
          /\ UNCHANGED <<fd_of, event_maps, ev, todo>>
      BY <1>6 DEF end_returns, Returning
    <2>2. /\ filters' \in [Fd -> SUBSET Filter] /\ evts' = <<>> /\ WatchedIsRegistered'
          /\ \A g \in Fd, x \in Filter : x \in filters[g] =>
                 x \in filters'[g] \/ (g = Top.fd /\ x \in Filter)
      BY <1>2, <2>1, DeregisterKeeps
    <2>3. KernelTyped' /\ EventsTyped'
      BY <2>1, <2>2, KernelKeeps DEF KqueueInv, EventsTyped
    <2>4. Reports'
      BY <1>1, <2>1, <2>2, ReportsPop DEF KqueueInv
    <2>5. ASSUME Steady
          PROVE  Steady'
      <3>1. Apart'
        BY <1>1, <2>1, <2>5, ApartStays DEF Steady, KqueueInv
      <3>2. Top.fd \notin DOMAIN event_maps
        BY <1>2, <2>1, <2>5 DEF Steady, Apart, Top
      <3>3. DOMAIN event_maps \subseteq Fd /\ \A g \in Fd : filters[g] \subseteq Filter
        BY DEF KqueueInv, SockInv, Shape, KernelTyped
      <3>4. \A g \in DOMAIN event_maps : filters[g] \subseteq filters'[g]
        BY <2>2, <3>2, <3>3
      <3>5. AllWatched'
        BY <2>1, <2>5, <3>2, <3>4, WatchedStay DEF Steady
      <3> QED
        BY <2>2, <3>1, <3>5 DEF Steady, SeenAreThere
    <2> QED
      BY <2>2, <2>3, <2>4, <2>5 DEF FlagsKeep
  <1> QED
    BY <1>3, <1>4, <1>5, <1>6 DEF Return

(* register_socket, with success: an entry comes in. *)
LEMMA EnterFlags ==
    ASSUME KqueueInv, NEW f \in Fd, NEW s \in Sock, NEW flags \in SUBSET Flag,
           f \notin DOMAIN event_maps, \A g \in DOMAIN event_maps : event_maps[g] # s,
           NEW r \in Flushes(changes(f, flags, "add"), OpenFds \cup {f}), r.ok, flush_changes(r),
           event_maps' = Bind(event_maps, f, s),
           ev' = [ev EXCEPT ![s] = [NoEvent EXCEPT !.flags = flags]],
           UNCHANGED todo, Reports', QuietEnds /\ Apart => Apart'
    PROVE  FlagsKeep
  <1>1. Answered(r, f, flags, "add", OpenFds \cup {f})
    BY FlushIs DEF KqueueInv, KernelTyped
  <1>2. filters' = r.filters /\ evts' = <<>>
    BY DEF flush_changes
  <1>3. /\ filters' \in [Fd -> SUBSET Filter]
        /\ \A g \in Fd : filters'[g] # {} => g \in DOMAIN event_maps \cup {f}
    BY <1>2, FlushKeeps
  <1>4. /\ DOMAIN event_maps' = DOMAIN event_maps \cup {f} /\ event_maps'[f] = s
        /\ \A g \in DOMAIN event_maps : event_maps'[g] = event_maps[g]
    BY DEF Bind
  <1>5. KernelTyped' /\ WatchedIsRegistered'
    BY <1>2, <1>3, <1>4, KernelKeeps DEF KqueueInv, WatchedIsRegistered
  <1>6. PICK e : e = [NoEvent EXCEPT !.flags = flags]
    OBVIOUS
  <1>7. /\ e \in Events /\ e.flags = flags /\ e.sent = e.submitted /\ ~e.is_in_write
        /\ e.sent <= e.submitted
    <2>1. PICK none \in Events : none = NoEvent /\ none.sent = none.submitted /\ ~none.is_in_write
      BY NoEventYet
    <2>2. e = [none EXCEPT !.flags = flags]
      BY <1>6, <2>1
    <2>3. /\ e \in Events /\ e.flags = flags /\ e.sent = none.sent
          /\ e.submitted = none.submitted /\ e.is_in_write = none.is_in_write
      BY <2>2 DEF Events
    <2> QED
      BY <2>1, <2>3, SizeAssumption DEF Events
  <1>8. ev' = [ev EXCEPT ![s] = e]
    BY <1>6
  <1>9. EventsTyped' /\ ev'[s] = e /\ \A t \in Sock \ {s} : ev'[t] = ev[t]
    BY <1>7, <1>8, EventSet DEF KqueueInv
  <1>10. ASSUME QuietEnds, Steady
         PROVE  Steady'
    <2>1. Apart' /\ SeenAreThere'
      BY <1>2, <1>10 DEF Steady, SeenAreThere
    <2>2. Serves(filters'[f], e)
      BY <1>1, <1>2, <1>7 DEF Answered, Serves
    <2>3. \A g \in Fd : filters[g] \subseteq filters'[g]
      BY <1>1, <1>2 DEF Answered, KqueueInv, KernelTyped
    <2>4. \A g \in DOMAIN event_maps : event_maps[g] \in Sock /\ g \in Fd
      BY DEF KqueueInv, SockInv, Shape
    <2>5. AllWatched'
      BY <1>4, <1>9, <1>10, <2>2, <2>3, <2>4, WatchedStay DEF Steady
    <2> QED
      BY <2>1, <2>5 DEF Steady
  <1> QED
    BY <1>5, <1>9, <1>10 DEF FlagsKeep

(* ... and refused, after which the descriptor is closed. *)
LEMMA RefusedFlags ==
    ASSUME KqueueInv, NEW f \in Fd, NEW flags, f \notin DOMAIN event_maps,
           NEW r \in Flushes(changes(f, flags, "add"), OpenFds \cup {f}),
           flush_changes([r EXCEPT !.filters = Unfiltered(@, f)]),
           UNCHANGED <<event_maps, ev, todo>>, Reports', Apart => Apart'
    PROVE  FlagsKeep
  <1>1. Answered(r, f, flags, "add", OpenFds \cup {f})
    BY FlushIs DEF KqueueInv, KernelTyped
  <1>2. filters' = Unfiltered(r.filters, f) /\ evts' = <<>>
    <2>1. r \in Answer
      BY <1>1 DEF Answered
    <2> QED
      BY <2>1 DEF flush_changes, Answer
  <1>3. /\ r.filters \in [Fd -> SUBSET Filter]
        /\ \A g \in Fd : r.filters[g] # {} => g \in DOMAIN event_maps \cup {f}
    BY FlushKeeps
  <1>4. /\ filters' \in [Fd -> SUBSET Filter]
        /\ \A g \in Fd : filters'[g] = IF g = f THEN {} ELSE r.filters[g]
    BY <1>2, <1>3 DEF Unfiltered
  <1>5. KernelTyped' /\ EventsTyped' /\ WatchedIsRegistered'
    BY <1>2, <1>3, <1>4, KernelKeeps DEF KqueueInv, EventsTyped, WatchedIsRegistered
  <1>6. ASSUME Steady
        PROVE  Steady'
    <2>1. Apart' /\ SeenAreThere'
      BY <1>2, <1>6 DEF Steady, SeenAreThere
    <2>2. \A g \in Fd : filters[g] \subseteq r.filters[g]
      BY <1>1 DEF Answered, KqueueInv, KernelTyped
    <2>3. DOMAIN event_maps \subseteq Fd
      BY DEF KqueueInv, SockInv, Shape
    <2>4. AllWatched'
      BY <1>4, <1>6, <2>2, <2>3, WatchedStay DEF Steady
    <2> QED
      BY <2>1, <2>4 DEF Steady
  <1> QED
    BY <1>5, <1>6 DEF FlagsKeep
(* What send_socket and modify_socket add to the filters of an entry. *)
LEMMA AddedFilters ==
    ASSUME KqueueInv, NEW f \in DOMAIN event_maps, NEW flags,
           NEW r \in Flushes(changes(f, flags, "add"), OpenFds)
    PROVE  /\ r.filters \in [Fd -> SUBSET Filter]
           /\ \A g \in Fd : /\ filters[g] \subseteq r.filters[g]
                            /\ r.filters[g] # {} => g \in DOMAIN event_maps
           /\ r.ok => flags \cap Filter \subseteq r.filters[f]
           /\ NoEnd /\ SeenAreThere => r.ok
  <1>1. f \in Fd /\ f \in OpenFds
    BY NotOpenIsNoFd DEF KqueueInv, SockInv, Shape, RegisteredIsOpen, RegisteredLives, OpenFds
  <1>2. Answered(r, f, flags, "add", OpenFds)
    BY <1>1, FlushIs DEF KqueueInv, KernelTyped
  <1>3. r.filters \in [Fd -> SUBSET Filter] /\ \A g \in Fd : r.filters[g] # {} => g \in DOMAIN event_maps
    BY <1>1, FlushKeeps
  <1>4. \A g \in Fd : filters[g] \subseteq r.filters[g]
    BY <1>2 DEF Answered, KqueueInv, KernelTyped
  <1>5. NoEnd /\ SeenAreThere => r.ok
    BY <1>1, <1>2 DEF Answered, SeenAreThere
  <1> QED
    BY <1>2, <1>3, <1>4, <1>5 DEF Answered

LEMMA SendFlags ==
    ASSUME KqueueInv, NEW g \in Fd, send_socket(g)
    PROVE  FlagsKeep
  <1>1. PICK f \in DOMAIN event_maps : f = g
    BY DEF send_socket
  <1>2. UNCHANGED <<fd_of, event_maps, stack, todo>>
    BY DEF send_socket
  <1>3. PICK s \in Sock : s = event_maps[f]
    BY DEF KqueueInv, SockInv, Shape
  <1>4. PICK old \in Events : old = ev[s] /\ old.sent <= old.submitted
    BY DEF KqueueInv, EventsTyped
  <1>5. PICK m \in 0 .. MaxSend : m = old.submitted + 1 /\ old.sent <= m
    BY <1>1, <1>3, <1>4, SizeAssumption DEF Events, send_socket
  <1>6. PICK yes \in BOOLEAN : yes = TRUE
    OBVIOUS
  <1>7. Steady => Serves(filters[f], old)
    BY <1>3, <1>4 DEF Steady, AllWatched
  <1>8. CASE ev[s].is_in_write
    <2>1. UNCHANGED <<filters, evts>> /\ ev' = [ev EXCEPT ![s].submitted = m]
      BY <1>1, <1>3, <1>4, <1>5, <1>8 DEF send_socket
    <2>2. PICK e : e = [old EXCEPT !.submitted = m]
      OBVIOUS
    <2>3. ev' = [ev EXCEPT ![s] = e]
      BY <1>4, <2>1, <2>2 DEF KqueueInv, EventsTyped
    <2>4. /\ e \in Events /\ e.submitted = m /\ e.sent = old.sent
          /\ e.flags = old.flags /\ e.is_in_write = old.is_in_write
      BY <2>2 DEF Events
    <2>5. Serves(filters[f], old) => Serves(filters[f], e)
      BY <1>4, <1>8, <2>4, Zenon DEF Serves
    <2>6. e.sent <= e.submitted
      BY <1>5, <2>4
    <2>7. filters' \in [Fd -> SUBSET Filter] /\ WatchedIsRegistered'
          /\ \A h \in Fd \ {f} : filters[h] \subseteq filters'[h]
      BY <1>2, <2>1 DEF KqueueInv, KernelTyped, WatchedIsRegistered
    <2>8. Steady => Serves(filters'[f], e)
      BY <1>7, <2>1, <2>5
    <2>9. evts' = evts /\ filters' = filters /\ todo' = todo
      BY <1>2, <2>1
    <2> QED
      BY <1>2, <1>3, <2>3, <2>4, <2>6, <2>7, <2>8, <2>9, EntryFlags
  <1>9. CASE ~ev[s].is_in_write
    <2>1. PICK flags \in SUBSET Flag : flags = old.flags \cup {"WRITE"}
      BY DEF Events, Flag
    <2>2. PICK r \in Flushes(changes(f, {"WRITE"}, "add"), OpenFds) : flush_changes(r)
      BY <1>1, <1>3, <1>9 DEF send_socket
    <2>3. ev' = [ev EXCEPT ![s].submitted = m, ![s].is_in_write = yes, ![s].flags = flags]
      BY <1>1, <1>3, <1>4, <1>5, <1>6, <1>9, <2>1 DEF send_socket
    <2>4. PICK e : e = [old EXCEPT !.submitted = m, !.is_in_write = yes, !.flags = flags]
      OBVIOUS
    <2>5. ev' = [ev EXCEPT ![s] = e]
      BY <1>4, <2>3, <2>4 DEF KqueueInv, EventsTyped
    <2>6. /\ e \in Events /\ e.submitted = m /\ e.sent = old.sent
          /\ e.flags = flags /\ e.is_in_write = yes
      BY <2>4 DEF Events
    <2>7. e.sent <= e.submitted
      BY <1>5, <2>6
    <2>8. filters' = r.filters /\ evts' = <<>>
      BY <2>2 DEF flush_changes
    <2>9. /\ r.filters \in [Fd -> SUBSET Filter]
          /\ \A h \in Fd : filters[h] \subseteq r.filters[h] /\ (r.filters[h] # {} => h \in DOMAIN event_maps)
          /\ r.ok => {"WRITE"} \cap Filter \subseteq r.filters[f]
          /\ NoEnd /\ SeenAreThere => r.ok
      BY <2>2, AddedFilters
    <2>10. WatchedIsRegistered'
      BY <1>2, <2>8, <2>9 DEF WatchedIsRegistered
    <2>11. ASSUME QuietEnds, Steady
           PROVE  Serves(filters'[f], e)
      <3>1. Here # "end"
        BY <2>11 DEF send_socket, May, Permitted, QuietEnds
      <3>2. NoEnd
        BY <2>11, <3>1, OneCallback DEF Steady, NoEnd, KqueueInv
      <3>3. "WRITE" \in filters'[f]
        BY <2>8, <2>9, <2>11, <3>2 DEF Steady, Filter
      <3>4. filters[f] \subseteq filters'[f]
        BY <1>1, <2>8, <2>9
      <3>5. e.flags \cap Filter \subseteq filters'[f]
        BY <1>7, <2>1, <2>6, <2>11, <3>3, <3>4 DEF Serves
      <3>6. e.is_in_write
        BY <1>6, <2>6
      <3> QED
        BY <3>3, <3>5, <3>6 DEF Serves
    <2> QED
      BY <1>2, <1>3, <2>5, <2>6, <2>7, <2>8, <2>9, <2>10, <2>11, EntryFlags
  <1> QED
    BY <1>8, <1>9

LEMMA ModifyFlags ==
    ASSUME KqueueInv, NEW g \in Fd, modify_socket(g)
    PROVE  FlagsKeep
  <1>1. PICK f \in DOMAIN event_maps : f = g
    BY DEF modify_socket
  <1>2. PICK s \in Sock : s = event_maps[f]
    BY DEF KqueueInv, SockInv, Shape
  <1>3. PICK old \in Events : old = ev[s] /\ old.sent <= old.submitted
    BY DEF KqueueInv, EventsTyped
  <1>4. PICK is_del \in BOOLEAN, arg \in SUBSET Flag :
            \E r \in Flushes(changes(f, merge(old.flags, is_del, arg), "add"), OpenFds) :
               IF r.ok
               THEN /\ ev' = [ev EXCEPT ![s].flags = merge(old.flags, is_del, arg)]
                    /\ flush_changes(r)
                    /\ UNCHANGED <<fd_of, event_maps, stack, ended>>
               ELSE /\ Ends(f, stack)
                    /\ flush_changes([r EXCEPT !.filters = Unfiltered(@, f)])
    BY <1>1, <1>2, <1>3 DEF modify_socket
  <1>5. PICK flags \in SUBSET Flag : flags = merge(old.flags, is_del, arg)
    BY DEF merge, Events
  <1>6. PICK r \in Flushes(changes(f, flags, "add"), OpenFds) :
            IF r.ok
            THEN /\ ev' = [ev EXCEPT ![s].flags = flags]
                 /\ flush_changes(r)
                 /\ UNCHANGED <<fd_of, event_maps, stack, ended>>
            ELSE /\ Ends(f, stack)
                 /\ flush_changes([r EXCEPT !.filters = Unfiltered(@, f)])
    BY <1>4, <1>5, Zenon
  <1>7. /\ r.filters \in [Fd -> SUBSET Filter]
        /\ \A h \in Fd : filters[h] \subseteq r.filters[h] /\ (r.filters[h] # {} => h \in DOMAIN event_maps)
        /\ r.ok => flags \cap Filter \subseteq r.filters[f]
    BY AddedFilters
  <1>8. UNCHANGED todo
    BY DEF modify_socket
  <1>9. CASE r.ok
    <2>1. PICK e : e = [old EXCEPT !.flags = flags]
      OBVIOUS
    <2>2. ev' = [ev EXCEPT ![s] = e]
      BY <1>3, <1>6, <1>9, <2>1 DEF KqueueInv, EventsTyped
    <2>3. /\ e \in Events /\ e.submitted = old.submitted /\ e.sent = old.sent
          /\ e.flags = flags /\ e.is_in_write = old.is_in_write
      BY <2>1 DEF Events
    <2>4. e.sent <= e.submitted
      BY <1>3, <2>3
    <2>5. filters' = r.filters /\ evts' = <<>> /\ UNCHANGED <<fd_of, event_maps, stack>>
      BY <1>6, <1>9 DEF flush_changes
    <2>6. WatchedIsRegistered'
      BY <1>7, <2>5 DEF WatchedIsRegistered
    <2>7. ASSUME Steady
          PROVE  Serves(filters'[f], e)
      <3>1. Serves(filters[f], old) /\ filters[f] \subseteq filters'[f]
        BY <1>1, <1>2, <1>3, <1>7, <2>5, <2>7 DEF Steady, AllWatched
      <3>2. e.flags \cap Filter \subseteq filters'[f]
        BY <1>7, <1>9, <2>3, <2>5
      <3>3. /\ e.sent # e.submitted => e.is_in_write
            /\ e.is_in_write => "WRITE" \in filters[f]
        BY <2>3, <3>1, Zenon DEF Serves
      <3> QED
        BY <3>1, <3>2, <3>3 DEF Serves
    <2> QED
      BY <1>2, <1>7, <1>8, <2>2, <2>3, <2>4, <2>5, <2>6, <2>7, EntryFlags
  <1>10. CASE ~r.ok
    <2>1. Ends(f, stack) /\ flush_changes([r EXCEPT !.filters = Unfiltered(@, f)])
      BY <1>6, <1>10
    <2>2. r \in Answer
      BY <1>1, FlushIs DEF KqueueInv, KernelTyped, Answered
    <2>3. filters' = Unfiltered(r.filters, f) /\ evts' = <<>>
      BY <2>1, <2>2 DEF flush_changes, Answer
    <2> QED
      BY <1>7, <1>8, <2>1, <2>3, EndFlags
  <1> QED
    BY <1>9, <1>10
LEMMA RegisterFlags ==
    ASSUME KqueueInv, NEW s \in Sock, register(s)
    PROVE  FlagsKeep
  <1>1. PICK f \in Fd, flags \in RegFlags : LowestFree(f) /\ register_socket(s, f, flags)
    BY DEF register
  <1>2. s \in Sock \ used /\ used' = used \cup {s} /\ UNCHANGED <<stack, ended, todo>>
    BY DEF register
  <1>3. flags \in SUBSET Flag
    BY FlagAssumption
  <1>4. PICK r \in Flushes(changes(f, flags, "add"), OpenFds \cup {f}) :
            IF r.ok
            THEN /\ flush_changes(r)
                 /\ fd_of' = [fd_of EXCEPT ![s] = f]
                 /\ event_maps' = Bind(event_maps, f, s)
                 /\ ev' = [ev EXCEPT ![s] = [NoEvent EXCEPT !.flags = flags]]
            ELSE /\ flush_changes([r EXCEPT !.filters = Unfiltered(@, f)])
                 /\ fd_of' = [fd_of EXCEPT ![s] = NotOpen]
                 /\ UNCHANGED <<event_maps, ev>>
    BY <1>1 DEF register_socket
  <1>5. \A g \in DOMAIN event_maps : event_maps[g] # s
    BY <1>2 DEF KqueueInv, SockInv, RegisteredLives
  <1>6. f \notin DOMAIN event_maps
    BY <1>1, NotOpenIsNoFd DEF LowestFree, OpenFds, KqueueInv, SockInv, RegisteredIsOpen, RegisteredLives
  <1>7. CASE r.ok
    <2>1. /\ flush_changes(r) /\ event_maps' = Bind(event_maps, f, s)
          /\ ev' = [ev EXCEPT ![s] = [NoEvent EXCEPT !.flags = flags]]
      BY <1>4, <1>7
    <2>2. Opened(s, f)
      BY <1>1, <1>2, <1>4, <1>7 DEF Opened
    <2>3. evts' = <<>>
      BY <2>1 DEF flush_changes
    <2>4. Reports'
      BY <1>2, <2>1, <2>2, <2>3, ReportsRegister DEF KqueueInv
    <2>5. QuietEnds => Here # "end"
      BY DEF register, May, Permitted, QuietEnds
    <2>6. QuietEnds /\ Apart => Apart'
      BY <1>2, <2>5, ApartOpens DEF KqueueInv
    <2> QED
      BY <1>2, <1>3, <1>5, <1>6, <1>7, <2>1, <2>4, <2>6, EnterFlags
  <1>8. CASE ~r.ok
    <2>1. /\ flush_changes([r EXCEPT !.filters = Unfiltered(@, f)])
          /\ fd_of' = [fd_of EXCEPT ![s] = NotOpen] /\ UNCHANGED <<event_maps, ev>>
      BY <1>4, <1>8
    <2>2. fd_of[s] = NotOpen /\ fd_of \in [Sock -> Fd \cup {NotOpen}]
      BY <1>2 DEF KqueueInv, SockInv, Shape, OneOwner
    <2>3. UNCHANGED fd_of
      BY <2>1, <2>2
    <2>4. evts' = <<>>
      BY <2>1 DEF flush_changes
    <2>5. Reports' /\ (Apart => Apart')
      BY <1>2, <2>1, <2>3, <2>4, ReportsStay, ApartStays DEF KqueueInv
    <2> QED
      BY <1>2, <1>6, <2>1, <2>5, RefusedFlags
  <1> QED
    BY <1>7, <1>8

LEMMA RegisterRefusedFlags ==
    ASSUME KqueueInv, NEW s \in Sock, register_refused(s)
    PROVE  FlagsKeep
  <1>1. PICK f \in Fd : /\ LowestFree(f)
                        /\ \E r \in Flushes(<<>>, OpenFds \cup {f}) :
                              flush_changes([r EXCEPT !.filters = Unfiltered(@, f)])
    BY DEF register_refused
  <1>2. UNCHANGED <<fd_of, event_maps, ev, stack, todo>>
    BY DEF register_refused
  <1>3. changes(f, {}, "add") = <<>>
    BY ChangesAre
  <1>4. PICK r \in Flushes(changes(f, {}, "add"), OpenFds \cup {f}) :
            flush_changes([r EXCEPT !.filters = Unfiltered(@, f)])
    BY <1>1, <1>3, Zenon
  <1>5. f \notin DOMAIN event_maps
    BY <1>1, NotOpenIsNoFd DEF LowestFree, OpenFds, KqueueInv, SockInv, RegisteredIsOpen, RegisteredLives
  <1>6. evts' = <<>>
    BY <1>4 DEF flush_changes
  <1>7. Reports' /\ (Apart => Apart')
    BY <1>2, <1>6, ReportsStay, ApartStays DEF KqueueInv
  <1> QED
    BY <1>2, <1>4, <1>5, <1>7, RefusedFlags

LEMMA RegisterGivenFlags ==
    ASSUME KqueueInv, register_given
    PROVE  FlagsKeep
  <1>1. /\ stack # <<>> /\ Top.given # NoSock /\ UNCHANGED todo
        /\ stack' = [stack EXCEPT ![Len(stack)].given = NoSock]
    BY DEF register_given
  <1>2. PICK s \in Sock : s = Top.given /\ \A g \in DOMAIN event_maps : event_maps[g] # s
    BY <1>1, GivenIsNew DEF KqueueInv, Range
  <1>3. Len(stack) \in 1 .. Len(stack)
    BY <1>1, PopShape DEF KqueueInv, SockInv, Shape
  <1>4. PICK f \in Fd : f = fd_of[s] /\ f \notin DOMAIN event_maps
    BY <1>1, <1>2, <1>3, GivenIsNew DEF KqueueInv, SockInv, GivenWaits, Top
  <1>5. PICK flags \in RegFlags : register_socket(s, f, flags)
    BY <1>2, <1>4 DEF register_given
  <1>6. flags \in SUBSET Flag
    BY FlagAssumption
  <1>7. PICK r \in Flushes(changes(f, flags, "add"), OpenFds \cup {f}) :
            IF r.ok
            THEN /\ flush_changes(r)
                 /\ fd_of' = [fd_of EXCEPT ![s] = f]
                 /\ event_maps' = Bind(event_maps, f, s)
                 /\ ev' = [ev EXCEPT ![s] = [NoEvent EXCEPT !.flags = flags]]
            ELSE /\ flush_changes([r EXCEPT !.filters = Unfiltered(@, f)])
                 /\ fd_of' = [fd_of EXCEPT ![s] = NotOpen]
                 /\ UNCHANGED <<event_maps, ev>>
    BY <1>5 DEF register_socket
  <1>8. evts' = <<>>
    BY <1>7 DEF flush_changes
  <1>9. CASE r.ok
    <2>1. /\ flush_changes(r) /\ event_maps' = Bind(event_maps, f, s)
          /\ ev' = [ev EXCEPT ![s] = [NoEvent EXCEPT !.flags = flags]]
      BY <1>7, <1>9
    <2>2. UNCHANGED fd_of
      BY <1>4, <1>7, <1>9 DEF KqueueInv, SockInv, Shape
    <2>3. Reports'
      BY <1>1, <1>2, <1>4, <1>8, <2>1, <2>2, ReportsTake DEF KqueueInv
    <2>4. Apart => Here # "end"
      BY <1>1, <1>3 DEF Apart, Here, Top
    <2>5. Apart => Apart'
      BY <1>1, <2>4, ApartOpens DEF KqueueInv
    <2> QED
      BY <1>1, <1>2, <1>4, <1>6, <1>9, <2>1, <2>3, <2>5, EnterFlags
  <1>10. CASE ~r.ok
    <2>1. /\ flush_changes([r EXCEPT !.filters = Unfiltered(@, f)])
          /\ fd_of' = [fd_of EXCEPT ![s] = NotOpen] /\ UNCHANGED <<event_maps, ev>>
      BY <1>7, <1>10
    <2>2. Reports'
      BY <1>1, <1>2, <1>8, <2>1, ReportsTake DEF KqueueInv
    <2>3. Apart => Apart'
      BY <1>1, <2>1, ApartStays DEF KqueueInv
    <2> QED
      BY <1>1, <1>4, <2>1, <2>2, <2>3, RefusedFlags
  <1> QED
    BY <1>9, <1>10

LEMMA UserCallFlags ==
    ASSUME KqueueInv, UserCall
    PROVE  FlagsKeep
  <1>1. ASSUME unregister_own
        PROVE  FlagsKeep
    <2>1. stack # <<>> /\ unregister_socket(Top.fd, stack) /\ UNCHANGED todo
      BY <1>1 DEF unregister_own
    <2>2. Top.fd \in Fd
      BY <2>1, PopShape DEF KqueueInv, SockInv, Shape, Frame
    <2> QED
      BY <2>1, <2>2, UnregisterFlags
  <1>2. ASSUME NEW f \in Fd, unregister_other(f)
        PROVE  FlagsKeep
    BY <1>2, UnregisterFlags DEF unregister_other
  <1> QED
    BY <1>1, <1>2, RegisterFlags, RegisterRefusedFlags, RegisterGivenFlags, SendFlags, ModifyFlags
    DEF UserCall

LEMMA FlagsStep ==
    ASSUME KqueueInv, [Next]_vars
    PROVE  FlagsKeep
  <1>1. CASE UNCHANGED vars
    <2>1. UNCHANGED <<fd_of, event_maps, ev, stack, filters, evts, todo>>
      BY <1>1 DEF vars, sockVars
    <2>2. Reports' /\ (Apart => Apart') /\ (NoEnd' => NoEnd)
      BY <2>1, ReportsStay, ApartStays DEF KqueueInv, NoEnd
    <2> QED
      BY <2>1, <2>2, NothingFlagged
  <1> QED
    BY <1>1, SelectFlags, DispatchFlags, ReturnFlags, UserCallFlags DEF Next

LEMMA KqueueInitial == Init => KqueueInv /\ Steady
  <1> SUFFICES ASSUME Init PROVE KqueueInv /\ Steady
    OBVIOUS
  <1>1. SockInv
    BY SocketsInitial DEF Init
  <1>2. /\ stack = <<>> /\ evts = <<>> /\ todo = 0 /\ DOMAIN event_maps = {}
        /\ \A s \in Sock : fd_of[s] = NotOpen
        /\ filters = [f \in Fd |-> {}]
    BY DEF Init, SocketsInit
  <1>3. Len(stack) = 0 /\ Len(evts) = 0 /\ evts \in Seq(Report)
    BY <1>2
  <1>4. Reports
    BY <1>2, <1>3 DEF Reports, SeenAreCurrent, OpenIsKnown, GivenNotSeen
  <1>5. KernelTyped /\ WatchedIsRegistered
    BY <1>2, <1>3, SizeAssumption DEF KernelTyped, WatchedIsRegistered
  <1>6. ev \in [Sock -> Events] /\ \A s \in Sock : ev[s] = NoEvent
    BY NoEventYet DEF Init, SocketsInit
  <1>7. EventsTyped
    BY <1>6, NoEventYet, SizeAssumption DEF EventsTyped, Events
  <1>8. Steady
    BY <1>2, <1>3 DEF Steady, Apart, SeenAreThere, AllWatched
  <1> QED
    BY <1>1, <1>4, <1>5, <1>7, <1>8 DEF KqueueInv

(* The inductive invariant, of every program. *)
THEOREM KqueueReports == Spec => []KqueueInv
  <1>1. Init => KqueueInv
    BY KqueueInitial
  <1>2. KqueueInv /\ [Next]_vars => KqueueInv'
    BY KqueueStep, FlagsStep DEF KqueueInv, FlagsKeep
  <1> QED
    BY <1>1, <1>2, PTL DEF Spec

(* TypeOK holds for every program: sys_events holds well-formed events, never
   more than the buffer has room for, do_select never counts beyond them unless
   they were cleared, and no buffer is written past what it was given. *)
THEOREM KqueueTypeCorrect == Spec => []TypeOK
  <1>1. KqueueInv => TypeOK
    BY DEF KqueueInv, KernelTyped, EventsTyped, Events, SockInv, Shape, TypeOK, SocketsTypeOK
  <1> QED
    BY <1>1, KqueueReports, PTL

(* WatchedIsRegistered holds for every program: whatever events flush_changes
   sends back as changes, and on systems that take them as registrations too, the
   kernel watches no descriptor that has no entry in the map. *)
THEOREM KqueueWatchedIsRegistered == Spec => []WatchedIsRegistered
  <1>1. KqueueInv => WatchedIsRegistered
    BY DEF KqueueInv
  <1> QED
    BY <1>1, KqueueReports, PTL

(* DispatchIsCurrent holds for every program: do_select looks up by descriptor,
   and finds the socket kevent reported the event for, whatever the callbacks
   before it ended, opened and registered. *)
THEOREM KqueueDispatchIsCurrent == Spec => []DispatchIsCurrent
  <1>1. KqueueInv => DispatchIsCurrent
    <2> SUFFICES ASSUME KqueueInv, Dispatching
                 PROVE  Now.fd \in DOMAIN event_maps /\ Owner = Now.sock
      BY DEF DispatchIsCurrent
    <2>1. stack = <<>> /\ todo > 0 /\ evts # <<>>
      BY DEF Dispatching
    <2>2. NoEnd
      BY <2>1 DEF NoEnd
    <2>3. Len(evts) - todo + 1 \in 1 .. Len(evts)
      <3>1. Len(evts) \in Nat /\ todo \in Nat /\ todo <= Len(evts)
        BY <2>1, SizeAssumption DEF KqueueInv, KernelTyped
      <3> QED
        BY <2>1, <3>1
    <2> QED
      BY <2>2, <2>3 DEF KqueueInv, Reports, SeenAreCurrent, Now, Owner
  <1> QED
    BY <1>1, KqueueReports, PTL

(* When QuietEnds, the filters serve every registered socket in every state. *)
THEOREM KqueueServes ==
    ASSUME QuietEnds
    PROVE  Spec => [](KqueueInv /\ AllWatched)
  <1> DEFINE Inv == KqueueInv /\ Steady
  <1>1. Init => Inv
    BY KqueueInitial
  <1>2. Inv /\ [Next]_vars => Inv'
    BY KqueueStep, FlagsStep DEF KqueueInv, FlagsKeep
  <1>3. Inv => KqueueInv /\ AllWatched
    BY DEF Steady
  <1> QED
    BY <1>1, <1>2, <1>3, PTL DEF Spec

(* AskedIsWatched holds for every program whose end callbacks neither open a
   socket nor send: whatever the others call from wherever, modify_socket
   included, the kernel watches every registered socket for what its flags ask. *)
THEOREM KqueueAskedIsWatched ==
    ASSUME QuietEnds
    PROVE  Spec => []AskedIsWatched
  <1>1. KqueueInv /\ AllWatched => AskedIsWatched
    BY DEF AllWatched, Serves, AskedIsWatched
  <1> QED
    BY <1>1, KqueueServes, PTL

(* PendingIsArmed holds for every such program: data send_socket took keeps
   EVFILT_WRITE on its descriptor until it is written. *)
THEOREM KqueuePendingIsArmed ==
    ASSUME QuietEnds
    PROVE  Spec => []PendingIsArmed
  <1>1. KqueueInv /\ AllWatched => PendingIsArmed
    <2> SUFFICES ASSUME KqueueInv, AllWatched, NEW f \in DOMAIN event_maps,
                        Pending(event_maps[f]) > 0
                 PROVE  "WRITE" \in filters[f]
      BY DEF PendingIsArmed
    <2>1. PICK e \in Events : e = ev[event_maps[f]]
      BY DEF KqueueInv, EventsTyped, SockInv, Shape
    <2>2. e.sent # e.submitted
      BY <2>1, SizeAssumption DEF Events, Pending
    <2>3. Serves(filters[f], e)
      BY <2>1 DEF AllWatched
    <2> QED
      BY <2>2, <2>3, Zenon DEF Serves
  <1> QED
    BY <1>1, KqueueServes, PTL
=============================================================================
