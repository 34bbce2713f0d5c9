------------------------------ MODULE MM_proofs ------------------------------
(***************************************************************************)
(* Theorems about MM's process table: nobody who is blocked in a call is   *)
(* forgotten, the tables agree, and the family of INIT stays whole.        *)
(* Lemmas say what each routine does to the parts of the invariant; W is   *)
(* the set of users whose call MM works on.                                *)
(***************************************************************************)
EXTENDS MM, FiniteSetTheorems, WellFoundedInduction, TLAPS

-----------------------------------------------------------------------------
(* The invariant, in parts.                                                *)

\* MM, FS and INIT are always there; only what is in use hangs.
Sane(m) ==
  /\ m \in Tables
  /\ m.mp_flags[MM_PROC_NR] = {IN_USE} /\ m.mp_flags[FS_PROC_NR] = {IN_USE}
  /\ Alive(m, INIT_PROC_NR)
  /\ m.mp_pid[MM_PROC_NR] = 0 /\ m.mp_pid[FS_PROC_NR] = 0 /\ m.mp_pid[INIT_PROC_NR] = 0
  /\ \A p \in Slot : HANGING \in m.mp_flags[p] => InUse(m, p)

SlotsInUse(m) == {p \in Slot : InUse(m, p)}

Counted(m) == m.procs_in_use = Cardinality(SlotsInUse(m))

Unique(m) ==
  \A p, q \in User : InUse(m, p) /\ InUse(m, q) /\ m.mp_pid[p] = m.mp_pid[q] => p = q

Descends(m) ==
  \A S \in SUBSET {p \in User \ {INIT_PROC_NR} : InUse(m, p)} :
    S # {} => \E p \in S : InUse(m, m.mp_parent[p]) /\ m.mp_parent[p] \notin S

\* While a process exits, D, the kernel and FS still know it.
Known(m, D) ==
  \A p \in User \ D :
    /\ Alive(m, p) <=> m.user[p] # "free"
    /\ ~ RootKillsAll => m.fp_refs[p] = IF Alive(m, p) THEN 1 ELSE 0

\* Who is blocked on MM, and why, and only for one reason.
Owed(m, W) ==
  \A p \in User :
    /\ m.user[p] # "unasked"
    /\ Alive(m, p) =>
         /\ m.user[p] = "served" <=> m.mp_flags[p] \cap {WAITING, PAUSED} # {} \/ p \in W
         /\ p \in W => m.mp_flags[p] \cap {WAITING, PAUSED} = {}
         /\ ~ {WAITING, PAUSED} \subseteq m.mp_flags[p]

Children(m, p) == {q \in Slot : InUse(m, q) /\ m.mp_parent[q] = p}

\* In the middle of cleanup() INIT, E, may wait although it has a dead child.
Wakes(m, E) ==
  \A p \in User \ E : Alive(m, p) /\ Waiting(m, p) =>
    Children(m, p) # {} /\ \A q \in Children(m, p) : HANGING \notin m.mp_flags[q]

Whole(m, W, D, E) ==
  /\ Sane(m) /\ Counted(m) /\ Unique(m) /\ Descends(m)
  /\ Known(m, D) /\ Owed(m, W) /\ Wakes(m, E)

OK(m, W) == Whole(m, W, {}, {})
-----------------------------------------------------------------------------
(* Slots, and the least of them.                                           *)

LEMMA Slots3 ==
  /\ MM_PROC_NR \in Slot /\ FS_PROC_NR \in Slot /\ INIT_PROC_NR \in User
  /\ User \subseteq Slot /\ Slot = User \cup {MM_PROC_NR, FS_PROC_NR}
  /\ MM_PROC_NR \notin User /\ FS_PROC_NR \notin User
  /\ Slot \subseteq Nat /\ HARDWARE \notin User
BY SlotsAssumption DEF Slot, User, MM_PROC_NR, FS_PROC_NR, INIT_PROC_NR, HARDWARE

LEMMA SlotsFinite == IsFiniteSet(Slot)
BY SlotsAssumption, FS_Interval DEF Slot

\* A set of naturals that is not empty has a least element.
LEMMA LeastExists ==
  ASSUME NEW I \in SUBSET Nat, I # {}
  PROVE  Min(I) \in I /\ \A j \in I : Min(I) <= j
<1> DEFINE R == OpToRel(<, Nat)
<1>1. \A m, n \in Nat : m < n => <<m, n>> \in R
  BY Zenon DEF OpToRel
<1>2. IsWellFoundedOn(R, Nat)
  BY NatLessThanWellFounded
<1> HIDE DEF R
<1>3. PICK i \in I : \A j \in I : ~ (<<j, i>> \in R)
  BY <1>2, WFMin
<1>4. ASSUME NEW j \in I PROVE i <= j
  <2>1. i \in Nat /\ j \in Nat
    OBVIOUS
  <2>2. ~ (j < i)
    BY <1>1, <1>3, <2>1
  <2> QED
    BY <2>1, <2>2
<1> QED
  BY <1>3, <1>4 DEF Min

LEMMA Flags ==
  /\ {IN_USE, WAITING, HANGING, PAUSED, ALARM_ON} = Flag
  /\ IN_USE # WAITING /\ IN_USE # HANGING /\ IN_USE # PAUSED /\ IN_USE # ALARM_ON
  /\ WAITING # HANGING /\ WAITING # PAUSED /\ WAITING # ALARM_ON
  /\ HANGING # PAUSED /\ HANGING # ALARM_ON /\ PAUSED # ALARM_ON
BY DEF Flag, IN_USE, WAITING, HANGING, PAUSED, ALARM_ON
-----------------------------------------------------------------------------
(* Steps that change nothing that the invariant is about.                  *)

\* The tables agree, ALARM_ON aside.
Same(m, t) ==
  /\ \A p \in Slot : t.mp_flags[p] \ {ALARM_ON} = m.mp_flags[p] \ {ALARM_ON}
  /\ \A p \in Slot \ User : t.mp_flags[p] = m.mp_flags[p]
  /\ t.mp_parent = m.mp_parent /\ t.mp_pid = m.mp_pid
  /\ t.procs_in_use = m.procs_in_use /\ t.user = m.user /\ t.fp_refs = m.fp_refs

LEMMA SameFlags ==
  ASSUME NEW m, NEW t, Same(m, t)
  PROVE  \A p \in Slot :
           /\ InUse(t, p) <=> InUse(m, p)
           /\ HANGING \in t.mp_flags[p] <=> HANGING \in m.mp_flags[p]
           /\ Alive(t, p) <=> Alive(m, p)
           /\ Waiting(t, p) <=> Waiting(m, p)
           /\ PAUSED \in t.mp_flags[p] <=> PAUSED \in m.mp_flags[p]
<1>1. ASSUME NEW p \in Slot
      PROVE  \A f : f # ALARM_ON => (f \in t.mp_flags[p] <=> f \in m.mp_flags[p])
  <2>1. t.mp_flags[p] \ {ALARM_ON} = m.mp_flags[p] \ {ALARM_ON}
    BY DEF Same
  <2> QED
    BY <2>1
<1> QED
  BY <1>1, Flags DEF InUse, Alive, Waiting

LEMMA SameWhole ==
  ASSUME NEW m, NEW t, NEW W, NEW D, NEW E, Whole(m, W, D, E), t \in Tables, Same(m, t)
  PROVE  Whole(t, W, D, E)
<1>2. Sane(t)
  BY SameFlags, Slots3 DEF Whole, Sane, Same
<1>3. Counted(t)
  <2>1. SlotsInUse(t) = SlotsInUse(m)
    BY SameFlags DEF SlotsInUse
  <2> QED
    BY <2>1 DEF Whole, Counted, Same
<1>4. Unique(t)
  BY SameFlags, Slots3 DEF Whole, Unique, Same
<1>5. Descends(t)
  <2>1. {p \in User \ {INIT_PROC_NR} : InUse(t, p)} = {p \in User \ {INIT_PROC_NR} : InUse(m, p)}
    BY SameFlags, Slots3
  <2>2. \A p \in User : InUse(m, m.mp_parent[p]) => InUse(t, m.mp_parent[p])
    BY SameFlags, Slots3 DEF Whole, Sane, Tables
  <2> QED
    BY <2>1, <2>2 DEF Whole, Descends, Same
<1>6. Known(t, D)
  BY SameFlags, Slots3 DEF Whole, Known, Same
<1>8. Owed(t, W)
  <2>1. \A p \in User : t.mp_flags[p] \cap {WAITING, PAUSED} = m.mp_flags[p] \cap {WAITING, PAUSED}
    BY SameFlags, Slots3 DEF Waiting
  <2> QED
    BY <2>1, SameFlags, Slots3 DEF Whole, Owed, Same
<1>7. Wakes(t, E)
  <2>1. \A p : Children(t, p) = Children(m, p)
    BY SameFlags DEF Children, Same
  <2>2. \A p : Children(m, p) \subseteq Slot
    BY DEF Children
  <2> QED
    BY <2>1, <2>2, SameFlags, Slots3 DEF Whole, Wakes
<1> QED
  BY <1>2, <1>3, <1>4, <1>5, <1>6, <1>7, <1>8 DEF Whole
-----------------------------------------------------------------------------
(* What reply() and the body of cleanup() do to the tables.                *)

SameButUser(m, t) ==
  /\ t.mp_flags = m.mp_flags /\ t.mp_parent = m.mp_parent /\ t.mp_pid = m.mp_pid
  /\ t.procs_in_use = m.procs_in_use /\ t.fp_refs = m.fp_refs

LEMMA ReplyEffect ==
  ASSUME NEW m \in Tables, NEW p \in Slot
  PROVE  /\ reply(m, p) \in Tables
         /\ SameButUser(m, reply(m, p))
         /\ \A q \in User : q # p \/ ~ Alive(m, p) => reply(m, p).user[q] = m.user[q]
         /\ p \in User /\ Alive(m, p) /\ m.user[p] = "served" => reply(m, p).user[p] = "running"
<1> DEFINE u == [m.user EXCEPT ![p] = IF m.user[p] = "served" THEN "running" ELSE "unasked"]
           t == [m EXCEPT !.user = u]
<1>1. CASE ~ Alive(m, p)
  BY <1>1 DEF reply, SameButUser
<1>2. CASE Alive(m, p)
  <2>1. reply(m, p) = t
    BY <1>2 DEF reply
  <2>2. m.user \in [User -> UserState]
    BY DEF Tables
  <2>3. u \in [User -> UserState] /\ \A q \in User : q # p => u[q] = m.user[q]
    BY <2>2 DEF UserState
  <2>4. p \in User /\ m.user[p] = "served" => u[p] = "running"
    BY <2>2
  <2> HIDE DEF u
  <2>5. t \in Tables /\ SameButUser(m, t) /\ t.user = u
    BY <2>3 DEF Tables, SameButUser
  <2> QED
    BY <1>2, <2>1, <2>3, <2>4, <2>5
<1> QED
  BY <1>1, <1>2

\* A process leaves the table: the parent is told and the children go to INIT.
Gone(m, child) == Disinherit(Release(m, child), child)

\* What that does, but for who is told.
Left(m, t, child) ==
  /\ t \in Tables
  /\ t.mp_flags[child] = m.mp_flags[child] \ {HANGING, PAUSED, IN_USE}
  /\ t.mp_flags[m.mp_parent[child]] = m.mp_flags[m.mp_parent[child]] \ {WAITING}
  /\ \A q \in Slot : q \notin {child, m.mp_parent[child]} => t.mp_flags[q] = m.mp_flags[q]
  /\ \A q \in Slot : t.mp_parent[q] = IF m.mp_parent[q] = child THEN INIT_PROC_NR
                                      ELSE m.mp_parent[q]
  /\ t.mp_pid = m.mp_pid /\ t.fp_refs = m.fp_refs /\ t.procs_in_use = m.procs_in_use - 1

LEMMA GoneEffect ==
  ASSUME NEW m \in Tables, NEW child \in User, m.mp_parent[child] # child
  PROVE  LET t == Gone(m, child)
             parent == m.mp_parent[child]
         IN  /\ Left(m, t, child) /\ t.mp_flags = Release(m, child).mp_flags
             /\ \A q \in User : q # parent \/ ~ Alive(m, parent) => t.user[q] = m.user[q]
             /\ parent \in User /\ Alive(m, parent) /\ m.user[parent] = "served"
                  => t.user[parent] = "running"
<1> DEFINE parent == m.mp_parent[child]
           r == reply(m, parent)
           f == [r.mp_flags EXCEPT ![parent] = @ \ {WAITING}]
           g == [f EXCEPT ![child] = @ \ {HANGING, PAUSED, IN_USE}]
           h == [p \in Slot |-> IF r.mp_parent[p] = child THEN INIT_PROC_NR ELSE r.mp_parent[p]]
           waked == [r EXCEPT !.mp_flags = f]
           rel == [waked EXCEPT !.mp_flags = g, !.procs_in_use = waked.procs_in_use - 1]
           t == [rel EXCEPT !.mp_parent = h]
<1>1. parent \in Slot /\ child \in Slot
  BY Slots3 DEF Tables
<1>2. /\ r \in Tables /\ SameButUser(m, r)
      /\ \A q \in User : q # parent \/ ~ Alive(m, parent) => r.user[q] = m.user[q]
      /\ parent \in User /\ Alive(m, parent) /\ m.user[parent] = "served"
           => r.user[parent] = "running"
  BY <1>1, ReplyEffect
<1>3. Gone(m, child) = t /\ Release(m, child) = rel
  BY DEF Gone, Release, Disinherit
<1> HIDE DEF r
<1>4. r.mp_flags \in [Slot -> SUBSET Flag] /\ r.mp_parent \in [Slot -> Slot]
  BY <1>2 DEF Tables
<1>5. /\ g \in [Slot -> SUBSET Flag]
      /\ g[child] = r.mp_flags[child] \ {HANGING, PAUSED, IN_USE}
      /\ g[parent] = r.mp_flags[parent] \ {WAITING}
      /\ \A q \in Slot : q \notin {child, parent} => g[q] = r.mp_flags[q]
  BY <1>1, <1>4
<1>6. h \in [Slot -> Slot]
  BY <1>4, Slots3
<1>7. \A q \in Slot : h[q] = IF r.mp_parent[q] = child THEN INIT_PROC_NR ELSE r.mp_parent[q]
  OBVIOUS
<1>8. waked.procs_in_use = r.procs_in_use /\ r.procs_in_use \in Int
  BY <1>2 DEF Tables
<1> HIDE DEF g, h
<1>12. rel.mp_flags = g
  BY <1>2 DEF Tables
<1>9. t = [r EXCEPT !.mp_flags = g, !.procs_in_use = r.procs_in_use - 1, !.mp_parent = h]
  BY <1>2, <1>8 DEF Tables
<1>10. /\ t \in Tables /\ t.mp_flags = g /\ t.mp_parent = h /\ t.mp_pid = r.mp_pid
       /\ t.fp_refs = r.fp_refs /\ t.procs_in_use = r.procs_in_use - 1 /\ t.user = r.user
  <2> DEFINE n == r.procs_in_use - 1
  <2>1. n \in Int
    BY <1>8
  <2> HIDE DEF n
  <2> QED
    BY <1>2, <1>5, <1>6, <1>9, <2>1 DEF Tables, n
<1> HIDE DEF t
<1>11. Left(m, t, child)
  BY <1>2, <1>5, <1>7, <1>10 DEF Left, SameButUser
<1> QED
  BY <1>2, <1>3, <1>10, <1>11, <1>12

\* Which flags change when a process leaves.
LEMMA LeftFlags ==
  ASSUME NEW m, NEW t, NEW child \in User \ {INIT_PROC_NR}, Sane(m), Left(m, t, child),
         InUse(m, child), m.mp_parent[child] # child
  PROVE  \A q \in Slot :
           /\ InUse(t, q) <=> InUse(m, q) /\ q # child
           /\ HANGING \in t.mp_flags[q] <=> HANGING \in m.mp_flags[q] /\ q # child
           /\ Alive(t, q) <=> Alive(m, q) /\ q # child
           /\ q # child => (Waiting(t, q) <=> Waiting(m, q) /\ q # m.mp_parent[child])
           /\ q # child => (PAUSED \in t.mp_flags[q] <=> PAUSED \in m.mp_flags[q])
<1>1. child \in Slot /\ m.mp_parent[child] \in Slot
  BY Slots3 DEF Sane, Tables
<1>2. ASSUME NEW q \in Slot
      PROVE  /\ IN_USE \in t.mp_flags[q] <=> IN_USE \in m.mp_flags[q] /\ q # child
             /\ HANGING \in t.mp_flags[q] <=> HANGING \in m.mp_flags[q] /\ q # child
             /\ q # child => (WAITING \in t.mp_flags[q]
                                <=> WAITING \in m.mp_flags[q] /\ q # m.mp_parent[child])
             /\ q # child => (PAUSED \in t.mp_flags[q] <=> PAUSED \in m.mp_flags[q])
  <2>1. CASE q = child
    BY <2>1, Flags DEF Left
  <2>2. CASE q = m.mp_parent[child]
    BY <2>2, Flags DEF Left
  <2>3. CASE q \notin {child, m.mp_parent[child]}
    BY <2>3 DEF Left
  <2> QED
    BY <2>1, <2>2, <2>3
<1> QED
  BY <1>2 DEF InUse, Alive, Waiting

LEMMA LeftSane ==
  ASSUME NEW m, NEW t, NEW child \in User \ {INIT_PROC_NR}, Sane(m), Left(m, t, child),
         InUse(m, child), m.mp_parent[child] # child
  PROVE  Sane(t)
<1>1. /\ MM_PROC_NR # child /\ FS_PROC_NR # child /\ INIT_PROC_NR # child
      /\ MM_PROC_NR \in Slot /\ FS_PROC_NR \in Slot /\ INIT_PROC_NR \in Slot
  BY Slots3
<1>2. \A q \in {MM_PROC_NR, FS_PROC_NR} : t.mp_flags[q] = {IN_USE}
  <2> SUFFICES ASSUME NEW q \in {MM_PROC_NR, FS_PROC_NR} PROVE t.mp_flags[q] = {IN_USE}
    OBVIOUS
  <2>1. m.mp_flags[q] = {IN_USE}
    BY DEF Sane
  <2>2. CASE q = m.mp_parent[child]
    BY <1>1, <2>1, <2>2, Flags DEF Left
  <2>3. CASE q # m.mp_parent[child]
    BY <1>1, <2>1, <2>3 DEF Left
  <2> QED
    BY <2>2, <2>3
<1> QED
  BY <1>1, <1>2, LeftFlags DEF Sane, Left

LEMMA LeftCounted ==
  ASSUME NEW m, NEW t, NEW child \in User \ {INIT_PROC_NR}, Sane(m), Left(m, t, child),
         InUse(m, child), m.mp_parent[child] # child, Counted(m)
  PROVE  Counted(t)
<1>1. SlotsInUse(t) = SlotsInUse(m) \ {child} /\ child \in SlotsInUse(m)
  <2>1. \A q \in Slot : InUse(t, q) <=> InUse(m, q) /\ q # child
    BY LeftFlags
  <2>2. child \in Slot
    BY Slots3
  <2> QED
    BY <2>1, <2>2 DEF SlotsInUse
<1>2. IsFiniteSet(SlotsInUse(m))
  BY SlotsFinite, FS_Subset DEF SlotsInUse
<1> QED
  BY <1>1, <1>2, FS_RemoveElement DEF Counted, Left

LEMMA LeftUnique ==
  ASSUME NEW m, NEW t, NEW child \in User \ {INIT_PROC_NR}, Sane(m), Left(m, t, child),
         InUse(m, child), m.mp_parent[child] # child, Unique(m)
  PROVE  Unique(t)
BY LeftFlags, Slots3 DEF Unique, Left

\* The children of the one that leaves hang on INIT.
LEMMA LeftDescends ==
  ASSUME NEW m, NEW t, NEW child \in User \ {INIT_PROC_NR}, Sane(m), Left(m, t, child),
         InUse(m, child), m.mp_parent[child] # child, Descends(m)
  PROVE  Descends(t)
<1> SUFFICES ASSUME NEW S \in SUBSET {p \in User \ {INIT_PROC_NR} : InUse(t, p)}, S # {}
             PROVE  \E p \in S : InUse(t, t.mp_parent[p]) /\ t.mp_parent[p] \notin S
  BY DEF Descends
<1>1. \A p \in S : p \in User \ {INIT_PROC_NR} /\ p \in Slot /\ p # child /\ InUse(m, p)
  BY LeftFlags, Slots3
<1>2. PICK p \in S : InUse(m, m.mp_parent[p]) /\ m.mp_parent[p] \notin S
  BY <1>1 DEF Descends
<1>3. m.mp_parent[p] \in Slot
  BY <1>1 DEF Sane, Tables
<1>4. CASE m.mp_parent[p] = child
  <2>1. t.mp_parent[p] = INIT_PROC_NR
    BY <1>1, <1>4 DEF Left
  <2>2. InUse(t, INIT_PROC_NR)
    BY LeftFlags, Slots3 DEF Sane, Alive
  <2> QED
    BY <1>1, <2>1, <2>2
<1>5. CASE m.mp_parent[p] # child
  BY <1>1, <1>2, <1>3, <1>5, LeftFlags DEF Left
<1> QED
  BY <1>4, <1>5

\* Nobody in use is his own parent.
LEMMA ParentOther ==
  ASSUME NEW m, Descends(m), NEW p \in User \ {INIT_PROC_NR}, InUse(m, p)
  PROVE  m.mp_parent[p] # p /\ InUse(m, m.mp_parent[p])
<1>1. {p} \in SUBSET {q \in User \ {INIT_PROC_NR} : InUse(m, q)} /\ {p} # {}
  OBVIOUS
<1> QED
  BY <1>1 DEF Descends

\* Who is told is the parent, whom MM owes the answer.
Told(m, t, parent) ==
  /\ \A q \in User : q # parent \/ ~ Alive(m, parent) => t.user[q] = m.user[q]
  /\ Alive(m, parent) => t.user[parent] = "running"

LEMMA LeftKnown ==
  ASSUME NEW m, NEW t, NEW child \in User \ {INIT_PROC_NR}, Sane(m), Left(m, t, child),
         InUse(m, child), m.mp_parent[child] # child, m.mp_parent[child] \in User,
         Told(m, t, m.mp_parent[child]), NEW D, Known(m, D),
         NEW F, D \subseteq F, child \in F \/ ~ Alive(m, child)
  PROVE  Known(t, F)
<1> SUFFICES ASSUME NEW p \in User \ F
             PROVE  /\ Alive(t, p) <=> t.user[p] # "free"
                    /\ ~ RootKillsAll => t.fp_refs[p] = IF Alive(t, p) THEN 1 ELSE 0
  BY DEF Known
<1>1. p \in User \ D /\ p \in Slot
  BY Slots3
<1>2. Alive(t, p) <=> Alive(m, p)
  BY <1>1, LeftFlags
<1>3. t.fp_refs = m.fp_refs
  BY DEF Left
<1>4. t.user[p] = m.user[p] \/ (Alive(m, p) /\ t.user[p] = "running")
  BY DEF Told
<1> QED
  BY <1>1, <1>2, <1>3, <1>4 DEF Known

LEMMA LeftOwed ==
  ASSUME NEW m, NEW t, NEW child \in User \ {INIT_PROC_NR}, Sane(m), Left(m, t, child),
         InUse(m, child), m.mp_parent[child] # child, m.mp_parent[child] \in User,
         Told(m, t, m.mp_parent[child]), NEW W, Owed(m, W),
         Waiting(m, m.mp_parent[child]) \/ m.mp_parent[child] \in W
  PROVE  Owed(t, W \ {m.mp_parent[child]})
<1> DEFINE parent == m.mp_parent[child]
           V == W \ {parent}
<1> SUFFICES ASSUME NEW p \in User
             PROVE  /\ t.user[p] # "unasked"
                    /\ Alive(t, p) =>
                         /\ t.user[p] = "served"
                              <=> t.mp_flags[p] \cap {WAITING, PAUSED} # {} \/ p \in V
                         /\ p \in V => t.mp_flags[p] \cap {WAITING, PAUSED} = {}
                         /\ ~ {WAITING, PAUSED} \subseteq t.mp_flags[p]
  BY DEF Owed
<1>1. p \in Slot
  BY Slots3
<1>2. m.user[p] # "unasked"
  BY DEF Owed
<1>3. t.user[p] # "unasked"
  BY <1>2 DEF Told
<1>4. CASE p = child
  BY <1>1, <1>3, <1>4, LeftFlags
<1>5. CASE p = parent /\ Alive(m, p)
  <2>1. WAITING \notin t.mp_flags[p]
    BY <1>1, <1>5, LeftFlags DEF Waiting
  <2>2. PAUSED \notin t.mp_flags[p]
    BY <1>1, <1>5, LeftFlags DEF Owed, Waiting
  <2>3. t.user[p] = "running"
    BY <1>5 DEF Told
  <2> QED
    BY <1>3, <1>5, <2>1, <2>2, <2>3
<1>6. CASE ~ Alive(m, p)
  BY <1>1, <1>3, <1>6, LeftFlags
<1>7. CASE p # child /\ p # parent /\ Alive(m, p)
  <2>1. t.mp_flags[p] = m.mp_flags[p] /\ t.user[p] = m.user[p] /\ (p \in V <=> p \in W)
    BY <1>1, <1>7 DEF Left, Told
  <2> QED
    BY <1>3, <1>7, <2>1 DEF Owed
<1> QED
  BY <1>4, <1>5, <1>6, <1>7

LEMMA LeftWakes ==
  ASSUME NEW m, NEW t, NEW child \in User \ {INIT_PROC_NR}, Sane(m), Left(m, t, child),
         InUse(m, child), m.mp_parent[child] # child, NEW E, Wakes(m, E)
  PROVE  Wakes(t, E \cup {INIT_PROC_NR})
<1> SUFFICES ASSUME NEW p \in User \ (E \cup {INIT_PROC_NR}), Alive(t, p), Waiting(t, p)
             PROVE  /\ Children(t, p) # {}
                    /\ \A q \in Children(t, p) : HANGING \notin t.mp_flags[q]
  BY DEF Wakes
<1>1. p \in Slot /\ child \in Slot
  BY Slots3
<1>2. Alive(m, p) /\ Waiting(m, p) /\ p # child /\ p # m.mp_parent[child]
  BY <1>1, LeftFlags
<1>3. ASSUME NEW q \in Slot
      PROVE  q \in Children(t, p) <=> q \in Children(m, p)
  BY <1>2, <1>3, LeftFlags DEF Children, Left
<1>4. Children(t, p) = Children(m, p)
  BY <1>3 DEF Children
<1>5. \A q \in Children(m, p) : HANGING \notin m.mp_flags[q] /\ q \in Slot
  BY <1>2 DEF Wakes, Children
<1> QED
  BY <1>2, <1>4, <1>5, LeftFlags DEF Wakes

\* INIT need not be woken for the children it is given, if none of them is dead.
LEMMA LeftWakesInit ==
  ASSUME NEW m, NEW t, NEW child \in User \ {INIT_PROC_NR}, Sane(m), Left(m, t, child),
         InUse(m, child), m.mp_parent[child] # child, Wakes(m, {}),
         \A q \in Children(m, child) : HANGING \notin m.mp_flags[q]
  PROVE  Wakes(t, {})
<1>1. Wakes(t, {INIT_PROC_NR})
  BY LeftWakes, {} \cup {INIT_PROC_NR} = {INIT_PROC_NR}
<1>2. ASSUME Waiting(t, INIT_PROC_NR)
      PROVE  /\ Children(t, INIT_PROC_NR) # {}
             /\ \A q \in Children(t, INIT_PROC_NR) : HANGING \notin t.mp_flags[q]
  <2>1. INIT_PROC_NR \in User /\ INIT_PROC_NR \in Slot /\ INIT_PROC_NR # child
    BY Slots3
  <2>2. /\ Waiting(m, INIT_PROC_NR) /\ Alive(m, INIT_PROC_NR)
        /\ INIT_PROC_NR # m.mp_parent[child]
    BY <1>2, <2>1, LeftFlags DEF Sane
  <2>3. PICK x \in Children(m, INIT_PROC_NR) : TRUE
    BY <2>1, <2>2 DEF Wakes
  <2>4. x \in Children(t, INIT_PROC_NR)
    BY <2>1, <2>2, LeftFlags DEF Children, Left
  <2>5. ASSUME NEW q \in Children(t, INIT_PROC_NR) PROVE HANGING \notin t.mp_flags[q]
    <3>1. q \in Slot /\ InUse(m, q) /\ q # child /\ m.mp_parent[q] \in {child, INIT_PROC_NR}
      BY LeftFlags DEF Children, Left
    <3>2. HANGING \notin m.mp_flags[q]
      BY <2>1, <2>2, <3>1 DEF Children, Wakes
    <3> QED
      BY <3>1, <3>2, LeftFlags
  <2> QED
    BY <2>4, <2>5
<1> QED
  BY <1>1, <1>2 DEF Wakes

LEMMA GoneLeft ==
  ASSUME NEW m, NEW W \in SUBSET User, NEW D, NEW E, Whole(m, W, D, E),
         NEW child \in User \ {INIT_PROC_NR}, InUse(m, child),
         Waiting(m, m.mp_parent[child]) \/ m.mp_parent[child] \in W
  PROVE  LET t == Gone(m, child)
         IN  /\ Left(m, t, child) /\ Told(m, t, m.mp_parent[child])
             /\ m.mp_parent[child] # child /\ m.mp_parent[child] \in User
             /\ t.mp_flags = Release(m, child).mp_flags
<1> DEFINE t == Gone(m, child)
           parent == m.mp_parent[child]
<1>1. parent # child /\ InUse(m, parent) /\ child \in Slot /\ parent \in Slot
  BY ParentOther, Slots3 DEF Whole, Sane, Tables
<1>2. parent \in User
  BY <1>1, Slots3, Flags DEF Whole, Sane, Waiting
<1>3. Alive(m, parent) => m.user[parent] = "served"
  BY <1>2 DEF Whole, Owed, Waiting
<1>4. Left(m, t, child) /\ Told(m, t, parent) /\ t.mp_flags = Release(m, child).mp_flags
  <2>1. m \in Tables
    BY DEF Whole, Sane
  <2> QED
    BY <1>1, <1>2, <1>3, <2>1, GoneEffect DEF Told
<1> QED
  BY <1>1, <1>2, <1>4

\* All of it.
LEMMA GoneWhole ==
  ASSUME NEW m, NEW W \in SUBSET User, NEW D, NEW E, Whole(m, W, D, E),
         NEW child \in User \ {INIT_PROC_NR}, InUse(m, child),
         Waiting(m, m.mp_parent[child]) \/ m.mp_parent[child] \in W,
         NEW F, D \subseteq F, child \in F \/ ~ Alive(m, child)
  PROVE  Whole(Gone(m, child), W \ {m.mp_parent[child]}, F, E \cup {INIT_PROC_NR})
<1> DEFINE t == Gone(m, child)
           parent == m.mp_parent[child]
<1>1. parent # child /\ parent \in User /\ Left(m, t, child) /\ Told(m, t, parent)
  BY GoneLeft
<1> HIDE DEF t
<1>2. Sane(t) /\ Counted(t) /\ Unique(t) /\ Descends(t)
  BY <1>1, LeftSane, LeftCounted, LeftUnique, LeftDescends DEF Whole
<1>3. Known(t, F)
  BY <1>1, LeftKnown DEF Whole
<1>4. Owed(t, W \ {parent})
  BY <1>1, LeftOwed DEF Whole
<1>5. Wakes(t, E \cup {INIT_PROC_NR})
  BY <1>1, LeftWakes DEF Whole
<1> QED
  BY <1>2, <1>3, <1>4, <1>5 DEF Whole, t

\* What cleanup() leaves of the table.
Fewer(m, t, child) ==
  /\ \A q \in Slot : /\ InUse(t, q) => InUse(m, q) /\ q # child
                     /\ Alive(t, q) => Alive(m, q)
  /\ t.fp_refs = m.fp_refs

\* Who leaves the table when the tables become t, and who is told of it.
Freed(m, t) == {p \in User : InUse(m, p) /\ ~ InUse(t, p)}

ReaperOf(m, t, p) ==
  IF InUse(m, m.mp_parent[p]) /\ ~ InUse(t, m.mp_parent[p]) THEN INIT_PROC_NR ELSE m.mp_parent[p]

Reported(m, t) ==
  /\ \A p \in Freed(m, t) :
       LET r == ReaperOf(m, t, p)
       IN  r \in User /\ (Alive(m, r) => m.user[r] = "served" /\ t.user[r] = "running")
  /\ \A p, q \in Freed(m, t) : ReaperOf(m, t, p) = ReaperOf(m, t, q) => p = q

LEMMA CleanupWhole ==
  ASSUME NEW m, NEW W \in SUBSET User, OK(m, W),
         NEW child \in User \ {INIT_PROC_NR}, InUse(m, child),
         Waiting(m, m.mp_parent[child]) \/ m.mp_parent[child] \in W,
         NEW F, child \in F \/ ~ Alive(m, child)
  PROVE  /\ Whole(cleanup(m, child), W \ {m.mp_parent[child]}, F, {})
         /\ Fewer(m, cleanup(m, child), child)
         /\ Reported(m, cleanup(m, child))
<1> DEFINE parent == m.mp_parent[child]
           V == W \ {parent}
           t == Gone(m, child)
           dead == {p \in Slot : m.mp_parent[p] = child /\ HANGING \in m.mp_flags[p]}
           d == Min(dead)
           u == Gone(t, d)
<1>1. /\ Whole(t, V, F, {INIT_PROC_NR})
      /\ Left(m, t, child) /\ Told(m, t, parent) /\ parent # child /\ parent \in User
      /\ t.mp_flags = Release(m, child).mp_flags
  <2>1. Whole(m, W, {}, {}) /\ {} \subseteq F
    BY DEF OK
  <2>2. Whole(t, V, F, {} \cup {INIT_PROC_NR})
    BY <2>1, GoneWhole
  <2>3. /\ Left(m, t, child) /\ Told(m, t, parent) /\ parent # child /\ parent \in User
        /\ t.mp_flags = Release(m, child).mp_flags
    BY <2>1, GoneLeft
  <2>4. {} \cup {INIT_PROC_NR} = {INIT_PROC_NR}
    OBVIOUS
  <2> HIDE DEF t, V
  <2> QED
    BY <2>2, <2>3, <2>4
<1>2. Sane(m) /\ V \in SUBSET User
  BY DEF OK, Whole
<1>3. Fewer(m, t, child)
  BY <1>1, <1>2, LeftFlags DEF Fewer, Left
<1>4. cleanup(m, child) = IF Waiting(t, INIT_PROC_NR) /\ dead # {} THEN u ELSE t
  BY <1>1 DEF cleanup, Gone, Waiting
<1> HIDE DEF t, V
<1>7. /\ InUse(m, parent) /\ child \in Slot /\ parent \in Slot
      /\ Alive(m, parent) => m.user[parent] = "served"
  BY <1>1, ParentOther, Slots3 DEF OK, Whole, Owed, Waiting
<1>8. /\ \A q \in Slot : InUse(t, q) <=> InUse(m, q) /\ q # child
      /\ \A q \in Slot : Alive(t, q) <=> Alive(m, q) /\ q # child
      /\ ~ Waiting(t, parent)
      /\ Waiting(t, INIT_PROC_NR) => Waiting(m, INIT_PROC_NR)
  BY <1>1, <1>2, <1>7, LeftFlags, Slots3
<1>5. CASE Waiting(t, INIT_PROC_NR) /\ dead # {}
  <2>1. d \in Slot /\ m.mp_parent[d] = child /\ HANGING \in m.mp_flags[d]
    <3>1. dead \in SUBSET Nat
      BY Slots3
    <3> QED
      BY <1>5, <3>1, LeastExists
  <2> HIDE DEF d, dead
  <2>2. d # child /\ InUse(m, d) /\ d \in User \ {INIT_PROC_NR}
    BY <1>1, <1>2, <2>1, Slots3, Flags DEF Sane, Alive
  <2>3. InUse(t, d) /\ ~ Alive(t, d) /\ t.mp_parent[d] = INIT_PROC_NR
    BY <1>1, <1>2, <2>1, <2>2, LeftFlags DEF Alive, Left
  <2>4. /\ Whole(u, V \ {INIT_PROC_NR}, F, {INIT_PROC_NR})
        /\ Left(t, u, d) /\ Told(t, u, INIT_PROC_NR) /\ INIT_PROC_NR # d
    <3>1. Waiting(t, t.mp_parent[d])
      BY <1>5, <2>3
    <3>2. Whole(u, V \ {t.mp_parent[d]}, F, {INIT_PROC_NR} \cup {INIT_PROC_NR})
      BY <1>1, <1>2, <2>2, <2>3, <3>1, GoneWhole
    <3>3. Left(t, u, d) /\ Told(t, u, t.mp_parent[d]) /\ t.mp_parent[d] # d
      BY <1>1, <1>2, <2>2, <2>3, <3>1, GoneLeft
    <3>4. {INIT_PROC_NR} \cup {INIT_PROC_NR} = {INIT_PROC_NR}
      OBVIOUS
    <3> HIDE DEF u
    <3> QED
      BY <2>3, <3>2, <3>3, <3>4
  <2>5. V \ {INIT_PROC_NR} = V
    <3>1. INIT_PROC_NR \in User /\ Alive(t, INIT_PROC_NR)
      BY <1>1, Slots3 DEF Whole, Sane
    <3>2. INIT_PROC_NR \notin V
      BY <1>1, <1>5, <3>1 DEF Whole, Owed, Waiting
    <3> QED
      BY <3>2
  <2> HIDE DEF u
  <2>6. Sane(t) /\ d # t.mp_parent[d]
    BY <1>1, <2>3, <2>4 DEF Whole
  <2>7. ~ Waiting(u, INIT_PROC_NR)
    BY <2>2, <2>3, <2>4, <2>6, LeftFlags, Slots3
  <2>8. Whole(u, V, F, {})
    BY <2>4, <2>5, <2>7 DEF Whole, Wakes
  <2>9. Fewer(m, u, child)
    BY <1>3, <2>2, <2>3, <2>4, <2>6, LeftFlags DEF Fewer, Left
  <2>10. Reported(m, u)
    <3>1. \A q \in Slot : InUse(u, q) <=> InUse(m, q) /\ q # child /\ q # d
      BY <1>8, <2>2, <2>3, <2>4, <2>6, LeftFlags
    <3>2. Freed(m, u) = {child, d}
      BY <3>1, <2>2, Slots3 DEF Freed
    <3>3. parent # d
      <4>1. {child, d} \in SUBSET {q \in User \ {INIT_PROC_NR} : InUse(m, q)} /\ {child, d} # {}
        BY <2>2
      <4>2. PICK q \in {child, d} : m.mp_parent[q] \notin {child, d}
        BY <1>2, <4>1 DEF OK, Whole, Descends
      <4> QED
        BY <2>1, <4>2
    <3>4. ReaperOf(m, u, child) = parent
      BY <1>1, <1>7, <3>1, <3>3 DEF ReaperOf
    <3>5. ReaperOf(m, u, d) = INIT_PROC_NR
      BY <1>7, <2>1, <3>1 DEF ReaperOf
    <3>6. parent # INIT_PROC_NR
      BY <1>5, <1>8
    <3>7. Alive(m, parent) => m.user[parent] = "served" /\ u.user[parent] = "running"
      BY <1>1, <1>7, <2>4, <3>6 DEF Told
    <3>8. Alive(m, INIT_PROC_NR) =>
            m.user[INIT_PROC_NR] = "served" /\ u.user[INIT_PROC_NR] = "running"
      <4>1. Waiting(m, INIT_PROC_NR) /\ INIT_PROC_NR \in User /\ INIT_PROC_NR \in Slot
        BY <1>5, <1>8, Slots3
      <4>2. Alive(m, INIT_PROC_NR) => m.user[INIT_PROC_NR] = "served"
        BY <4>1 DEF OK, Whole, Owed, Waiting
      <4>3. Alive(t, INIT_PROC_NR)
        BY <1>1 DEF Whole, Sane
      <4> QED
        BY <4>2, <4>3, <2>4 DEF Told
    <3> QED
      BY <1>1, <3>2, <3>4, <3>5, <3>6, <3>7, <3>8, Slots3 DEF Reported
  <2> QED
    BY <1>4, <1>5, <2>8, <2>9, <2>10 DEF V
<1>6. CASE ~ (Waiting(t, INIT_PROC_NR) /\ dead # {})
  <2>1. Wakes(t, {})
    <3>1. CASE ~ Waiting(t, INIT_PROC_NR)
      BY <1>1, <3>1 DEF Whole, Wakes
    <3>2. CASE dead = {}
      <4>1. \A q \in Children(m, child) : HANGING \notin m.mp_flags[q]
        BY <3>2 DEF Children
      <4> QED
        BY <1>1, <1>2, <4>1, LeftWakesInit DEF OK, Whole
    <3> QED
      BY <1>6, <3>1, <3>2
  <2>2. Whole(t, V, F, {})
    BY <1>1, <2>1 DEF Whole
  <2>3. Reported(m, t)
    <3>1. Freed(m, t) = {child}
      BY <1>8, Slots3 DEF Freed
    <3>2. ReaperOf(m, t, child) = parent
      BY <1>1, <1>7, <1>8 DEF ReaperOf
    <3>3. Alive(m, parent) => t.user[parent] = "running"
      BY <1>1 DEF Told
    <3> QED
      BY <1>1, <1>7, <3>1, <3>2, <3>3 DEF Reported
  <2> QED
    BY <1>3, <1>4, <1>6, <2>2, <2>3 DEF V
<1> QED
  BY <1>5, <1>6
-----------------------------------------------------------------------------
(* Answers, and notes that a process waits or pauses.                      *)

\* MM owes nothing to a process that is dead.
LEMMA OwedDead ==
  ASSUME NEW m, NEW W, NEW D, NEW E, Whole(m, W, D, E), NEW V,
         \A q \in User : Alive(m, q) => (q \in V <=> q \in W)
  PROVE  Whole(m, V, D, E)
BY DEF Whole, Owed

\* A process that MM does not work for, or whose call it answers, goes on to s.
LEMMA UserWhole ==
  ASSUME NEW m, NEW W \in SUBSET User, OK(m, W), NEW p \in User, NEW s \in UserState,
         NEW V \in SUBSET User, \A q \in User : q # p => (q \in V <=> q \in W),
         m.user[p] # "free", m.user[p] = "served" => p \in W,
         s \notin {"unasked", "free"}, s = "served" <=> p \in V
  PROVE  OK([m EXCEPT !.user[p] = s], V)
<1> DEFINE t == [m EXCEPT !.user[p] = s]
<1>1. /\ t \in Tables /\ SameButUser(m, t) /\ t.user[p] = s
      /\ \A q \in User : q # p => t.user[q] = m.user[q]
  <2>1. m \in Tables
    BY DEF OK, Whole, Sane
  <2> QED
    BY <2>1 DEF Tables, SameButUser
<1> HIDE DEF t
<1>2. /\ \A q : InUse(t, q) <=> InUse(m, q)
      /\ \A q : Alive(t, q) <=> Alive(m, q)
      /\ \A q : Waiting(t, q) <=> Waiting(m, q)
      /\ \A q : Children(t, q) = Children(m, q)
  BY <1>1 DEF InUse, Alive, Waiting, SameButUser, Children
<1>3. Sane(t) /\ Counted(t) /\ Unique(t)
  BY <1>1, <1>2 DEF OK, Whole, Sane, Counted, SlotsInUse, Unique, SameButUser
<1>4. Descends(t)
  BY <1>1, <1>2 DEF OK, Whole, Descends, SameButUser
<1>5. Known(t, {})
  BY <1>1, <1>2 DEF OK, Whole, Known, SameButUser
<1>6. Owed(t, V)
  <2> SUFFICES ASSUME NEW q \in User
               PROVE  /\ t.user[q] # "unasked"
                      /\ Alive(t, q) =>
                         /\ t.user[q] = "served"
                              <=> t.mp_flags[q] \cap {WAITING, PAUSED} # {} \/ q \in V
                         /\ q \in V => t.mp_flags[q] \cap {WAITING, PAUSED} = {}
                         /\ ~ {WAITING, PAUSED} \subseteq t.mp_flags[q]
    BY DEF Owed
  <2>1. CASE q = p
    <3>1. Alive(m, p) /\ m.mp_flags[p] \cap {WAITING, PAUSED} = {}
      BY DEF OK, Whole, Known, Owed
    <3>2. ~ {WAITING, PAUSED} \subseteq t.mp_flags[p]
      BY <3>1, <1>1 DEF SameButUser
    <3> QED
      BY <2>1, <3>1, <3>2, <1>1 DEF SameButUser
  <2>2. CASE q # p
    BY <2>2, <1>1, <1>2 DEF OK, Whole, Owed, SameButUser
  <2> QED
    BY <2>1, <2>2
<1>7. Wakes(t, {})
  BY <1>1, <1>2 DEF OK, Whole, Wakes, SameButUser
<1> QED
  BY <1>3, <1>4, <1>5, <1>6, <1>7 DEF OK, Whole, t

\* A reply that MM owes, or to a process that is gone.
LEMMA ReplyWhole ==
  ASSUME NEW m, NEW W \in SUBSET User, OK(m, W), NEW p \in User, p \in W \/ ~ Alive(m, p)
  PROVE  OK(reply(m, p), W \ {p})
<1>1. CASE ~ Alive(m, p)
  <2>1. reply(m, p) = m
    BY <1>1 DEF reply
  <2>2. \A q \in User : Alive(m, q) => (q \in W \ {p} <=> q \in W)
    BY <1>1
  <2> QED
    BY <2>1, <2>2, OwedDead DEF OK
<1>2. CASE Alive(m, p)
  <2>1. m.user[p] = "served"
    BY <1>2 DEF OK, Whole, Owed
  <2>2. reply(m, p) = [m EXCEPT !.user[p] = "running"]
    BY <1>2, <2>1 DEF reply
  <2>3. OK([m EXCEPT !.user[p] = "running"], W \ {p})
    <3> DEFINE V == W \ {p}
    <3>1. V \in SUBSET User /\ (\A q \in User : q # p => (q \in V <=> q \in W)) /\ p \notin V
      OBVIOUS
    <3>2. "running" \in UserState /\ "running" \notin {"unasked", "free"} /\ "running" # "served"
      BY DEF UserState
    <3>3. m.user[p] # "free" /\ p \in W
      BY <1>2, <2>1
    <3> HIDE DEF V
    <3>4. OK([m EXCEPT !.user[p] = "running"], V)
      BY <3>1, <3>2, <3>3, UserWhole
    <3> QED
      BY <3>4 DEF V
  <2> QED
    BY <2>2, <2>3
<1> QED
  BY <1>1, <1>2

\* Only the flags WAITING and PAUSED of p change.
Note(m, t, p) ==
  /\ t \in Tables
  /\ \A q \in Slot : q # p => t.mp_flags[q] = m.mp_flags[q]
  /\ t.mp_flags[p] \ {WAITING, PAUSED} = m.mp_flags[p] \ {WAITING, PAUSED}
  /\ t.mp_parent = m.mp_parent /\ t.mp_pid = m.mp_pid
  /\ t.procs_in_use = m.procs_in_use /\ t.user = m.user /\ t.fp_refs = m.fp_refs

LEMMA NoteFlags ==
  ASSUME NEW m, NEW t, NEW p \in User, Note(m, t, p)
  PROVE  \A q \in Slot :
           /\ InUse(t, q) <=> InUse(m, q)
           /\ HANGING \in t.mp_flags[q] <=> HANGING \in m.mp_flags[q]
           /\ Alive(t, q) <=> Alive(m, q)
<1>1. \A q \in Slot : q # p => t.mp_flags[q] = m.mp_flags[q]
  BY DEF Note
<1>2. \A f : f \notin {WAITING, PAUSED} => (f \in t.mp_flags[p] <=> f \in m.mp_flags[p])
  <2>1. t.mp_flags[p] \ {WAITING, PAUSED} = m.mp_flags[p] \ {WAITING, PAUSED}
    BY DEF Note
  <2> QED
    BY <2>1
<1>3. ASSUME NEW q \in Slot
      PROVE  /\ IN_USE \in t.mp_flags[q] <=> IN_USE \in m.mp_flags[q]
             /\ HANGING \in t.mp_flags[q] <=> HANGING \in m.mp_flags[q]
  BY <1>1, <1>2, Flags
<1> QED
  BY <1>3 DEF InUse, Alive

LEMMA NoteWhole ==
  ASSUME NEW m, NEW t, NEW W \in SUBSET User, OK(m, W), NEW p \in User, Note(m, t, p),
         NEW V \in SUBSET User, \A q \in User : q # p => (q \in V <=> q \in W),
         Alive(m, p) =>
           /\ m.user[p] = "served" <=> t.mp_flags[p] \cap {WAITING, PAUSED} # {} \/ p \in V
           /\ p \in V => t.mp_flags[p] \cap {WAITING, PAUSED} = {}
           /\ ~ {WAITING, PAUSED} \subseteq t.mp_flags[p],
         Waiting(t, p) => \/ Waiting(m, p) \/ ~ Alive(m, p)
                          \/ /\ Children(m, p) # {}
                             /\ \A q \in Children(m, p) : HANGING \notin m.mp_flags[q]
  PROVE  OK(t, V)
<1>1. \A q \in Slot : q # p => t.mp_flags[q] = m.mp_flags[q]
  BY DEF Note
<1>2. \A q : Children(t, q) = Children(m, q)
  BY NoteFlags DEF Children, Note
<1>3. Sane(t)
  BY NoteFlags, Slots3 DEF OK, Whole, Sane, Note
<1>4. Counted(t)
  <2>1. SlotsInUse(t) = SlotsInUse(m)
    BY NoteFlags DEF SlotsInUse
  <2> QED
    BY <2>1 DEF OK, Whole, Counted, Note
<1>5. Unique(t)
  BY NoteFlags, Slots3 DEF OK, Whole, Unique, Note
<1>6. Descends(t)
  <2>1. {q \in User \ {INIT_PROC_NR} : InUse(t, q)} = {q \in User \ {INIT_PROC_NR} : InUse(m, q)}
    BY NoteFlags, Slots3
  <2>2. \A q \in User : InUse(m, m.mp_parent[q]) => InUse(t, m.mp_parent[q])
    BY NoteFlags, Slots3 DEF OK, Whole, Sane, Tables
  <2> QED
    BY <2>1, <2>2 DEF OK, Whole, Descends, Note
<1>7. Known(t, {})
  BY NoteFlags, Slots3 DEF OK, Whole, Known, Note
<1>8. Owed(t, V)
  <2>1. t.user = m.user
    BY DEF Note
  <2>2. \A q \in User : Alive(t, q) <=> Alive(m, q)
    BY NoteFlags, Slots3
  <2>3. \A q \in User : q # p => t.mp_flags[q] = m.mp_flags[q]
    BY <1>1, Slots3
  <2> QED
    BY <2>1, <2>2, <2>3 DEF OK, Whole, Owed
<1>9. Wakes(t, {})
  <2> SUFFICES ASSUME NEW q \in User, Alive(t, q), Waiting(t, q)
               PROVE  Children(t, q) # {} /\ \A x \in Children(t, q) : HANGING \notin t.mp_flags[x]
    BY DEF Wakes
  <2>1. Alive(m, q) /\ q \in Slot
    BY NoteFlags, Slots3
  <2>2. Children(m, q) # {} /\ \A x \in Children(m, q) : HANGING \notin m.mp_flags[x]
    <3>1. CASE Waiting(m, q)
      BY <2>1, <3>1 DEF OK, Whole, Wakes
    <3>2. CASE ~ Waiting(m, q)
      <4>1. q = p
        BY <2>1, <3>2, <1>1 DEF Waiting
      <4> QED
        BY <2>1, <3>2, <4>1
    <3> QED
      BY <3>1, <3>2
  <2>3. \A x \in Children(m, q) : x \in Slot
    BY DEF Children
  <2> QED
    BY <1>2, <2>2, <2>3, NoteFlags
<1> QED
  BY <1>3, <1>4, <1>5, <1>6, <1>7, <1>8, <1>9 DEF OK, Whole
-----------------------------------------------------------------------------
(* Alarms, core dumps, and the end of a wait or a pause.                   *)

LEMMA AlarmSame ==
  ASSUME NEW m \in Tables, NEW p \in User, NEW sec
  PROVE  set_alarm(m, p, sec) \in Tables /\ Same(m, set_alarm(m, p, sec))
<1> DEFINE f == [m.mp_flags EXCEPT ![p] = IF sec # 0 THEN @ \cup {ALARM_ON} ELSE @ \ {ALARM_ON}]
           a == [m.p_alarm EXCEPT ![MM_PROC_NR] = sec # 0]
           t == [m EXCEPT !.mp_flags = f, !.p_alarm = a]
<1>1. t = set_alarm(m, p, sec)
  BY DEF set_alarm, AlarmSlot
<1>2. p \in Slot /\ ALARM_ON \in Flag /\ m.mp_flags \in [Slot -> SUBSET Flag]
  BY Slots3, Flags DEF Tables
<1>3. f \in [Slot -> SUBSET Flag] /\ \A q \in Slot : q # p => f[q] = m.mp_flags[q]
  BY <1>2
<1>4. f[p] \ {ALARM_ON} = m.mp_flags[p] \ {ALARM_ON}
  BY <1>2
<1>5. a \in [Slot -> BOOLEAN]
  BY DEF Tables
<1> HIDE DEF f, a
<1>6. t \in Tables /\ Same(m, t)
  BY <1>3, <1>4, <1>5 DEF Same, Tables
<1> QED
  BY <1>1, <1>6

LEMMA CoreSame ==
  ASSUME NEW m \in Tables, NEW p \in User
  PROVE  dump_core(m, p) \in Tables /\ Same(m, dump_core(m, p))
<1>1. ASSUME NEW d \in Slot
      PROVE  [m EXCEPT !.mm_dir = d] \in Tables /\ Same(m, [m EXCEPT !.mm_dir = d])
  <2> DEFINE t == [m EXCEPT !.mm_dir = d]
  <2>1. t \in Tables
    BY DEF Tables
  <2>2. /\ t.mp_flags = m.mp_flags /\ t.mp_parent = m.mp_parent /\ t.mp_pid = m.mp_pid
        /\ t.procs_in_use = m.procs_in_use /\ t.user = m.user /\ t.fp_refs = m.fp_refs
    BY DEF Tables
  <2> HIDE DEF t
  <2> QED
    BY <2>1, <2>2 DEF Same, t
<1> QED
  BY <1>1, Slots3 DEF dump_core

\* A caught signal is reset.
LEMMA CatchSame ==
  ASSUME NEW m \in Tables, NEW p \in User, NEW c \in SUBSET Signals
  PROVE  LET t == [m EXCEPT !.mp_catch[p] = c] IN t \in Tables /\ Same(m, t)
<1> DEFINE f == [m.mp_catch EXCEPT ![p] = c]
           t == [m EXCEPT !.mp_catch = f]
<1>1. f \in [Slot -> SUBSET Signals]
  BY Slots3 DEF Tables
<1> HIDE DEF f
<1>2. t \in Tables
  BY <1>1 DEF Tables
<1>3. /\ t.mp_flags = m.mp_flags /\ t.mp_parent = m.mp_parent /\ t.mp_pid = m.mp_pid
      /\ t.procs_in_use = m.procs_in_use /\ t.user = m.user /\ t.fp_refs = m.fp_refs
  BY DEF Tables
<1> HIDE DEF t
<1> QED
  BY <1>2, <1>3 DEF Same, t, f

LEMMA SilentSame ==
  ASSUME NEW m \in Tables, NEW p \in User
  PROVE  LET t == [m EXCEPT !.mp_flags[p] = @ \ {ALARM_ON}] IN t \in Tables /\ Same(m, t)
<1> DEFINE f == [m.mp_flags EXCEPT ![p] = @ \ {ALARM_ON}]
           t == [m EXCEPT !.mp_flags = f]
<1>1. p \in Slot /\ m.mp_flags \in [Slot -> SUBSET Flag]
  BY Slots3 DEF Tables
<1>2. /\ f \in [Slot -> SUBSET Flag] /\ \A q \in Slot : q # p => f[q] = m.mp_flags[q]
      /\ f[p] \ {ALARM_ON} = m.mp_flags[p] \ {ALARM_ON}
  BY <1>1
<1> HIDE DEF f
<1>3. t \in Tables /\ Same(m, t)
  BY <1>2 DEF Same, Tables
<1> QED
  BY <1>3 DEF f

LEMMA NoteGoneWhole ==
  ASSUME NEW m, NEW W \in SUBSET User, OK(m, W), NEW p \in User,
         NEW f \in {WAITING, PAUSED}, f \in m.mp_flags[p]
  PROVE  LET t == [m EXCEPT !.mp_flags[p] = @ \ {f}]
         IN  Note(m, t, p) /\ OK(t, W \cup {p}) /\ (Alive(m, p) => p \notin W)
<1> DEFINE g == [m.mp_flags EXCEPT ![p] = @ \ {f}]
           t == [m EXCEPT !.mp_flags = g]
           V == W \cup {p}
<1>1. p \in Slot /\ m \in Tables /\ m.mp_flags \in [Slot -> SUBSET Flag]
  BY Slots3 DEF OK, Whole, Sane, Tables
<1>2. /\ g \in [Slot -> SUBSET Flag] /\ \A q \in Slot : q # p => g[q] = m.mp_flags[q]
      /\ g[p] = m.mp_flags[p] \ {f}
  BY <1>1
<1> HIDE DEF g
<1>3. Note(m, t, p)
  BY <1>1, <1>2 DEF Note, Tables
<1>4. t.mp_flags[p] = m.mp_flags[p] \ {f}
  BY <1>1, <1>2 DEF Tables
<1> HIDE DEF t
<1>5. Alive(m, p) =>
        /\ m.user[p] = "served" /\ p \notin W
        /\ t.mp_flags[p] \cap {WAITING, PAUSED} = {}
  BY <1>4, Flags DEF OK, Whole, Owed
<1>6. Waiting(t, p) => Waiting(m, p)
  BY <1>4 DEF Waiting
<1>7. V \in SUBSET User /\ p \in V /\ \A q \in User : q # p => (q \in V <=> q \in W)
  OBVIOUS
<1> HIDE DEF V
<1>8. OK(t, V)
  BY <1>3, <1>5, <1>6, <1>7, NoteWhole
<1> QED
  BY <1>3, <1>5, <1>8 DEF t, g, V

LEMMA UnpauseWhole ==
  ASSUME NEW m, NEW W \in SUBSET User, OK(m, W), NEW p \in User, NEW released \in BOOLEAN
  PROVE  LET t == unpause(m, p, released)
         IN  /\ OK(t, W)
             /\ \A q \in Slot : InUse(t, q) <=> InUse(m, q)
             /\ ~ Alive(m, p) => t.user = m.user
<1> DEFINE A(f) == [m EXCEPT !.mp_flags[p] = @ \ {f}]
<1>1. ASSUME NEW f \in {WAITING, PAUSED}, f \in m.mp_flags[p]
      PROVE  /\ OK(reply(A(f), p), W)
             /\ \A q \in Slot : InUse(reply(A(f), p), q) <=> InUse(m, q)
             /\ ~ Alive(m, p) => reply(A(f), p).user = m.user
  <2> DEFINE a == A(f)
  <2>1. Note(m, a, p) /\ OK(a, W \cup {p}) /\ (Alive(m, p) => p \notin W)
    BY <1>1, NoteGoneWhole
  <2> HIDE DEF a
  <2>2. (Alive(a, p) <=> Alive(m, p)) /\ a \in Tables /\ p \in Slot
    BY <2>1, NoteFlags, Slots3 DEF Note
  <2>3. OK(reply(a, p), W)
    <3> DEFINE V == W \cup {p}
    <3>1. V \in SUBSET User /\ p \in V
      OBVIOUS
    <3>2. OK(a, V)
      BY <2>1
    <3>3. OK(reply(a, p), V \ {p})
      <4> HIDE DEF V
      <4> QED
        BY <3>1, <3>2, ReplyWhole
    <3>4. CASE Alive(m, p)
      <4>1. V \ {p} = W
        BY <2>1, <3>4
      <4> QED
        BY <3>3, <4>1
    <3>5. CASE ~ Alive(m, p)
      <4>1. reply(a, p) = a
        BY <2>2, <3>5 DEF reply
      <4>2. \A q \in User : Alive(a, q) => (q \in W <=> q \in V)
        BY <2>2, <3>5
      <4> HIDE DEF V
      <4> QED
        BY <3>2, <4>1, <4>2, OwedDead DEF OK
    <3> QED
      BY <3>4, <3>5
  <2>4. \A q \in Slot : InUse(reply(a, p), q) <=> InUse(m, q)
    <3>1. \A q \in Slot : InUse(a, q) <=> InUse(m, q)
      BY <2>1, NoteFlags
    <3>2. reply(a, p).mp_flags = a.mp_flags
      BY <2>2, ReplyEffect DEF SameButUser
    <3> QED
      BY <3>1, <3>2 DEF InUse
  <2>5. ~ Alive(m, p) => reply(a, p).user = m.user
    BY <2>1, <2>2 DEF reply, Note
  <2> QED
    BY <2>3, <2>4, <2>5 DEF a
<1>2. CASE PAUSED \in m.mp_flags[p] /\ HANGING \notin m.mp_flags[p]
  <2>1. unpause(m, p, released) = reply(A(PAUSED), p)
    BY <1>2 DEF unpause
  <2> QED
    BY <1>1, <1>2, <2>1
<1>3. CASE ~ (PAUSED \in m.mp_flags[p] /\ HANGING \notin m.mp_flags[p])
           /\ WAITING \in m.mp_flags[p] /\ HANGING \notin m.mp_flags[p]
  <2>1. unpause(m, p, released) = reply(A(WAITING), p)
    BY <1>3 DEF unpause
  <2> QED
    BY <1>1, <1>3, <2>1
<1>4. CASE ~ (PAUSED \in m.mp_flags[p] /\ HANGING \notin m.mp_flags[p])
           /\ ~ (WAITING \in m.mp_flags[p] /\ HANGING \notin m.mp_flags[p])
           /\ m.user[p] = "in_fs" /\ released
  <2> DEFINE t == [m EXCEPT !.user[p] = "running"]
  <2>1. unpause(m, p, released) = t
    BY <1>4 DEF unpause
  <2>2. Alive(m, p)
    BY <1>4 DEF OK, Whole, Known
  <2>3. p \notin W
    BY <1>4, <2>2 DEF OK, Whole, Owed
  <2>4. OK(t, W)
    <3>1. "running" \in UserState /\ "running" \notin {"unasked", "free"} /\ "running" # "served"
      BY DEF UserState
    <3>2. m.user[p] # "free" /\ m.user[p] # "served"
      BY <1>4
    <3> QED
      BY <2>3, <3>1, <3>2, UserWhole
  <2>5. t.mp_flags = m.mp_flags
    BY DEF OK, Whole, Sane, Tables
  <2> QED
    BY <2>1, <2>2, <2>4, <2>5 DEF InUse
<1>5. CASE ~ (PAUSED \in m.mp_flags[p] /\ HANGING \notin m.mp_flags[p])
           /\ ~ (WAITING \in m.mp_flags[p] /\ HANGING \notin m.mp_flags[p])
           /\ ~ (m.user[p] = "in_fs" /\ released)
  <2>1. unpause(m, p, released) = m
    BY <1>5 DEF unpause
  <2> QED
    BY <2>1
<1> QED
  BY <1>2, <1>3, <1>4, <1>5
-----------------------------------------------------------------------------
(* The end of a process.                                                   *)

\* A process hangs: its parent does not wait.
LEMMA HangWhole ==
  ASSUME NEW m, NEW W \in SUBSET User, OK(m, W), NEW p \in User \ {INIT_PROC_NR}, InUse(m, p),
         ~ Waiting(m, m.mp_parent[p])
  PROVE  LET t == [m EXCEPT !.mp_flags[p] = @ \cup {HANGING}]
         IN  /\ Whole(t, W, {p}, {}) /\ t.fp_refs = m.fp_refs /\ t.user = m.user
             /\ ~ Alive(t, p) /\ \A q \in Slot : InUse(t, q) <=> InUse(m, q)
<1> DEFINE f == [m.mp_flags EXCEPT ![p] = @ \cup {HANGING}]
           t == [m EXCEPT !.mp_flags = f]
<1>1. p \in Slot /\ m \in Tables /\ m.mp_flags \in [Slot -> SUBSET Flag]
  BY Slots3 DEF OK, Whole, Sane, Tables
<1>2. /\ f \in [Slot -> SUBSET Flag] /\ \A q \in Slot : q # p => f[q] = m.mp_flags[q]
      /\ f[p] = m.mp_flags[p] \cup {HANGING}
  BY <1>1, Flags
<1> HIDE DEF f
<1>3. /\ t \in Tables /\ t.mp_flags = f /\ t.mp_parent = m.mp_parent /\ t.mp_pid = m.mp_pid
      /\ t.procs_in_use = m.procs_in_use /\ t.user = m.user /\ t.fp_refs = m.fp_refs
  BY <1>1, <1>2 DEF Tables
<1> HIDE DEF t
<1>4. ASSUME NEW q \in Slot
      PROVE  /\ IN_USE \in t.mp_flags[q] <=> IN_USE \in m.mp_flags[q]
             /\ HANGING \in t.mp_flags[q] <=> HANGING \in m.mp_flags[q] \/ q = p
             /\ WAITING \in t.mp_flags[q] <=> WAITING \in m.mp_flags[q]
  BY <1>2, <1>3, Flags
<1>5. \A q \in Slot : /\ InUse(t, q) <=> InUse(m, q)
                      /\ Alive(t, q) <=> Alive(m, q) /\ q # p
                      /\ Waiting(t, q) <=> Waiting(m, q)
  BY <1>4 DEF InUse, Alive, Waiting
<1>6. Sane(t)
  <2>1. \A q \in {MM_PROC_NR, FS_PROC_NR, INIT_PROC_NR} : q # p /\ q \in Slot
    BY Slots3
  <2>2. \A q \in {MM_PROC_NR, FS_PROC_NR} : t.mp_flags[q] = {IN_USE}
    BY <2>1, <1>2, <1>3 DEF OK, Whole, Sane
  <2>3. Alive(t, INIT_PROC_NR)
    BY <2>1, <1>5 DEF OK, Whole, Sane
  <2>4. \A q \in Slot : HANGING \in t.mp_flags[q] => InUse(t, q)
    BY <1>4, <1>5 DEF OK, Whole, Sane
  <2> QED
    BY <2>2, <2>3, <2>4, <1>3 DEF OK, Whole, Sane
<1>7. Counted(t)
  <2>1. SlotsInUse(t) = SlotsInUse(m)
    BY <1>5 DEF SlotsInUse
  <2> QED
    BY <2>1, <1>3 DEF OK, Whole, Counted
<1>8. Unique(t)
  BY <1>3, <1>5, Slots3 DEF OK, Whole, Unique
<1>9. Descends(t)
  <2>1. {q \in User \ {INIT_PROC_NR} : InUse(t, q)} = {q \in User \ {INIT_PROC_NR} : InUse(m, q)}
    BY <1>5, Slots3
  <2>2. \A q \in User : InUse(m, m.mp_parent[q]) => InUse(t, m.mp_parent[q])
    BY <1>1, <1>5, Slots3 DEF Tables
  <2> QED
    BY <2>1, <2>2, <1>3 DEF OK, Whole, Descends
<1>10. Known(t, {p})
  BY <1>3, <1>5, Slots3 DEF OK, Whole, Known
<1>11. Owed(t, W)
  <2>1. \A q \in User : q # p => t.mp_flags[q] = m.mp_flags[q]
    BY <1>2, <1>3, Slots3
  <2>2. \A q \in User : Alive(t, q) <=> Alive(m, q) /\ q # p
    BY <1>5, Slots3
  <2> QED
    BY <2>1, <2>2, <1>3 DEF OK, Whole, Owed
<1>12. Wakes(t, {})
  <2> SUFFICES ASSUME NEW q \in User, Alive(t, q), Waiting(t, q)
               PROVE  Children(t, q) # {} /\ \A x \in Children(t, q) : HANGING \notin t.mp_flags[x]
    BY DEF Wakes
  <2>1. Alive(m, q) /\ Waiting(m, q) /\ q \in Slot
    BY <1>5, Slots3
  <2>2. Children(t, q) = Children(m, q)
    BY <1>3, <1>5 DEF Children
  <2>3. p \notin Children(m, q)
    BY <2>1 DEF Children
  <2>4. \A x \in Children(m, q) : x \in Slot
    BY DEF Children
  <2> QED
    BY <2>1, <2>2, <2>3, <2>4, <1>4 DEF OK, Whole, Wakes
<1>13. Whole(t, W, {p}, {})
  BY <1>6, <1>7, <1>8, <1>9, <1>10, <1>11, <1>12 DEF Whole
<1> QED
  BY <1>1, <1>3, <1>5, <1>13 DEF t, f

\* The kernel and FS forget a process that is dead.
LEMMA XitWhole ==
  ASSUME NEW m, NEW W, NEW p \in User \ {INIT_PROC_NR}, Whole(m, W, {p}, {}), ~ Alive(m, p),
         ~ RootKillsAll => m.fp_refs[p] = 1
  PROVE  LET t == tell_fs_exit(sys_xit(m, p), p)
         IN  /\ OK(t, W) /\ t.mp_flags = m.mp_flags /\ t.mp_parent = m.mp_parent
             /\ \A q \in User : q # p => t.user[q] = m.user[q]
<1> DEFINE u == [m.user EXCEPT ![p] = "free"]
           a == [m.p_alarm EXCEPT ![p] = FALSE]
           r == [m.fp_refs EXCEPT ![p] = @ - 1]
           x == [m EXCEPT !.user = u, !.p_alarm = a]
           t == [x EXCEPT !.fp_refs = r]
<1>1. m \in Tables /\ p \in Slot
  BY Slots3 DEF Whole, Sane
<1>2. /\ m.user \in [User -> UserState] /\ m.p_alarm \in [Slot -> BOOLEAN]
      /\ m.fp_refs \in [User -> Int]
  BY <1>1 DEF Tables
<1>3. /\ u \in [User -> UserState] /\ u[p] = "free" /\ \A q \in User : q # p => u[q] = m.user[q]
      /\ a \in [Slot -> BOOLEAN]
  BY <1>2 DEF UserState
<1>4. /\ r \in [User -> Int] /\ r[p] = m.fp_refs[p] - 1
      /\ \A q \in User : q # p => r[q] = m.fp_refs[q]
  BY <1>2
<1>5. tell_fs_exit(sys_xit(m, p), p) = t
  <2>1. sys_xit(m, p) = x
    BY DEF sys_xit
  <2>2. x.fp_refs = m.fp_refs
    BY <1>1 DEF Tables
  <2> QED
    BY <2>1, <2>2 DEF tell_fs_exit
<1> HIDE DEF u, a, r
<1>6. /\ t \in Tables /\ t.mp_flags = m.mp_flags /\ t.mp_parent = m.mp_parent
      /\ t.mp_pid = m.mp_pid /\ t.procs_in_use = m.procs_in_use /\ t.user = u /\ t.fp_refs = r
  BY <1>1, <1>3, <1>4 DEF Tables
<1> HIDE DEF t
<1>7. /\ \A q : InUse(t, q) <=> InUse(m, q)
      /\ \A q : Alive(t, q) <=> Alive(m, q)
      /\ \A q : Waiting(t, q) <=> Waiting(m, q)
      /\ \A q : Children(t, q) = Children(m, q)
  BY <1>6 DEF InUse, Alive, Waiting, Children
<1>8. Sane(t) /\ Counted(t) /\ Unique(t)
  BY <1>6, <1>7 DEF Whole, Sane, Counted, SlotsInUse, Unique
<1>9. Descends(t)
  BY <1>6, <1>7 DEF Whole, Descends
<1>10. Known(t, {})
  <2> SUFFICES ASSUME NEW q \in User
               PROVE  /\ Alive(t, q) <=> t.user[q] # "free"
                      /\ ~ RootKillsAll => t.fp_refs[q] = IF Alive(t, q) THEN 1 ELSE 0
    BY DEF Known
  <2>1. CASE q = p
    BY <2>1, <1>3, <1>4, <1>6, <1>7
  <2>2. CASE q # p
    BY <2>2, <1>3, <1>4, <1>6, <1>7 DEF Whole, Known
  <2> QED
    BY <2>1, <2>2
<1>11. Owed(t, W)
  <2>1. \A q \in User : t.user[q] # "unasked"
    BY <1>3, <1>6 DEF Whole, Owed
  <2> QED
    BY <2>1, <1>3, <1>6, <1>7 DEF Whole, Owed
<1>12. Wakes(t, {})
  BY <1>6, <1>7 DEF Whole, Wakes
<1> QED
  BY <1>3, <1>5, <1>6, <1>8, <1>9, <1>10, <1>11, <1>12 DEF OK, Whole
\* Who is told stays told when the process p, which leaves too, is forgotten.
LEMMA ReportedThen ==
  ASSUME NEW m, NEW g, NEW t, NEW p \in User \ {INIT_PROC_NR}, Reported(m, g),
         \A q \in Slot : InUse(t, q) <=> InUse(g, q),
         m.mp_parent \in [Slot -> Slot],
         \A q \in User : q # p => t.user[q] = g.user[q],
         Freed(m, g) # {} => InUse(m, p) /\ ~ InUse(g, p)
  PROVE  Reported(m, t)
<1>1. Freed(m, t) = Freed(m, g)
  BY Slots3 DEF Freed
<1>2. ASSUME NEW q \in Freed(m, t)
      PROVE  ReaperOf(m, t, q) = ReaperOf(m, g, q) /\ ReaperOf(m, g, q) # p
  <2>1. q \in Slot /\ m.mp_parent[q] \in Slot
    BY Slots3 DEF Freed
  <2>2. InUse(m, p) /\ ~ InUse(g, p)
    BY <1>1
  <2> QED
    BY <2>1, <2>2 DEF ReaperOf
<1> QED
  BY <1>1, <1>2 DEF Reported

LEMMA NobodyFreed ==
  ASSUME NEW m, NEW t, \A q \in Slot : InUse(m, q) => InUse(t, q)
  PROVE  Reported(m, t) /\ Freed(m, t) = {}
BY Slots3 DEF Reported, Freed

LEMMA ExitWhole ==
  ASSUME NEW m, NEW W \in SUBSET User, OK(m, W), NEW p \in User \ {INIT_PROC_NR}, InUse(m, p),
         RootKillsAll \/ Alive(m, p)
  PROVE  LET t == mm_exit(m, p)
         IN  OK(t, W) /\ ~ Alive(t, p) /\ Reported(m, t)
<1> DEFINE parent == m.mp_parent[p]
           gone == IF Waiting(m, parent) THEN cleanup(m, p)
                   ELSE [m EXCEPT !.mp_flags[p] = @ \cup {HANGING}]
           silent == IF ALARM_ON \in gone.mp_flags[p] THEN set_alarm(gone, p, 0) ELSE gone
           t == tell_fs_exit(sys_xit(silent, p), p)
<1>1. p \in Slot /\ parent \in Slot /\ m \in Tables /\ m.mp_parent \in [Slot -> Slot]
  BY Slots3 DEF OK, Whole, Sane, Tables
<1>2. /\ Whole(gone, W, {p}, {}) /\ ~ Alive(gone, p) /\ gone.fp_refs = m.fp_refs
      /\ Reported(m, gone) /\ (Freed(m, gone) # {} => InUse(m, p) /\ ~ InUse(gone, p))
  <2>1. CASE Waiting(m, parent)
    <3> DEFINE c == cleanup(m, p)
    <3>1. Whole(c, W \ {parent}, {p}, {}) /\ Fewer(m, c, p) /\ Reported(m, c)
      BY <2>1, CleanupWhole
    <3> HIDE DEF c
    <3>2. \A q \in User : Alive(c, q) => (q \in W <=> q \in W \ {parent})
      <4>1. \A q \in User : Alive(c, q) => Alive(m, q)
        BY <3>1, Slots3 DEF Fewer
      <4>2. parent \in User /\ Alive(m, parent) => parent \notin W
        BY <2>1 DEF OK, Whole, Owed, Waiting
      <4> QED
        BY <4>1, <4>2
    <3>3. Whole(c, W, {p}, {})
      BY <3>1, <3>2, OwedDead
    <3>4. ~ InUse(c, p)
      BY <1>1, <3>1 DEF Fewer
    <3>5. gone = c
      BY <2>1 DEF c
    <3> QED
      BY <3>1, <3>3, <3>4, <3>5 DEF Fewer, Alive
  <2>2. CASE ~ Waiting(m, parent)
    <3> DEFINE h == [m EXCEPT !.mp_flags[p] = @ \cup {HANGING}]
    <3>1. /\ Whole(h, W, {p}, {}) /\ h.fp_refs = m.fp_refs
          /\ ~ Alive(h, p) /\ \A q \in Slot : InUse(h, q) <=> InUse(m, q)
      BY <2>2, HangWhole
    <3>2. gone = h
      BY <2>2
    <3> HIDE DEF h
    <3> QED
      BY <3>1, <3>2, NobodyFreed
  <2> QED
    BY <2>1, <2>2
<1> HIDE DEF gone
<1>3. silent \in Tables /\ Same(gone, silent)
  <2>1. gone \in Tables
    BY <1>2 DEF Whole, Sane
  <2>2. Same(gone, gone)
    BY DEF Same
  <2>3. set_alarm(gone, p, 0) \in Tables /\ Same(gone, set_alarm(gone, p, 0))
    BY <2>1, AlarmSame
  <2> QED
    BY <2>1, <2>2, <2>3
<1> HIDE DEF silent
<1>4. Whole(silent, W, {p}, {}) /\ ~ Alive(silent, p) /\ silent.fp_refs = m.fp_refs
  BY <1>1, <1>2, <1>3, SameWhole, SameFlags DEF Same
<1>5. ~ RootKillsAll => silent.fp_refs[p] = 1
  BY <1>4 DEF OK, Whole, Known
<1>6. /\ OK(t, W) /\ t.mp_flags = silent.mp_flags
      /\ \A q \in User : q # p => t.user[q] = silent.user[q]
  BY <1>4, <1>5, XitWhole
<1> HIDE DEF t
<1>7. ~ Alive(t, p)
  BY <1>4, <1>6 DEF Alive, InUse
<1>8. Reported(m, t)
  <2>1. \A q \in Slot : InUse(t, q) <=> InUse(gone, q)
    BY <1>3, <1>6, SameFlags DEF InUse
  <2>2. \A q \in User : q # p => t.user[q] = gone.user[q]
    BY <1>3, <1>6 DEF Same
  <2>3. Reported(m, gone) /\ (Freed(m, gone) # {} => InUse(m, p) /\ ~ InUse(gone, p))
    BY <1>2
  <2>4. m.mp_parent \in [Slot -> Slot]
    BY <1>1
  <2> QED
    BY <2>1, <2>2, <2>3, <2>4, ReportedThen
<1>9. t = mm_exit(m, p)
  BY DEF t, silent, gone, mm_exit
<1> QED
  BY <1>6, <1>7, <1>8, <1>9

\* Who is told does not depend on the rest of the tables.
LEMMA ReportedSame ==
  ASSUME NEW m, m \in Tables, NEW c, Same(m, c), NEW t, Reported(c, t)
  PROVE  Reported(m, t)
<1>1. /\ \A q \in Slot : InUse(c, q) <=> InUse(m, q)
      /\ \A q \in Slot : Alive(c, q) <=> Alive(m, q)
      /\ c.mp_parent = m.mp_parent /\ c.user = m.user
  BY SameFlags DEF Same
<1>2. Freed(c, t) = Freed(m, t)
  BY <1>1, Slots3 DEF Freed
<1>3. \A q \in Freed(m, t) : ReaperOf(c, t, q) = ReaperOf(m, t, q)
  <2>1. \A q \in Freed(m, t) : m.mp_parent[q] \in Slot
    BY Slots3 DEF Freed, Tables
  <2> QED
    BY <1>1, <2>1 DEF ReaperOf
<1> QED
  BY <1>1, <1>2, <1>3, Slots3 DEF Reported

\* A signal that is not caught ends the process, after a core dump.
LEMMA DefaultWhole ==
  ASSUME NEW m, NEW W \in SUBSET User, OK(m, W), NEW p \in User \ {INIT_PROC_NR}, InUse(m, p),
         RootKillsAll \/ Alive(m, p), NEW sig_nr
  PROVE  LET t == DefaultAction(m, p, sig_nr)
         IN  OK(t, W) /\ ~ Alive(t, p) /\ Reported(m, t)
<1> DEFINE c == IF sig_nr \in CoreSignals THEN dump_core(m, p) ELSE m
<1>1. c \in Tables /\ Same(m, c)
  BY CoreSame DEF OK, Whole, Sane, Same
<1>2. DefaultAction(m, p, sig_nr) = mm_exit(c, p)
  BY DEF DefaultAction
<1> HIDE DEF c
<1>3. OK(c, W) /\ (InUse(c, p) <=> InUse(m, p)) /\ (Alive(c, p) <=> Alive(m, p))
  BY <1>1, SameWhole, SameFlags, Slots3 DEF OK
<1> DEFINE t == mm_exit(c, p)
<1>4. OK(t, W) /\ ~ Alive(t, p) /\ Reported(c, t)
  BY <1>3, ExitWhole
<1> HIDE DEF t
<1>5. Reported(m, t)
  BY <1>1, <1>4, ReportedSame DEF OK, Whole, Sane
<1> QED
  BY <1>2, <1>4, <1>5 DEF t

LEMMA SigProcWhole ==
  ASSUME NEW m, NEW W \in SUBSET User, OK(m, W), NEW p \in User \ {INIT_PROC_NR}, InUse(m, p),
         RootKillsAll \/ Alive(m, p), NEW sig_nr, NEW grown \in BOOLEAN
  PROVE  LET t == sig_proc(m, p, sig_nr, grown)
         IN  OK(t, W) /\ Reported(m, t) /\ (Alive(t, p) => Freed(m, t) = {})
<1> DEFINE c == [m EXCEPT !.mp_catch[p] = @ \ {sig_nr}]
<1>1. c \in Tables /\ Same(m, c)
  <2>1. m \in Tables /\ m.mp_catch[p] \ {sig_nr} \in SUBSET Signals
    BY Slots3 DEF OK, Whole, Sane, Tables
  <2> QED
    BY <2>1, CatchSame
<1>2. sig_proc(m, p, sig_nr, grown) =
        IF sig_nr \in m.mp_catch[p]
        THEN IF grown THEN c ELSE DefaultAction(c, p, sig_nr)
        ELSE DefaultAction(m, p, sig_nr)
  BY DEF sig_proc
<1> HIDE DEF c
<1>3. OK(c, W) /\ (InUse(c, p) <=> InUse(m, p)) /\ (Alive(c, p) <=> Alive(m, p))
  BY <1>1, SameWhole, SameFlags, Slots3 DEF OK
<1>4. Reported(m, c) /\ Freed(m, c) = {}
  BY <1>1, SameFlags, NobodyFreed
<1>5. \A x : Reported(c, x) => Reported(m, x)
  BY <1>1, ReportedSame DEF OK, Whole, Sane
<1>6. CASE sig_nr \in m.mp_catch[p] /\ grown
  BY <1>2, <1>3, <1>4, <1>6
<1>8. CASE sig_nr \in m.mp_catch[p] /\ ~ grown
  <2> DEFINE t == DefaultAction(c, p, sig_nr)
  <2>1. OK(t, W) /\ ~ Alive(t, p) /\ Reported(c, t)
    BY <1>3, DefaultWhole
  <2>2. sig_proc(m, p, sig_nr, grown) = t
    BY <1>2, <1>8
  <2> HIDE DEF t
  <2> QED
    BY <1>5, <2>1, <2>2
<1>9. CASE sig_nr \notin m.mp_catch[p]
  <2> DEFINE t == DefaultAction(m, p, sig_nr)
  <2>1. OK(t, W) /\ ~ Alive(t, p) /\ Reported(m, t)
    BY DefaultWhole
  <2>2. sig_proc(m, p, sig_nr, grown) = t
    BY <1>2, <1>9
  <2> HIDE DEF t
  <2> QED
    BY <2>1, <2>2
<1> QED
  BY <1>6, <1>8, <1>9
-----------------------------------------------------------------------------
(* fork(): there is a free slot and a free pid, and the child is like its  *)
(* parent.                                                                 *)

LEMMA FreeSlot ==
  ASSUME NEW m, m \in Tables, Counted(m), m.procs_in_use < NR_PROCS
  PROVE  LET child == Min({q \in Slot : ~ InUse(m, q)}) IN child \in Slot /\ ~ InUse(m, child)
<1> DEFINE F == {q \in Slot : ~ InUse(m, q)}
<1>1. Cardinality(Slot) = NR_PROCS
  <2>1. 0 \in Int /\ NR_PROCS - 1 \in Int /\ 0 <= NR_PROCS - 1
    BY SlotsAssumption DEF INIT_PROC_NR
  <2>2. Cardinality(0 .. NR_PROCS - 1) = (NR_PROCS - 1) - 0 + 1
    BY <2>1, FS_Interval
  <2> QED
    BY <2>2, SlotsAssumption DEF Slot
<1>2. F # {}
  <2> SUFFICES ASSUME F = {} PROVE FALSE
    OBVIOUS
  <2>1. SlotsInUse(m) = Slot
    BY DEF SlotsInUse
  <2> QED
    BY <1>1, <2>1, SlotsAssumption DEF Counted
<1>3. F \in SUBSET Nat
  BY Slots3
<1> QED
  BY <1>2, <1>3, LeastExists

\* More pids than slots that have one.
LEMMA FreePid ==
  ASSUME NEW pids \in [Slot -> Pid \cup {0}], NEW child \in User \ {INIT_PROC_NR}, NEW p \in User,
         p # child, pids[child] = pids[p],
         pids[MM_PROC_NR] = 0, pids[FS_PROC_NR] = 0, pids[INIT_PROC_NR] = 0
  PROVE  Pid \ {pids[q] : q \in Slot} # {}
<1> SUFFICES ASSUME Pid \subseteq {pids[q] : q \in Slot} PROVE FALSE
  OBVIOUS
<1> DEFINE T == User \ {INIT_PROC_NR}
           S == T \ {child}
           f == [q \in S |-> pids[q]]
           R == {f[q] : q \in S}
<1>1. Pid \subseteq R
  <2> SUFFICES ASSUME NEW v \in Pid PROVE v \in R
    OBVIOUS
  <2>1. PICK q \in Slot : pids[q] = v
    OBVIOUS
  <2>2. v # 0
    BY PidsAssumption DEF Pid, INIT_PROC_NR
  <2>3. q \in User \ {INIT_PROC_NR}
    BY <2>1, <2>2, Slots3
  <2>4. CASE q # child
    BY <2>1, <2>3, <2>4
  <2>5. CASE q = child
    <3>1. pids[p] = v /\ p \in S
      BY <2>1, <2>2, <2>5
    <3> QED
      BY <3>1
  <2> QED
    BY <2>4, <2>5
<1>2. IsFiniteSet(T) /\ Cardinality(T) = NR_PROCS - 3
  <2>1. T = 3 .. NR_PROCS - 1
    BY SlotsAssumption DEF User, INIT_PROC_NR
  <2>2. 3 \in Int /\ NR_PROCS - 1 \in Int
    BY SlotsAssumption
  <2>3. IsFiniteSet(3 .. NR_PROCS - 1) /\
        Cardinality(3 .. NR_PROCS - 1) = IF 3 > NR_PROCS - 1 THEN 0 ELSE (NR_PROCS - 1) - 3 + 1
    BY <2>2, FS_Interval
  <2> HIDE DEF T
  <2> QED
    BY <2>1, <2>3, SlotsAssumption DEF INIT_PROC_NR
<1>3. IsFiniteSet(S) /\ Cardinality(S) = NR_PROCS - 4
  <2>1. child \in T
    OBVIOUS
  <2> HIDE DEF T
  <2>2. IsFiniteSet(T \ {child}) /\ Cardinality(T \ {child}) = Cardinality(T) - 1
    BY <1>2, <2>1, FS_RemoveElement
  <2> QED
    BY <1>2, <2>2, SlotsAssumption
<1> HIDE DEF T, S
<1>4. IsFiniteSet(R) /\ Cardinality(R) <= Cardinality(S)
  <2>1. f \in [S -> R]
    OBVIOUS
  <2>2. f \in Surjection(S, R)
    BY <2>1 DEF Surjection
  <2> HIDE DEF f, R
  <2> QED
    BY <1>3, <2>2, FS_Surjection
<1>5. Cardinality(Pid) = MaxPid - INIT_PROC_NR
  <2>1. INIT_PROC_NR + 1 \in Int /\ MaxPid \in Int
    BY PidsAssumption DEF INIT_PROC_NR
  <2>2. Cardinality(INIT_PROC_NR + 1 .. MaxPid)
          = IF INIT_PROC_NR + 1 > MaxPid THEN 0 ELSE MaxPid - (INIT_PROC_NR + 1) + 1
    BY <2>1, FS_Interval
  <2> QED
    BY <2>2, PidsAssumption DEF Pid, INIT_PROC_NR
<1>6. Cardinality(Pid) <= Cardinality(R) /\ Cardinality(R) \in Nat
  BY <1>1, <1>4, FS_Subset, FS_CardinalityType
<1> QED
  BY <1>3, <1>4, <1>5, <1>6, SlotsAssumption, PidsAssumption DEF INIT_PROC_NR

\* do_fork() tries every pid.
LEMMA Candidates ==
  ASSUME NEW m, m.next_pid \in Pid
  PROVE  /\ \A i \in 1 .. MaxPid - INIT_PROC_NR : Candidate(m, i) \in Pid
         /\ \A v \in Pid : \E i \in 1 .. MaxPid - INIT_PROC_NR : Candidate(m, i) = v
<1> DEFINE K == MaxPid - INIT_PROC_NR
           a == m.next_pid - INIT_PROC_NR - 1
<1>1. K \in Nat /\ K > 0 /\ a \in 0 .. K - 1
  BY PidsAssumption DEF Pid, INIT_PROC_NR
<1>2. \A i : Candidate(m, i) = INIT_PROC_NR + 1 + ((a + i) % K)
  BY DEF Candidate
<1> HIDE DEF K, a
<1>3. \A x \in Nat : x % K \in 0 .. K - 1
  BY <1>1
<1>4. \A x \in 0 .. K - 1 : x % K = x /\ (x + K) % K = x
  BY <1>1
<1>5. ASSUME NEW i \in 1 .. K PROVE Candidate(m, i) \in Pid
  <2>1. a + i \in Nat
    BY <1>1
  <2>2. (a + i) % K \in 0 .. K - 1
    BY <2>1, <1>3
  <2> QED
    BY <1>1, <1>2, <2>2, PidsAssumption DEF Pid, INIT_PROC_NR, K
<1>6. ASSUME NEW v \in Pid PROVE \E i \in 1 .. K : Candidate(m, i) = v
  <2> DEFINE b == v - INIT_PROC_NR - 1
  <2>1. b \in 0 .. K - 1 /\ v = INIT_PROC_NR + 1 + b
    BY PidsAssumption DEF Pid, INIT_PROC_NR, K
  <2> HIDE DEF b
  <2>2. CASE b > a
    <3>1. b - a \in 1 .. K /\ a + (b - a) = b
      BY <1>1, <2>1, <2>2
    <3>2. (a + (b - a)) % K = b
      BY <1>4, <2>1, <3>1
    <3> QED
      BY <1>2, <2>1, <3>1, <3>2
  <2>3. CASE b <= a
    <3>1. b - a + K \in 1 .. K /\ a + (b - a + K) = b + K
      BY <1>1, <2>1, <2>3
    <3>2. (a + (b - a + K)) % K = b
      BY <1>4, <2>1, <3>1
    <3> QED
      BY <1>2, <2>1, <3>1, <3>2
  <2> QED
    BY <1>1, <2>1, <2>2, <2>3
<1> QED
  BY <1>5, <1>6 DEF K

\* A child of p in a slot that was free.
Forked(m, t, p, child) ==
  /\ t \in Tables
  /\ t.mp_flags[child] = m.mp_flags[p] /\ t.mp_parent[child] = p
  /\ t.user[child] = m.user[p] /\ t.fp_refs[child] = m.fp_refs[child] + 1
  /\ \A q \in Slot \ {child} :
       /\ t.mp_flags[q] = m.mp_flags[q] /\ t.mp_parent[q] = m.mp_parent[q]
       /\ t.mp_pid[q] = m.mp_pid[q] /\ m.mp_pid[q] # t.mp_pid[child]
  /\ \A q \in User \ {child} : t.user[q] = m.user[q] /\ t.fp_refs[q] = m.fp_refs[q]
  /\ t.procs_in_use = m.procs_in_use + 1

LEMMA ForkedWhole ==
  ASSUME NEW m, NEW W \in SUBSET User, OK(m, W), NEW p \in W, Alive(m, p),
         NEW child \in User \ {INIT_PROC_NR}, ~ InUse(m, child), NEW t, Forked(m, t, p, child)
  PROVE  OK(t, W \cup {child}) /\ \A q \in Slot : InUse(t, q) <=> InUse(m, q) \/ q = child
<1>1. p \in Slot /\ child \in Slot /\ p # child /\ m \in Tables
  BY Slots3 DEF Alive, OK, Whole, Sane
<1>2. m.user[p] = "served" /\ m.mp_flags[p] \cap {WAITING, PAUSED} = {}
  BY <1>1 DEF OK, Whole, Owed
<1>3. \A q \in Slot : /\ InUse(t, q) <=> InUse(m, q) \/ q = child
                      /\ Alive(t, q) <=> Alive(m, q) \/ q = child
                      /\ HANGING \in t.mp_flags[q] <=> HANGING \in m.mp_flags[q] /\ q # child
                      /\ q # child => (Waiting(t, q) <=> Waiting(m, q))
  <2> SUFFICES ASSUME NEW q \in Slot
               PROVE  /\ InUse(t, q) <=> InUse(m, q) \/ q = child
                      /\ Alive(t, q) <=> Alive(m, q) \/ q = child
                      /\ HANGING \in t.mp_flags[q] <=> HANGING \in m.mp_flags[q] /\ q # child
                      /\ q # child => (Waiting(t, q) <=> Waiting(m, q))
    OBVIOUS
  <2>1. CASE q = child
    BY <1>1, <2>1 DEF Forked, InUse, Alive, Waiting
  <2>2. CASE q # child
    BY <2>2 DEF Forked, InUse, Alive, Waiting
  <2> QED
    BY <2>1, <2>2
<1>4. ~ Waiting(t, child) /\ ~ Waiting(m, p)
  BY <1>2 DEF Forked, Waiting
<1>5. Sane(t)
  <2>1. \A q \in {MM_PROC_NR, FS_PROC_NR, INIT_PROC_NR} : q # child /\ q \in Slot
    BY Slots3
  <2>2. \A q \in {MM_PROC_NR, FS_PROC_NR} : t.mp_flags[q] = {IN_USE}
    BY <2>1 DEF OK, Whole, Sane, Forked
  <2>3. \A q \in {MM_PROC_NR, FS_PROC_NR, INIT_PROC_NR} : t.mp_pid[q] = 0
    BY <2>1 DEF OK, Whole, Sane, Forked
  <2>4. Alive(t, INIT_PROC_NR)
    BY <2>1, <1>3 DEF OK, Whole, Sane
  <2>5. \A q \in Slot : HANGING \in t.mp_flags[q] => InUse(t, q)
    BY <1>3 DEF OK, Whole, Sane
  <2> QED
    BY <2>2, <2>3, <2>4, <2>5 DEF Sane, Forked
<1>6. Counted(t)
  <2>1. SlotsInUse(t) = SlotsInUse(m) \cup {child} /\ child \notin SlotsInUse(m)
    BY <1>1, <1>3 DEF SlotsInUse
  <2>2. IsFiniteSet(SlotsInUse(m))
    BY SlotsFinite, FS_Subset DEF SlotsInUse
  <2>3. Cardinality(SlotsInUse(m) \cup {child}) = Cardinality(SlotsInUse(m)) + 1
    BY <2>1, <2>2, FS_AddElement
  <2> QED
    BY <2>1, <2>3 DEF OK, Whole, Counted, Forked
<1>7. Unique(t)
  <2> SUFFICES ASSUME NEW q \in User, NEW r \in User, InUse(t, q), InUse(t, r),
                      t.mp_pid[q] = t.mp_pid[r]
               PROVE  q = r
    BY DEF Unique
  <2>1. q \in Slot /\ r \in Slot
    BY Slots3
  <2>2. CASE q = child \/ r = child
    BY <2>1, <2>2 DEF Forked
  <2>3. CASE q # child /\ r # child
    BY <2>1, <2>3, <1>3 DEF Forked, OK, Whole, Unique
  <2> QED
    BY <2>2, <2>3
<1>8. Descends(t)
  <2> SUFFICES ASSUME NEW S \in SUBSET {q \in User \ {INIT_PROC_NR} : InUse(t, q)}, S # {}
               PROVE  \E q \in S : InUse(t, t.mp_parent[q]) /\ t.mp_parent[q] \notin S
    BY DEF Descends
  <2>1. CASE S = {child}
    BY <1>1, <1>3, <2>1 DEF Forked, Alive
  <2>2. CASE S # {child}
    <3> DEFINE R == S \ {child}
    <3>1. R \in SUBSET {q \in User \ {INIT_PROC_NR} : InUse(m, q)} /\ R # {}
      BY <1>3, <2>2, Slots3
    <3>2. PICK q \in R : InUse(m, m.mp_parent[q]) /\ m.mp_parent[q] \notin R
      BY <3>1 DEF OK, Whole, Descends
    <3>3. q \in Slot /\ q # child /\ q \in S
      BY Slots3
    <3>4. m.mp_parent[q] \in Slot /\ t.mp_parent[q] = m.mp_parent[q]
      BY <1>1, <3>3 DEF Tables, Forked
    <3>5. m.mp_parent[q] # child
      BY <3>2
    <3> QED
      BY <1>3, <3>2, <3>3, <3>4, <3>5
  <2> QED
    BY <2>1, <2>2
<1>9. Known(t, {})
  <2> SUFFICES ASSUME NEW q \in User
               PROVE  /\ Alive(t, q) <=> t.user[q] # "free"
                      /\ ~ RootKillsAll => t.fp_refs[q] = IF Alive(t, q) THEN 1 ELSE 0
    BY DEF Known
  <2>1. CASE q = child
    <3>1. Alive(t, q) /\ t.user[q] = "served"
      BY <1>1, <1>2, <1>3, <2>1 DEF Forked
    <3>2. ~ RootKillsAll => m.fp_refs[q] = 0
      BY <2>1 DEF OK, Whole, Known, Alive
    <3>3. t.fp_refs[q] = m.fp_refs[q] + 1
      BY <2>1 DEF Forked
    <3> QED
      BY <3>1, <3>2, <3>3
  <2>2. CASE q # child
    BY <1>3, <2>2, Slots3 DEF OK, Whole, Known, Forked
  <2> QED
    BY <2>1, <2>2
<1>10. Owed(t, W \cup {child})
  <2> SUFFICES ASSUME NEW q \in User
               PROVE  /\ t.user[q] # "unasked"
                      /\ Alive(t, q) =>
                         /\ t.user[q] = "served"
                              <=> t.mp_flags[q] \cap {WAITING, PAUSED} # {} \/ q \in W \cup {child}
                         /\ q \in W \cup {child} => t.mp_flags[q] \cap {WAITING, PAUSED} = {}
                         /\ ~ {WAITING, PAUSED} \subseteq t.mp_flags[q]
    BY DEF Owed
  <2>1. CASE q = child
    <3>1. t.user[q] = "served" /\ t.mp_flags[q] \cap {WAITING, PAUSED} = {}
      BY <1>2, <2>1 DEF Forked
    <3> QED
      BY <2>1, <3>1
  <2>2. CASE q # child
    <3>1. t.user[q] = m.user[q] /\ t.mp_flags[q] = m.mp_flags[q] /\ (Alive(t, q) <=> Alive(m, q))
      BY <1>3, <2>2, Slots3 DEF Forked
    <3>2. q \in W \cup {child} <=> q \in W
      BY <2>2
    <3> QED
      BY <3>1, <3>2 DEF OK, Whole, Owed
  <2> QED
    BY <2>1, <2>2
<1>11. Wakes(t, {})
  <2> SUFFICES ASSUME NEW q \in User, Alive(t, q), Waiting(t, q)
               PROVE  Children(t, q) # {} /\ \A x \in Children(t, q) : HANGING \notin t.mp_flags[x]
    BY DEF Wakes
  <2>1. q # child /\ q # p /\ q \in Slot /\ Alive(m, q) /\ Waiting(m, q)
    BY <1>3, <1>4, Slots3
  <2>2. ASSUME NEW x \in Slot PROVE x \in Children(t, q) <=> x \in Children(m, q)
    <3>1. CASE x = child
      BY <2>1, <3>1 DEF Children, Forked
    <3>2. CASE x # child
      BY <1>3, <3>2 DEF Children, Forked
    <3> QED
      BY <3>1, <3>2
  <2>3. Children(t, q) = Children(m, q)
    BY <2>2 DEF Children
  <2>4. \A x \in Children(m, q) : x \in Slot
    BY DEF Children
  <2> QED
    BY <1>3, <2>1, <2>3, <2>4 DEF OK, Whole, Wakes
<1> QED
  BY <1>3, <1>5, <1>6, <1>7, <1>8, <1>9, <1>10, <1>11 DEF OK, Whole

LEMMA ForkStep ==
  ASSUME NEW p \in User, OK(mm, {p}), Alive(mm, p), do_fork(p)
  PROVE  /\ OK(mm', {}) /\ work' = Main
         /\ \A q \in Slot : InUse(mm, q) => InUse(mm', q)
<1> DEFINE child == Min({q \in Slot : ~ InUse(mm, q)})
           flags  == [mm.mp_flags EXCEPT ![child] = mm.mp_flags[p]]
           real   == [mm.mp_realuid EXCEPT ![child] = mm.mp_realuid[p]]
           eff    == [mm.mp_effuid EXCEPT ![child] = mm.mp_effuid[p]]
           ignore == [mm.mp_ignore EXCEPT ![child] = mm.mp_ignore[p]]
           catch  == [mm.mp_catch EXCEPT ![child] = mm.mp_catch[p]]
           pids   == [mm.mp_pid EXCEPT ![child] = mm.mp_pid[p]]
           parent == [mm.mp_parent EXCEPT ![child] = p]
           more   == mm.procs_in_use + 1
           copy  == [mm EXCEPT !.procs_in_use = @ + 1,
                               !.mp_flags[child]  = mm.mp_flags[p],
                               !.mp_realuid[child] = mm.mp_realuid[p],
                               !.mp_effuid[child] = mm.mp_effuid[p],
                               !.mp_ignore[child] = mm.mp_ignore[p],
                               !.mp_catch[child]  = mm.mp_catch[p],
                               !.mp_pid[child]    = mm.mp_pid[p],
                               !.mp_parent[child] = p]
           free  == {i \in 1 .. MaxPid - INIT_PROC_NR : Candidate(copy, i) \notin UsedPids(copy)}
           pid   == Candidate(copy, Min(free))
           named == [copy EXCEPT !.next_pid = pid, !.mp_pid[child] = pid]
           told  == tell_fs_fork(sys_fork(named, p, child), child)
<1>1. mm \in Tables /\ p \in Slot
  BY Slots3 DEF OK, Whole, Sane
<1>2. child \in User \ {INIT_PROC_NR} /\ ~ InUse(mm, child) /\ p # child /\ child \in Slot
  <2>1. child \in Slot /\ ~ InUse(mm, child)
    BY <1>1, FreeSlot DEF do_fork, OK, Whole
  <2>2. InUse(mm, MM_PROC_NR) /\ InUse(mm, FS_PROC_NR) /\ InUse(mm, INIT_PROC_NR)
    BY DEF OK, Whole, Sane, InUse, Alive
  <2> HIDE DEF child
  <2> QED
    BY <2>1, <2>2, Slots3 DEF Alive
<1>3. /\ work' = Main /\ mm' = reply(reply(told, child), p)
  BY DEF do_fork, Answer
<1> HIDE DEF child
<1>4. /\ mm.mp_flags \in [Slot -> SUBSET Flag] /\ mm.mp_realuid \in [Slot -> AnyUid]
      /\ mm.mp_effuid \in [Slot -> AnyUid] /\ mm.mp_ignore \in [Slot -> SUBSET Signals]
      /\ mm.mp_catch \in [Slot -> SUBSET Signals] /\ mm.mp_pid \in [Slot -> Pid \cup {0}]
      /\ mm.mp_parent \in [Slot -> Slot] /\ mm.procs_in_use \in Int /\ mm.next_pid \in Pid
  BY <1>1 DEF Tables
<1>5. /\ flags \in [Slot -> SUBSET Flag] /\ real \in [Slot -> AnyUid]
      /\ eff \in [Slot -> AnyUid] /\ ignore \in [Slot -> SUBSET Signals]
      /\ catch \in [Slot -> SUBSET Signals] /\ pids \in [Slot -> Pid \cup {0}]
      /\ parent \in [Slot -> Slot]
  BY <1>1, <1>4
<1>6. /\ flags[child] = mm.mp_flags[p] /\ parent[child] = p /\ pids[child] = mm.mp_pid[p]
      /\ \A q \in Slot : q # child => flags[q] = mm.mp_flags[q] /\ parent[q] = mm.mp_parent[q]
                                      /\ pids[q] = mm.mp_pid[q]
  BY <1>1, <1>2, <1>4
<1>17. copy = [mm EXCEPT !.procs_in_use = more, !.mp_flags = flags, !.mp_realuid = real,
                         !.mp_effuid = eff, !.mp_ignore = ignore, !.mp_catch = catch,
                         !.mp_pid = pids, !.mp_parent = parent]
  BY <1>1 DEF Tables
<1>18. more \in Int /\ more = mm.procs_in_use + 1
  BY <1>4
<1> HIDE DEF flags, real, eff, ignore, catch, pids, parent, more, copy
<1>7. /\ copy \in Tables /\ copy.mp_flags = flags /\ copy.mp_pid = pids /\ copy.mp_parent = parent
      /\ copy.procs_in_use = mm.procs_in_use + 1 /\ copy.user = mm.user
      /\ copy.fp_refs = mm.fp_refs /\ copy.next_pid \in Pid
  BY <1>1, <1>5, <1>17, <1>18 DEF Tables
<1>8. pid \in Pid /\ \A q \in Slot : pids[q] # pid
  <2>1. free # {}
    <3>1. pids[MM_PROC_NR] = 0 /\ pids[FS_PROC_NR] = 0 /\ pids[INIT_PROC_NR] = 0
      BY <1>2, <1>6, Slots3 DEF OK, Whole, Sane
    <3>2. pids[child] = pids[p]
      BY <1>1, <1>2, <1>6
    <3>3. Pid \ {pids[q] : q \in Slot} # {}
      BY <1>2, <1>5, <3>1, <3>2, FreePid
    <3>4. PICK v \in Pid : v \notin {pids[q] : q \in Slot}
      BY <3>3
    <3>5. PICK i \in 1 .. MaxPid - INIT_PROC_NR : Candidate(copy, i) = v
      BY <1>7, Candidates
    <3> QED
      BY <1>7, <3>4, <3>5 DEF UsedPids
  <2>2. free \in SUBSET Nat
    BY PidsAssumption DEF INIT_PROC_NR
  <2>3. Min(free) \in free
    BY <2>1, <2>2, LeastExists
  <2> QED
    BY <1>7, <2>3, Candidates DEF UsedPids
<1> HIDE DEF pid
<1>9. /\ named \in Tables /\ named.mp_flags = flags /\ named.mp_parent = parent
      /\ named.mp_pid[child] = pid /\ \A q \in Slot : q # child => named.mp_pid[q] = pids[q]
      /\ named.procs_in_use = mm.procs_in_use + 1 /\ named.user = mm.user
      /\ named.fp_refs = mm.fp_refs
  <2> DEFINE x == [pids EXCEPT ![child] = pid]
  <2>1. named = [copy EXCEPT !.next_pid = pid, !.mp_pid = x]
    BY <1>7
  <2>2. x \in [Slot -> Pid \cup {0}] /\ x[child] = pid /\ \A q \in Slot : q # child => x[q] = pids[q]
    BY <1>2, <1>5, <1>8
  <2> HIDE DEF x, named
  <2> QED
    BY <1>7, <1>8, <2>1, <2>2 DEF Tables
<1> HIDE DEF named
<1>10. Forked(mm, told, p, child)
  <2> DEFINE u == [named.user EXCEPT ![child] = named.user[p]]
             s == [named.p_pending EXCEPT ![child] = named.p_pending[p]]
             a == [named.p_alarm EXCEPT ![child] = named.p_alarm[p]]
             r == [named.fp_refs EXCEPT ![child] = @ + 1]
             y == sys_fork(named, p, child)
             t == [named EXCEPT !.user = u, !.p_pending = s, !.p_alarm = a, !.fp_refs = r]
  <2>1. told = t
    <3>1. y = [named EXCEPT !.user = u, !.p_pending = s, !.p_alarm = a]
      BY <1>9 DEF sys_fork, Tables
    <3> HIDE DEF y, u, s, a
    <3>2. y.fp_refs = named.fp_refs
      BY <1>9, <3>1 DEF Tables
    <3>3. told = [y EXCEPT !.fp_refs = r]
      BY <3>2 DEF tell_fs_fork, told, y
    <3> HIDE DEF r
    <3> QED
      BY <3>1, <3>3
  <2>2. /\ named.user \in [User -> UserState] /\ named.p_pending \in [Slot -> SUBSET Signals]
        /\ named.p_alarm \in [Slot -> BOOLEAN] /\ named.fp_refs \in [User -> Int]
    BY <1>9 DEF Tables
  <2>3. /\ u \in [User -> UserState] /\ s \in [Slot -> SUBSET Signals] /\ a \in [Slot -> BOOLEAN]
        /\ u[child] = named.user[p] /\ \A q \in User : q # child => u[q] = named.user[q]
    BY <1>1, <1>2, <2>2
  <2>4. /\ r \in [User -> Int] /\ r[child] = named.fp_refs[child] + 1
        /\ \A q \in User : q # child => r[q] = named.fp_refs[q]
    BY <1>2, <2>2
  <2> HIDE DEF u, s, a, r
  <2>5. /\ t \in Tables /\ t.mp_flags = flags /\ t.mp_parent = parent /\ t.mp_pid = named.mp_pid
        /\ t.procs_in_use = named.procs_in_use /\ t.user = u /\ t.fp_refs = r
    BY <1>9, <2>3, <2>4 DEF Tables
  <2> HIDE DEF t
  <2>6. Forked(mm, t, p, child)
    BY <1>2, <1>6, <1>8, <1>9, <2>3, <2>4, <2>5 DEF Forked
  <2> HIDE DEF told
  <2> QED
    BY <2>1, <2>6
<1> HIDE DEF told
<1>11. OK(told, {p} \cup {child}) /\ \A q \in Slot : InUse(told, q) <=> InUse(mm, q) \/ q = child
  BY <1>2, <1>10, ForkedWhole
<1> DEFINE once == reply(told, child)
<1>12. OK(once, {p})
  <2>1. ({p} \cup {child}) \in SUBSET User /\ child \in {p} \cup {child}
    BY <1>2
  <2>2. OK(once, ({p} \cup {child}) \ {child})
    BY <1>2, <1>11, <2>1, ReplyWhole
  <2>3. ({p} \cup {child}) \ {child} = {p}
    BY <1>2
  <2> HIDE DEF once
  <2> QED
    BY <2>2, <2>3
<1>13. once.mp_flags = told.mp_flags
  BY <1>2, <1>10, ReplyEffect DEF SameButUser, Forked
<1> HIDE DEF once
<1>14. OK(reply(once, p), {})
  <2>1. OK(reply(once, p), {p} \ {p})
    BY <1>12, ReplyWhole
  <2>2. {p} \ {p} = {}
    OBVIOUS
  <2> QED
    BY <2>1, <2>2
<1>15. reply(once, p).mp_flags = told.mp_flags
  BY <1>1, <1>12, <1>13, ReplyEffect DEF SameButUser, OK, Whole, Sane
<1>16. mm' = reply(once, p)
  BY <1>3 DEF once
<1> QED
  BY <1>3, <1>11, <1>14, <1>15, <1>16 DEF InUse
-----------------------------------------------------------------------------
(* What MM is doing, and the inductive invariant.                          *)

\* Whose call MM works on.
Callee(w) == IF w.at \in {"call", "check"} THEN {w.who} \cap User ELSE {}

\* A caller is alive when MM takes up its call.  A KSIG is about some signal, and
\* comes from the kernel or from FS.  Only kill(-1) of the superuser is for all,
\* and INIT is never signalled.
WorkOK(m, w) ==
  /\ w \in Work
  /\ w.at = "call" => Alive(m, w.who)
  /\ w.at = "ksig" => w.who \notin User /\ w.SIG_MAP # {}
  /\ w.at = "check" =>
       /\ w.rmp > INIT_PROC_NR /\ w.ksig_id # -1
       /\ w.send_uid = SUPER_USER /\ w.proc_id = -1 => RootKillsAll

IInv == OK(mm, Callee(work)) /\ WorkOK(mm, work)

\* What every step does.
Step == IInv' /\ Reported(mm, mm')

LEMMA IdleWork ==
  ASSUME NEW m, NEW w \in {Main, Blocked, Stuck}
  PROVE  WorkOK(m, w) /\ Callee(w) = {}
BY DEF WorkOK, Callee, Work, Main, Blocked, Stuck

LEMMA ServingWork ==
  ASSUME NEW p \in User
  PROVE  /\ Callee(Serving(p)) = {p} /\ Serving(p).at = "call" /\ Serving(p).who = p
         /\ \A m : Alive(m, p) => WorkOK(m, Serving(p))
BY DEF WorkOK, Callee, Work, Serving

LEMMA KsigWork ==
  ASSUME NEW m, NEW from \in Caller \ User, NEW proc \in Slot, NEW map \in SUBSET Signals,
         map # {}
  PROVE  WorkOK(m, Ksig(from, proc, map)) /\ Callee(Ksig(from, proc, map)) = {}
BY DEF WorkOK, Callee, Work, Ksig

LEMMA CheckWork ==
  ASSUME NEW m, NEW from \in Caller, NEW id \in PidArg, NEW sig \in Signals,
         NEW send_uid \in AnyUid, NEW rmp \in 0 .. NR_PROCS, rmp > INIT_PROC_NR,
         NEW map \in SUBSET Signals, NEW proc_id \in PidArg, proc_id # -1,
         send_uid = SUPER_USER /\ id = -1 => RootKillsAll
  PROVE  LET w == Check(from, id, sig, send_uid, rmp, map, proc_id)
         IN  WorkOK(m, w) /\ Callee(w) = {from} \cap User
BY DEF WorkOK, Callee, Work, Check

\* The next signal of a KSIG.
LEMMA CheckNextWork ==
  ASSUME NEW m, NEW from \in Caller, NEW map \in SUBSET Signals, map # {},
         NEW proc_id \in PidArg, proc_id # -1
  PROVE  LET w == CheckNext(from, map, proc_id) IN WorkOK(m, w) /\ Callee(w) = {from} \cap User
<1>1. Min(map) \in Signals /\ map \ {Min(map)} \in SUBSET Signals
  BY LeastExists, SignalsAssumption
<1>2. KsigId(Min(map), proc_id) \in PidArg /\ KsigId(Min(map), proc_id) # -1
  BY DEF KsigId, PidArg
<1>3. /\ INIT_PROC_NR + 1 \in 0 .. NR_PROCS /\ INIT_PROC_NR + 1 > INIT_PROC_NR
      /\ SUPER_USER \in AnyUid
  BY SlotsAssumption DEF INIT_PROC_NR, AnyUid
<1> DEFINE id == KsigId(Min(map), proc_id)
           sig == Min(map)
           later == map \ {Min(map)}
           rmp == INIT_PROC_NR + 1
<1>4. CheckNext(from, map, proc_id) = Check(from, id, sig, SUPER_USER, rmp, later, proc_id)
  BY DEF CheckNext
<1> HIDE DEF id, sig, later, rmp
<1>5. LET w == Check(from, id, sig, SUPER_USER, rmp, later, proc_id)
      IN  WorkOK(m, w) /\ Callee(w) = {from} \cap User
  <2>1. /\ id \in PidArg /\ id # -1 /\ sig \in Signals /\ later \in SUBSET Signals
        /\ rmp \in 0 .. NR_PROCS /\ rmp > INIT_PROC_NR /\ SUPER_USER \in AnyUid
    BY <1>1, <1>2, <1>3 DEF id, sig, later, rmp
  <2> DEFINE w == Check(from, id, sig, SUPER_USER, rmp, later, proc_id)
  <2>2. w \in Work
    BY <2>1 DEF Work, Check
  <2>3. /\ w.at = "check" /\ w.who = from /\ w.rmp = rmp /\ w.ksig_id = proc_id
        /\ w.proc_id = id
    BY DEF Check
  <2> HIDE DEF w
  <2>4. Callee(w) = {from} \cap User
    BY <2>3 DEF Callee
  <2>5. WorkOK(m, w)
    BY <2>1, <2>2, <2>3 DEF WorkOK
  <2> QED
    BY <2>4, <2>5 DEF w
<1> QED
  BY <1>4, <1>5

\* MM is done.
LEMMA DoneStep ==
  ASSUME OK(mm', {}), work' = Main, Reported(mm, mm')
  PROVE  Step
BY IdleWork DEF Step, IInv

LEMMA AnswerStep ==
  ASSUME NEW p \in User, NEW m, OK(m, {p}), Answer(p, m), \A q \in Slot : InUse(mm, q) => InUse(m, q)
  PROVE  Step
<1>1. OK(mm', {})
  <2>1. OK(reply(m, p), {p} \ {p})
    BY ReplyWhole
  <2>2. {p} \ {p} = {}
    OBVIOUS
  <2> QED
    BY <2>1, <2>2 DEF Answer
<1>2. reply(m, p).mp_flags = m.mp_flags
  BY ReplyEffect, Slots3 DEF SameButUser, OK, Whole, Sane
<1>3. Reported(mm, mm')
  BY <1>2, NobodyFreed DEF Answer, InUse
<1> QED
  BY <1>1, <1>3, DoneStep DEF Answer

\* The work and who lives stay as they are.
LEMMA StayStep ==
  ASSUME IInv, OK(mm', Callee(work)), work' = work,
         \A q \in Slot : (InUse(mm, q) <=> InUse(mm', q)) /\ (Alive(mm, q) <=> Alive(mm', q))
  PROVE  Step
<1>1. WorkOK(mm', work)
  <2>1. WorkOK(mm, work)
    BY DEF IInv
  <2>2. work.at = "call" => work.who \in Slot
    BY <2>1, Slots3 DEF WorkOK, Work, Main, Blocked, Stuck
  <2> QED
    BY <2>1, <2>2 DEF WorkOK
<1>2. Reported(mm, mm')
  BY NobodyFreed
<1> QED
  BY <1>1, <1>2 DEF Step, IInv

\* What holds while MM works on the call of p.
LEMMA ServingFacts ==
  ASSUME IInv, NEW p \in User, work = Serving(p)
  PROVE  OK(mm, {p}) /\ Alive(mm, p) /\ mm \in Tables /\ p \in Slot
BY ServingWork, Slots3 DEF IInv, WorkOK, OK, Whole, Sane
-----------------------------------------------------------------------------
(* The calls.                                                              *)

LEMMA NothingStep ==
  ASSUME IInv, NEW p \in User, do_nothing(p)
  PROVE  Step
BY ServingFacts, AnswerStep DEF do_nothing

LEMMA do_forkStep ==
  ASSUME IInv, NEW p \in User, do_fork(p)
  PROVE  Step
<1>1. OK(mm, {p}) /\ Alive(mm, p)
  BY ServingFacts DEF do_fork
<1>2. OK(mm', {}) /\ work' = Main /\ \A q \in Slot : InUse(mm, q) => InUse(mm', q)
  BY <1>1, ForkStep
<1> QED
  BY <1>2, NobodyFreed, DoneStep

LEMMA do_mm_exitStep ==
  ASSUME IInv, NEW p \in User \ {INIT_PROC_NR}, do_mm_exit(p)
  PROVE  Step
<1> DEFINE t == mm_exit(mm, p)
<1>1. OK(mm, {p}) /\ Alive(mm, p)
  BY ServingFacts DEF do_mm_exit
<1>2. OK(t, {p}) /\ ~ Alive(t, p) /\ Reported(mm, t)
  BY <1>1, ExitWhole DEF Alive
<1>3. mm' = t /\ work' = Main
  BY DEF do_mm_exit, NoAnswer
<1> HIDE DEF t
<1>4. OK(t, {})
  <2>1. \A q \in User : Alive(t, q) => (q \in {} <=> q \in {p})
    BY <1>2
  <2> QED
    BY <1>2, <2>1, OwedDead DEF OK
<1> QED
  BY <1>2, <1>3, <1>4, DoneStep

LEMMA do_waitStep ==
  ASSUME IInv, NEW p \in User, do_wait(p)
  PROVE  Step
<1> DEFINE children == {q \in Slot : InUse(mm, q) /\ mm.mp_parent[q] = p}
           dead     == {q \in children : HANGING \in mm.mp_flags[q]}
<1>1. OK(mm, {p}) /\ Alive(mm, p) /\ mm \in Tables /\ p \in Slot
  BY ServingFacts DEF do_wait
<1>2. CASE dead # {} /\ NoAnswer(cleanup(mm, Min(dead)))
  <2> DEFINE child == Min(dead)
             t == cleanup(mm, child)
  <2>1. child \in Slot /\ InUse(mm, child) /\ mm.mp_parent[child] = p /\ HANGING \in mm.mp_flags[child]
    <3>1. dead \in SUBSET Nat
      BY Slots3
    <3>2. Min(dead) \in dead
      BY <1>2, <3>1, LeastExists
    <3> QED
      BY <3>2
  <2> HIDE DEF child
  <2>2. child \in User \ {INIT_PROC_NR} /\ ~ Alive(mm, child)
    <3>1. HANGING \notin {IN_USE}
      BY Flags
    <3>2. child # MM_PROC_NR /\ child # FS_PROC_NR /\ child # INIT_PROC_NR
      BY <2>1, <3>1, <1>1 DEF OK, Whole, Sane, Alive
    <3> QED
      BY <2>1, <3>2, Slots3 DEF Alive
  <2>3. Whole(t, {p} \ {mm.mp_parent[child]}, {}, {}) /\ Reported(mm, t)
    BY <1>1, <2>1, <2>2, CleanupWhole
  <2>4. {p} \ {mm.mp_parent[child]} = {}
    BY <2>1
  <2>5. mm' = t /\ work' = Main
    BY <1>2 DEF NoAnswer, child
  <2> HIDE DEF t
  <2>6. OK(t, {})
    BY <2>3, <2>4 DEF OK
  <2> QED
    BY <2>3, <2>5, <2>6, DoneStep
<1>3. CASE dead = {} /\ children # {} /\ NoAnswer([mm EXCEPT !.mp_flags[p] = @ \cup {WAITING}])
  <2> DEFINE f == [mm.mp_flags EXCEPT ![p] = @ \cup {WAITING}]
             t == [mm EXCEPT !.mp_flags = f]
  <2>1. /\ f \in [Slot -> SUBSET Flag] /\ f[p] = mm.mp_flags[p] \cup {WAITING}
        /\ \A q \in Slot : q # p => f[q] = mm.mp_flags[q]
    BY <1>1, Flags DEF Tables
  <2> HIDE DEF f
  <2>2. Note(mm, t, p) /\ t.mp_flags[p] = mm.mp_flags[p] \cup {WAITING}
    BY <1>1, <2>1 DEF Note, Tables
  <2>3. mm' = t /\ work' = Main
    BY <1>3 DEF NoAnswer, f
  <2> HIDE DEF t
  <2>4. mm.user[p] = "served" /\ mm.mp_flags[p] \cap {WAITING, PAUSED} = {}
    BY <1>1 DEF OK, Whole, Owed
  <2>5. t.mp_flags[p] \cap {WAITING, PAUSED} # {} /\ ~ {WAITING, PAUSED} \subseteq t.mp_flags[p]
    BY <2>2, <2>4, Flags
  <2>6. Children(mm, p) # {} /\ \A q \in Children(mm, p) : HANGING \notin mm.mp_flags[q]
    BY <1>3 DEF Children
  <2>7. {} \in SUBSET User /\ \A q \in User : q # p => (q \in {} <=> q \in {p})
    OBVIOUS
  <2>8. OK(t, {})
    BY <1>1, <2>2, <2>4, <2>5, <2>6, <2>7, NoteWhole
  <2>9. Reported(mm, t)
    BY <2>2, NoteFlags, NobodyFreed
  <2> QED
    BY <2>3, <2>8, <2>9, DoneStep
<1>4. CASE children = {} /\ Answer(p, mm)
  BY <1>1, <1>4, AnswerStep
<1> QED
  BY <1>2, <1>3, <1>4 DEF do_wait

LEMMA do_pauseStep ==
  ASSUME IInv, NEW p \in User, do_pause(p)
  PROVE  Step
<1> DEFINE f == [mm.mp_flags EXCEPT ![p] = @ \cup {PAUSED}]
           t == [mm EXCEPT !.mp_flags = f]
<1>1. OK(mm, {p}) /\ Alive(mm, p) /\ mm \in Tables /\ p \in Slot
  BY ServingFacts DEF do_pause
<1>2. /\ f \in [Slot -> SUBSET Flag] /\ f[p] = mm.mp_flags[p] \cup {PAUSED}
      /\ \A q \in Slot : q # p => f[q] = mm.mp_flags[q]
  BY <1>1, Flags DEF Tables
<1>3. mm' = t /\ work' = Main
  BY DEF do_pause, NoAnswer
<1> HIDE DEF f
<1>4. Note(mm, t, p) /\ t.mp_flags[p] = mm.mp_flags[p] \cup {PAUSED}
  BY <1>1, <1>2 DEF Note, Tables
<1> HIDE DEF t
<1>5. mm.user[p] = "served" /\ mm.mp_flags[p] \cap {WAITING, PAUSED} = {}
  BY <1>1 DEF OK, Whole, Owed
<1>6. t.mp_flags[p] \cap {WAITING, PAUSED} # {} /\ ~ {WAITING, PAUSED} \subseteq t.mp_flags[p]
  BY <1>4, <1>5, Flags
<1>7. Waiting(t, p) => Waiting(mm, p)
  BY <1>4, Flags DEF Waiting
<1>8. {} \in SUBSET User /\ \A q \in User : q # p => (q \in {} <=> q \in {p})
  OBVIOUS
<1>9. OK(t, {})
  BY <1>1, <1>4, <1>5, <1>6, <1>7, <1>8, NoteWhole
<1>10. Reported(mm, t)
  BY <1>4, NoteFlags, NobodyFreed
<1> QED
  BY <1>3, <1>9, <1>10, DoneStep

\* A call that only changes what the invariant is not about.
LEMMA SameAnswer ==
  ASSUME IInv, NEW p \in User, work = Serving(p), NEW t, t \in Tables, Same(mm, t), Answer(p, t)
  PROVE  Step
<1>1. OK(mm, {p})
  BY ServingFacts
<1>2. OK(t, {p}) /\ \A q \in Slot : InUse(mm, q) => InUse(t, q)
  BY <1>1, SameWhole, SameFlags DEF OK
<1> QED
  BY <1>2, AnswerStep

LEMMA do_alarmStep ==
  ASSUME IInv, NEW p \in User, NEW seconds, do_alarm(p, seconds)
  PROVE  Step
<1>1. work = Serving(p) /\ mm \in Tables
  BY ServingFacts DEF do_alarm
<1> QED
  BY <1>1, AlarmSame, SameAnswer DEF do_alarm

LEMMA do_signalStep ==
  ASSUME IInv, NEW p \in User, NEW sig \in Signals, NEW func, do_signal(p, sig, func)
  PROVE  Step
<1> DEFINE ignored == IF func = "SIG_IGN" THEN mm.mp_ignore[p] \cup {sig}
                      ELSE mm.mp_ignore[p] \ {sig}
           caught  == IF func = "SIG_CATCH" THEN mm.mp_catch[p] \cup {sig}
                      ELSE mm.mp_catch[p] \ {sig}
           t == [mm EXCEPT !.mp_ignore[p] = ignored, !.mp_catch[p] = caught]
<1>1. work = Serving(p) /\ mm \in Tables /\ p \in Slot
  BY ServingFacts DEF do_signal
<1>2. Answer(p, t)
  BY DEF do_signal
<1>3. ignored \in SUBSET Signals /\ caught \in SUBSET Signals
  BY <1>1 DEF Tables
<1> HIDE DEF ignored, caught
<1>4. t \in Tables /\ Same(mm, t)
  BY <1>1, <1>3 DEF Tables, Same
<1> HIDE DEF t
<1> QED
  BY <1>1, <1>2, <1>4, SameAnswer

LEMMA do_setuidStep ==
  ASSUME IInv, NEW p \in User, NEW usr_id \in AnyUid, do_setuid(p, usr_id)
  PROVE  Step
<1> DEFINE t == [mm EXCEPT !.mp_realuid[p] = usr_id, !.mp_effuid[p] = usr_id]
<1>1. work = Serving(p) /\ mm \in Tables /\ p \in Slot
  BY ServingFacts DEF do_setuid
<1>2. Answer(p, t)
  BY DEF do_setuid
<1>3. t \in Tables /\ Same(mm, t)
  BY <1>1 DEF Tables, Same
<1> HIDE DEF t
<1> QED
  BY <1>1, <1>2, <1>3, SameAnswer

LEMMA do_execStep ==
  ASSUME IInv, NEW p \in User, NEW owner \in AnyUid, do_exec(p, owner)
  PROVE  Step
<1> DEFINE u == [mm EXCEPT !.user[p] = "running"]
           t == [mm EXCEPT !.mp_effuid[p] = owner, !.mp_catch[p] = {},
                           !.user[p] = "running", !.p_alarm[p] = FALSE,
                           !.mm_dir = MM_PROC_NR]
<1>1. OK(mm, {p}) /\ Alive(mm, p) /\ mm \in Tables /\ p \in Slot /\ MM_PROC_NR \in Slot
  BY ServingFacts, Slots3 DEF do_exec
<1>2. mm' = t /\ work' = Main
  BY DEF do_exec, NoAnswer
<1>3. OK(u, {})
  <2>1. mm.user[p] = "served" /\ p \in {p} /\ p \notin {}
    BY <1>1 DEF OK, Whole, Owed
  <2>2. /\ "running" \in UserState /\ "running" \notin {"unasked", "free"}
        /\ "running" # "served" /\ mm.user[p] # "free"
    BY <2>1 DEF UserState
  <2>3. {} \in SUBSET User /\ {p} \in SUBSET User /\ \A q \in User : q # p => (q \in {} <=> q \in {p})
    OBVIOUS
  <2> QED
    BY <1>1, <2>1, <2>2, <2>3, UserWhole
<1>4. u \in Tables
  BY <1>3 DEF OK, Whole, Sane
<1>5. t \in Tables
  BY <1>1 DEF Tables, UserState
<1>6. Same(u, t)
  BY <1>1 DEF Tables, Same
<1>7. t.mp_flags = mm.mp_flags
  BY <1>1 DEF Tables
<1> HIDE DEF t, u
<1>8. OK(t, {})
  BY <1>3, <1>5, <1>6, SameWhole DEF OK
<1>9. Reported(mm, t)
  BY <1>7, NobodyFreed DEF InUse
<1> QED
  BY <1>2, <1>8, <1>9, DoneStep

LEMMA do_killStep ==
  ASSUME IInv, NEW p \in User, NEW pid \in PidArg, NEW kill_sig \in Signals,
         do_kill(p, pid, kill_sig)
  PROVE  Step
<1> DEFINE uid == mm.mp_effuid[p]
           rmp == INIT_PROC_NR + 1
           w == Check(p, pid, kill_sig, uid, rmp, {}, 0)
<1>1. OK(mm, {p}) /\ mm \in Tables /\ p \in Slot
  BY ServingFacts DEF do_kill
<1>2. work' = w /\ mm' = mm /\ (uid = SUPER_USER /\ pid = -1 => RootKillsAll)
  BY DEF do_kill
<1>3. /\ uid \in AnyUid /\ rmp \in 0 .. NR_PROCS /\ rmp > INIT_PROC_NR
      /\ p \in Caller /\ {} \in SUBSET Signals /\ 0 \in PidArg /\ 0 # -1
  BY <1>1, SlotsAssumption DEF Tables, INIT_PROC_NR, Caller, PidArg
<1> HIDE DEF uid, rmp
<1>4. w \in Work
  BY <1>3 DEF Work, Check
<1>5. /\ w.at = "check" /\ w.who = p /\ w.rmp = rmp /\ w.ksig_id = 0 /\ w.send_uid = uid
      /\ w.proc_id = pid
  BY DEF Check
<1> HIDE DEF w
<1>6. Callee(w) = {p}
  BY <1>5 DEF Callee
<1>7. WorkOK(mm, w)
  BY <1>2, <1>3, <1>4, <1>5 DEF WorkOK
<1>8. Reported(mm, mm)
  BY NobodyFreed
<1> QED
  BY <1>1, <1>2, <1>6, <1>7, <1>8 DEF Step, IInv
-----------------------------------------------------------------------------
(* The main loop and the signals.                                          *)

\* The kernel tells MM of a signal.
LEMMA InformedEffect ==
  ASSUME NEW m \in Tables, Pending(m) # {}
  PROVE  /\ Informed(m) \in Tables /\ Same(m, Informed(m))
         /\ \A x : WorkOK(x, InformWork(m))
         /\ Callee(InformWork(m)) = {}
<1> DEFINE p == Min(Pending(m))
           s == [m.p_pending EXCEPT ![p] = {}]
           n == m.sig_procs - 1
           t == [m EXCEPT !.p_pending = s, !.sig_procs = n]
<1>1. p \in Slot /\ m.p_pending[p] # {}
  <2>1. Pending(m) \in SUBSET Nat
    BY Slots3 DEF Pending
  <2>2. p \in Pending(m)
    BY <2>1, LeastExists
  <2> QED
    BY <2>2 DEF Pending
<1>2. Informed(m) = t
  BY DEF Informed, Tables
<1>3. InformWork(m) = Ksig(HARDWARE, p, m.p_pending[p])
  BY DEF InformWork
<1> HIDE DEF p
<1>4. s \in [Slot -> SUBSET Signals] /\ n \in Int /\ m.p_pending[p] \in SUBSET Signals
  BY <1>1 DEF Tables
<1> HIDE DEF s, n
<1>5. t \in Tables /\ Same(m, t)
  BY <1>4 DEF Tables, Same
<1>6. HARDWARE \in Caller \ User
  BY Slots3 DEF Caller
<1> DEFINE map == m.p_pending[p]
<1>7. map \in SUBSET Signals /\ map # {}
  BY <1>1, <1>4
<1> HIDE DEF map
<1>8. Callee(Ksig(HARDWARE, p, map)) = {} /\ \A x : WorkOK(x, Ksig(HARDWARE, p, map))
  BY <1>1, <1>6, <1>7, KsigWork
<1> QED
  BY <1>2, <1>3, <1>5, <1>8 DEF map

LEMMA get_workStep ==
  ASSUME IInv, get_work
  PROVE  Step
<1>1. work = Main /\ OK(mm, {}) /\ mm \in Tables
  BY IdleWork DEF get_work, IInv, OK, Whole, Sane
<1>2. CASE \E p \in Callers : mm' = [mm EXCEPT !.user[p] = "served"] /\ work' = Serving(p)
  <2>1. PICK p \in Callers : mm' = [mm EXCEPT !.user[p] = "served"] /\ work' = Serving(p)
    BY <1>2
  <2>2. p \in User /\ mm.user[p] = "calling"
    BY DEF Callers
  <2> DEFINE t == [mm EXCEPT !.user[p] = "served"]
  <2>3. OK(t, {p})
    <3>1. "served" \in UserState /\ "served" \notin {"unasked", "free"}
      BY DEF UserState
    <3>2. {p} \in SUBSET User /\ {} \in SUBSET User /\ p \in {p}
          /\ \A q \in User : q # p => (q \in {p} <=> q \in {})
      BY <2>2
    <3>3. mm.user[p] # "free" /\ mm.user[p] # "served"
      BY <2>2
    <3> QED
      BY <1>1, <2>2, <3>1, <3>2, <3>3, UserWhole
  <2>4. t.user[p] = "served" /\ t.mp_flags = mm.mp_flags
    BY <1>1, <2>2 DEF Tables
  <2>5. mm' = t
    BY <2>1
  <2> HIDE DEF t
  <2>6. Alive(t, p)
    BY <2>2, <2>3, <2>4 DEF OK, Whole, Known
  <2>7. Reported(mm, t)
    BY <2>4, NobodyFreed DEF InUse
  <2> QED
    BY <2>1, <2>2, <2>3, <2>5, <2>6, <2>7, ServingWork DEF Step, IInv
<1>3. CASE Pending(mm) # {} /\ mm' = Informed(mm) /\ work' = InformWork(mm)
  <2>1. mm' \in Tables /\ Same(mm, mm') /\ WorkOK(mm', work') /\ Callee(work') = {}
    BY <1>1, <1>3, InformedEffect
  <2>2. OK(mm', {}) /\ Reported(mm, mm')
    BY <1>1, <2>1, SameWhole, SameFlags, NobodyFreed DEF OK
  <2> QED
    BY <2>1, <2>2 DEF Step, IInv
<1>4. CASE work' = Blocked /\ mm' = mm
  BY <1>1, <1>4, IdleWork, NobodyFreed DEF Step, IInv
<1> QED
  BY <1>2, <1>3, <1>4 DEF get_work

LEMMA do_ksigStep ==
  ASSUME IInv, do_ksig
  PROVE  Step
<1>1. /\ work.at = "ksig" /\ mm' = mm /\ WorkOK(mm, work) /\ OK(mm, {}) /\ mm \in Tables
  BY DEF do_ksig, IInv, Callee, OK, Whole, Sane
<1>2. /\ work.who \in Caller \ User /\ work.SIG_MAP \in SUBSET Signals /\ work.SIG_MAP # {}
      /\ work.PROC1 \in Slot
  BY <1>1 DEF WorkOK, Work, Main, Blocked, Stuck
<1>3. Reported(mm, mm)
  BY NobodyFreed
<1>4. CASE work' = CheckNext(work.who, work.SIG_MAP, mm.mp_pid[work.PROC1])
  <2> DEFINE from == work.who
             map == work.SIG_MAP
             pid == mm.mp_pid[work.PROC1]
  <2>1. pid \in PidArg /\ pid # -1
    BY <1>1, <1>2, PidsAssumption DEF Tables, PidArg, Pid, INIT_PROC_NR
  <2>2. from \in Caller /\ map \in SUBSET Signals /\ map # {} /\ {from} \cap User = {}
    BY <1>2
  <2>3. work' = CheckNext(from, map, pid)
    BY <1>4
  <2> HIDE DEF from, map, pid
  <2>4. WorkOK(mm, work') /\ Callee(work') = {}
    BY <2>1, <2>2, <2>3, CheckNextWork
  <2> QED
    BY <1>1, <1>3, <2>4 DEF Step, IInv
<1>5. CASE work' \in {Main, Stuck}
  BY <1>1, <1>3, <1>5, IdleWork DEF Step, IInv
<1> QED
  BY <1>4, <1>5 DEF do_ksig

\* The loop of check_sig() goes on.
LEMMA LoopWork ==
  ASSUME NEW m, NEW w, WorkOK(m, w), w.at = "check", NEW r \in 0 .. NR_PROCS, r > INIT_PROC_NR
  PROVE  LET n == [w EXCEPT !.rmp = r] IN Callee(n) = Callee(w) /\ \A t : WorkOK(t, n)
<1> DEFINE n == [w EXCEPT !.rmp = r]
<1>1. w \in [at : {"check"}, who : Caller, proc_id : PidArg, sig_nr : Signals, send_uid : AnyUid,
             rmp : 0 .. NR_PROCS, sig_map : SUBSET Signals, ksig_id : PidArg]
  BY DEF WorkOK, Work, Main, Blocked, Stuck
<1>2. n \in Work
  BY <1>1 DEF Work
<1>3. /\ n.at = "check" /\ n.who = w.who /\ n.rmp = r /\ n.ksig_id = w.ksig_id
      /\ n.send_uid = w.send_uid /\ n.proc_id = w.proc_id
  BY <1>1
<1> HIDE DEF n
<1>4. Callee(n) = Callee(w)
  BY <1>3 DEF Callee
<1>5. \A t : WorkOK(t, n)
  BY <1>2, <1>3 DEF WorkOK
<1> QED
  BY <1>4, <1>5 DEF n

LEMMA check_sigStep ==
  ASSUME IInv, NEW grown \in BOOLEAN, NEW released \in BOOLEAN, check_sig(grown, released)
  PROVE  Step
<1> DEFINE p == work.rmp
           W == Callee(work)
           sig_nr == work.sig_nr
           alarmed == IF sig_nr = SIGALRM
                      THEN [mm EXCEPT !.mp_flags[p] = @ \ {ALARM_ON}] ELSE mm
           s == sig_proc(alarmed, p, sig_nr, grown)
           t == unpause(s, p, released)
           next == [work EXCEPT !.rmp = p + 1]
<1>1. /\ work.at = "check" /\ WorkOK(mm, work) /\ OK(mm, W) /\ mm \in Tables
      /\ W \in SUBSET User
  BY DEF check_sig, IInv, Callee, OK, Whole, Sane
<1>2. p \in User \ {INIT_PROC_NR} /\ p \in Slot /\ p + 1 \in 0 .. NR_PROCS /\ p + 1 > INIT_PROC_NR
  <2>1. p \in 0 .. NR_PROCS /\ p > INIT_PROC_NR /\ p < NR_PROCS
    BY <1>1 DEF check_sig, WorkOK, Work, Main, Blocked, Stuck
  <2> QED
    BY <2>1, SlotsAssumption DEF User, Slot, INIT_PROC_NR
<1>3. /\ Callee(next) = W /\ \A x : WorkOK(x, next)
      /\ Callee([work EXCEPT !.rmp = NR_PROCS]) = W
      /\ \A x : WorkOK(x, [work EXCEPT !.rmp = NR_PROCS])
  <2>1. NR_PROCS \in 0 .. NR_PROCS /\ NR_PROCS > INIT_PROC_NR
    BY SlotsAssumption DEF INIT_PROC_NR
  <2> HIDE DEF p
  <2> QED
    BY <1>1, <1>2, <2>1, LoopWork
<1>4. \/ work' = next /\ mm' = mm
      \/ work' = next /\ mm' = alarmed
      \/ /\ InUse(mm, p) /\ SendSig(p) /\ mm' = t
         /\ work' \in {next, [work EXCEPT !.rmp = NR_PROCS]}
  BY DEF check_sig
<1>5. SendSig(p) /\ InUse(mm, p) => RootKillsAll \/ Alive(mm, p)
  BY <1>1 DEF SendSig, WorkOK, Alive
<1> HIDE DEF p, W, next
<1>6. alarmed \in Tables /\ Same(mm, alarmed)
  <2>1. Same(mm, mm)
    BY DEF Same
  <2> QED
    BY <1>1, <1>2, <2>1, SilentSame
<1> HIDE DEF alarmed
<1>7. OK(alarmed, W) /\ \A q \in Slot : (InUse(alarmed, q) <=> InUse(mm, q))
                                        /\ (Alive(alarmed, q) <=> Alive(mm, q))
  BY <1>1, <1>6, SameWhole, SameFlags DEF OK
<1>8. CASE work' = next /\ mm' = mm
  BY <1>1, <1>3, <1>8, NobodyFreed DEF Step, IInv
<1>9. CASE work' = next /\ mm' = alarmed
  BY <1>3, <1>7, <1>9, NobodyFreed DEF Step, IInv
<1>10. CASE InUse(mm, p) /\ SendSig(p) /\ mm' = t /\ work' \in {next, [work EXCEPT !.rmp = NR_PROCS]}
  <2>1. InUse(alarmed, p) /\ (RootKillsAll \/ Alive(alarmed, p))
    BY <1>2, <1>5, <1>7, <1>10
  <2>2. OK(s, W) /\ Reported(alarmed, s) /\ (Alive(s, p) => Freed(alarmed, s) = {})
    BY <1>1, <1>2, <1>7, <2>1, SigProcWhole
  <2> HIDE DEF s
  <2>3. /\ OK(t, W) /\ \A q \in Slot : InUse(t, q) <=> InUse(s, q)
        /\ ~ Alive(s, p) => t.user = s.user
    BY <1>1, <1>2, <2>2, UnpauseWhole
  <2> HIDE DEF t
  <2>4. Freed(alarmed, t) = Freed(alarmed, s)
    BY <2>3, Slots3 DEF Freed
  <2>5. Reported(alarmed, t)
    <3>1. CASE Alive(s, p)
      BY <2>2, <2>4, <3>1 DEF Reported
    <3>2. CASE ~ Alive(s, p)
      <4>1. \A q \in Freed(alarmed, s) : ReaperOf(alarmed, t, q) = ReaperOf(alarmed, s, q)
        <5>1. \A q \in Freed(alarmed, s) : alarmed.mp_parent[q] \in Slot
          BY <1>6, Slots3 DEF Freed, Tables
        <5> QED
          BY <2>3, <5>1 DEF ReaperOf
      <4> QED
        BY <2>2, <2>3, <2>4, <3>2, <4>1 DEF Reported
    <3> QED
      BY <3>1, <3>2
  <2>6. Reported(mm, t)
    BY <1>1, <1>6, <2>5, ReportedSame
  <2>7. Callee(work') = W /\ WorkOK(mm', work')
    BY <1>3, <1>10
  <2> QED
    BY <1>10, <2>3, <2>6, <2>7 DEF Step, IInv
<1> QED
  BY <1>4, <1>8, <1>9, <1>10

LEMMA check_sig_endStep ==
  ASSUME IInv, check_sig_end
  PROVE  Step
<1> DEFINE W == Callee(work)
<1>1. /\ work.at = "check" /\ WorkOK(mm, work) /\ OK(mm, W) /\ mm \in Tables
      /\ W = {work.who} \cap User
  BY DEF check_sig_end, IInv, Callee, OK, Whole, Sane
<1>2. /\ work.who \in Caller /\ work.sig_map \in SUBSET Signals /\ work.ksig_id \in PidArg
      /\ work.ksig_id # -1
  BY <1>1 DEF WorkOK, Work, Main, Blocked, Stuck
<1> HIDE DEF W
<1>3. CASE work.sig_map # {} /\ mm' = mm
           /\ work' = CheckNext(work.who, work.sig_map, work.ksig_id)
  <2>1. WorkOK(mm, work') /\ Callee(work') = {work.who} \cap User
    <3> DEFINE from == work.who
               map == work.sig_map
               id == work.ksig_id
    <3>1. from \in Caller /\ map \in SUBSET Signals /\ map # {} /\ id \in PidArg /\ id # -1
      BY <1>2, <1>3
    <3>2. work' = CheckNext(from, map, id)
      BY <1>3
    <3> HIDE DEF from, map, id
    <3>3. WorkOK(mm, work') /\ Callee(work') = {from} \cap User
      BY <3>1, <3>2, CheckNextWork
    <3> QED
      BY <3>3 DEF from
  <2> QED
    BY <1>1, <1>3, <2>1, NobodyFreed DEF Step, IInv
<1>4. CASE work' = Main /\ work.who \in User /\ Alive(mm, work.who) /\ mm' = reply(mm, work.who)
  <2>1. W = {work.who}
    BY <1>1, <1>4
  <2> DEFINE p == work.who
  <2>2. p \in User /\ OK(mm, {p}) /\ mm' = reply(mm, p) /\ work' = Main
    BY <1>1, <1>4, <2>1
  <2> HIDE DEF p
  <2>3. \A q \in Slot : InUse(mm, q) => InUse(mm, q)
    OBVIOUS
  <2> QED
    BY <2>2, <2>3, AnswerStep DEF Answer
<1>5. CASE work' = Main /\ ~ (work.who \in User /\ Alive(mm, work.who)) /\ mm' = mm
  <2>1. \A q \in User : Alive(mm, q) => (q \in {} <=> q \in W)
    BY <1>1, <1>5
  <2>2. OK(mm, {})
    BY <1>1, <2>1, OwedDead DEF OK
  <2> QED
    BY <1>5, <2>2, NobodyFreed, DoneStep
<1> QED
  BY <1>3, <1>4, <1>5 DEF check_sig_end
-----------------------------------------------------------------------------
(* The others.                                                             *)

\* A user that is not served goes on to s, and MM does not notice.
LEMMA UserStep ==
  ASSUME IInv, NEW p \in User, NEW s \in UserState, mm.user[p] \notin {"free", "served"},
         s \notin {"unasked", "free", "served"}, mm' = [mm EXCEPT !.user[p] = s], work' = work
  PROVE  Step
<1> DEFINE W == Callee(work)
           t == [mm EXCEPT !.user[p] = s]
<1>1. OK(mm, W) /\ mm \in Tables /\ W \in SUBSET User
  BY DEF IInv, OK, Whole, Sane, Callee
<1> HIDE DEF W
<1>2. p \notin W
  BY <1>1 DEF OK, Whole, Known, Owed
<1>3. OK(t, W)
  BY <1>1, <1>2, UserWhole
<1>4. t.mp_flags = mm.mp_flags
  BY <1>1 DEF Tables
<1> HIDE DEF t
<1>5. mm' = t
  BY DEF t
<1> QED
  BY <1>3, <1>4, <1>5, StayStep DEF W, InUse, Alive

LEMMA user_callStep ==
  ASSUME IInv, NEW p \in User, user_call(p)
  PROVE  Step
<1>1. mm.user[p] = "running" /\ mm \in Tables
  BY DEF user_call, IInv, OK, Whole, Sane
<1>2. CASE work = Blocked /\ mm' = [mm EXCEPT !.user[p] = "served"] /\ work' = Serving(p)
  <2> DEFINE t == [mm EXCEPT !.user[p] = "served"]
  <2>1. OK(mm, {})
    BY <1>2, IdleWork DEF IInv
  <2>2. OK(t, {p})
    <3>1. "served" \in UserState /\ "served" \notin {"unasked", "free"}
      BY DEF UserState
    <3>2. {p} \in SUBSET User /\ {} \in SUBSET User /\ p \in {p}
          /\ \A q \in User : q # p => (q \in {p} <=> q \in {})
      OBVIOUS
    <3>3. mm.user[p] # "free" /\ mm.user[p] # "served"
      BY <1>1
    <3> QED
      BY <2>1, <3>1, <3>2, <3>3, UserWhole
  <2>3. t.user[p] = "served" /\ t.mp_flags = mm.mp_flags
    BY <1>1 DEF Tables
  <2>4. mm' = t
    BY <1>2
  <2> HIDE DEF t
  <2>5. Alive(t, p)
    BY <2>2, <2>3 DEF OK, Whole, Known
  <2>6. Reported(mm, t)
    BY <2>3, NobodyFreed DEF InUse
  <2> QED
    BY <1>2, <2>2, <2>4, <2>5, <2>6, ServingWork DEF Step, IInv
<1>3. CASE mm' = [mm EXCEPT !.user[p] = "calling"] /\ work' = work
  BY <1>1, <1>3, UserStep DEF UserState
<1> QED
  BY <1>2, <1>3 DEF user_call

LEMMA fs_callStep ==
  ASSUME IInv, NEW p \in User, fs_call(p) \/ fs_reply(p)
  PROVE  Step
BY UserStep DEF fs_call, fs_reply, UserState

LEMMA fs_sigpipeStep ==
  ASSUME IInv, NEW p \in User \ {INIT_PROC_NR}, fs_sigpipe(p)
  PROVE  Step
<1>1. /\ work = Blocked /\ work' = Ksig(FS_PROC_NR, p, {SIGPIPE}) /\ mm' = mm
      /\ SIGPIPE \in Signals
  BY DEF fs_sigpipe
<1>2. OK(mm, {})
  BY <1>1, IdleWork DEF IInv
<1> DEFINE map == {SIGPIPE}
<1>3. FS_PROC_NR \in Caller \ User /\ p \in Slot /\ map \in SUBSET Signals /\ map # {}
  BY <1>1, Slots3 DEF Caller
<1>4. work' = Ksig(FS_PROC_NR, p, map)
  BY <1>1
<1> HIDE DEF map
<1>5. WorkOK(mm, work') /\ Callee(work') = {}
  BY <1>3, <1>4, KsigWork
<1> QED
  BY <1>1, <1>2, <1>5, NobodyFreed DEF Step, IInv

LEMMA cause_sigStep ==
  ASSUME IInv, NEW m, m \in Tables, Same(mm, m), NEW p \in Slot, NEW sig \in Signals,
         cause_sig(m, p, sig)
  PROVE  Step
<1> DEFINE s == [m.p_pending EXCEPT ![p] = @ \cup {sig}]
           n == IF m.p_pending[p] = {} THEN m.sig_procs + 1 ELSE m.sig_procs
           caused == [m EXCEPT !.p_pending = s, !.sig_procs = n]
<1>1. \/ work = Blocked /\ mm' = Informed(caused) /\ work' = InformWork(caused)
      \/ mm' = caused /\ work' = work
  <2>1. caused = [m EXCEPT !.p_pending[p] = @ \cup {sig},
                           !.sig_procs = IF m.p_pending[p] = {} THEN @ + 1 ELSE @]
    BY DEF Tables
  <2> HIDE DEF caused
  <2> QED
    BY <2>1 DEF cause_sig
<1>2. s \in [Slot -> SUBSET Signals] /\ n \in Int /\ s[p] # {}
  <2>1. m.p_pending \in [Slot -> SUBSET Signals] /\ m.sig_procs \in Int
    BY DEF Tables
  <2>2. s[p] = m.p_pending[p] \cup {sig}
    BY <2>1
  <2> QED
    BY <2>1, <2>2
<1> HIDE DEF s, n
<1>3. caused \in Tables /\ Same(mm, caused) /\ caused.p_pending = s
  BY <1>2 DEF Tables, Same
<1>4. Pending(caused) # {}
  BY <1>2, <1>3 DEF Pending
<1> HIDE DEF caused
<1>5. CASE work = Blocked /\ mm' = Informed(caused) /\ work' = InformWork(caused)
  <2>1. OK(mm, {})
    BY <1>5, IdleWork DEF IInv
  <2>2. mm' \in Tables /\ Same(caused, mm') /\ WorkOK(mm', work') /\ Callee(work') = {}
    BY <1>3, <1>4, <1>5, InformedEffect
  <2>3. OK(mm', {})
    BY <1>3, <2>1, <2>2, SameWhole DEF OK
  <2>4. \A q \in Slot : InUse(mm, q) => InUse(mm', q)
    BY <1>3, <2>2, SameFlags
  <2> QED
    BY <2>2, <2>3, <2>4, NobodyFreed DEF Step, IInv
<1>6. CASE mm' = caused /\ work' = work
  <2>1. OK(mm', Callee(work))
    BY <1>3, <1>6, SameWhole DEF OK, IInv
  <2>2. \A q \in Slot : (InUse(mm, q) <=> InUse(mm', q)) /\ (Alive(mm, q) <=> Alive(mm', q))
    BY <1>3, <1>6, SameFlags
  <2> QED
    BY <1>6, <2>1, <2>2, StayStep
<1> QED
  BY <1>1, <1>5, <1>6

LEMMA tty_signalStep ==
  ASSUME IInv, NEW p \in Ttys, NEW sig \in Signals, tty_signal(p, sig)
  PROVE  Step
<1>1. mm \in Tables /\ Same(mm, mm) /\ p \in Slot
  BY SignalsAssumption DEF IInv, OK, Whole, Sane, Same
<1> QED
  BY <1>1, cause_sigStep DEF tty_signal

LEMMA timer_expiresStep ==
  ASSUME IInv, NEW p \in Slot, timer_expires(p)
  PROVE  Step
<1> DEFINE m == [mm EXCEPT !.p_alarm[p] = FALSE]
<1>1. mm \in Tables
  BY DEF IInv, OK, Whole, Sane
<1>2. m \in Tables /\ Same(mm, m)
  BY <1>1 DEF Tables, Same
<1>3. SIGALRM \in Signals /\ cause_sig(m, p, SIGALRM)
  BY DEF timer_expires
<1> HIDE DEF m
<1> QED
  BY <1>2, <1>3, cause_sigStep
-----------------------------------------------------------------------------
(* The invariant.                                                          *)

LEMMA InvariantInit ==
  ASSUME Init
  PROVE  IInv
<1>1. /\ \A p \in Slot : mm.mp_flags[p] = IF p <= INIT_PROC_NR THEN {IN_USE} ELSE {}
      /\ \A p \in Slot : mm.mp_parent[p] = MM_PROC_NR /\ mm.mp_pid[p] = 0
      /\ mm.procs_in_use = 3
      /\ \A p \in User : /\ mm.user[p] = IF p = INIT_PROC_NR THEN "running" ELSE "free"
                         /\ mm.fp_refs[p] = IF p = INIT_PROC_NR THEN 1 ELSE 0
  BY DEF Init
<1>2. mm \in Tables
  <2>1. /\ IN_USE \in Flag /\ MM_PROC_NR \in Slot /\ SUPER_USER \in AnyUid
        /\ INIT_PROC_NR + 1 \in Pid /\ "running" \in UserState /\ "free" \in UserState
    BY Flags, Slots3, PidsAssumption DEF AnyUid, UserState, Pid, INIT_PROC_NR
  <2>2. [p \in Slot |-> IF p <= INIT_PROC_NR THEN {IN_USE} ELSE {}] \in [Slot -> SUBSET Flag]
    BY <2>1
  <2>3. [p \in User |-> IF p = INIT_PROC_NR THEN "running" ELSE "free"] \in [User -> UserState]
    BY <2>1
  <2>4. [p \in User |-> IF p = INIT_PROC_NR THEN 1 ELSE 0] \in [User -> Int]
    OBVIOUS
  <2> QED
    BY <2>1, <2>2, <2>3, <2>4 DEF Init, Tables
<1>3. \A p \in Slot : /\ InUse(mm, p) <=> p \in {MM_PROC_NR, FS_PROC_NR, INIT_PROC_NR}
                      /\ Alive(mm, p) <=> p \in {MM_PROC_NR, FS_PROC_NR, INIT_PROC_NR}
                      /\ HANGING \notin mm.mp_flags[p]
                      /\ WAITING \notin mm.mp_flags[p] /\ PAUSED \notin mm.mp_flags[p]
  <2>1. \A p \in Slot : p <= INIT_PROC_NR <=> p \in {MM_PROC_NR, FS_PROC_NR, INIT_PROC_NR}
    BY SlotsAssumption DEF Slot, MM_PROC_NR, FS_PROC_NR, INIT_PROC_NR
  <2> QED
    BY <1>1, <2>1, Flags DEF InUse, Alive
<1>4. Sane(mm)
  <2>1. MM_PROC_NR <= INIT_PROC_NR /\ FS_PROC_NR <= INIT_PROC_NR
    BY DEF MM_PROC_NR, FS_PROC_NR, INIT_PROC_NR
  <2> QED
    BY <1>1, <1>2, <1>3, <2>1, Slots3 DEF Sane
<1>5. Counted(mm)
  <2>1. SlotsInUse(mm) = MM_PROC_NR .. INIT_PROC_NR
    <3>1. SlotsInUse(mm) = {MM_PROC_NR, FS_PROC_NR, INIT_PROC_NR}
      BY <1>3, Slots3 DEF SlotsInUse
    <3>2. MM_PROC_NR .. INIT_PROC_NR = {MM_PROC_NR, FS_PROC_NR, INIT_PROC_NR}
      BY DEF MM_PROC_NR, FS_PROC_NR, INIT_PROC_NR
    <3> QED
      BY <3>1, <3>2
  <2>2. Cardinality(MM_PROC_NR .. INIT_PROC_NR) = 3
    <3>1. \A a, b \in Int : Cardinality(a .. b) = IF a > b THEN 0 ELSE b - a + 1
      BY FS_Interval
    <3>2. MM_PROC_NR \in Int /\ INIT_PROC_NR \in Int /\ ~ MM_PROC_NR > INIT_PROC_NR
          /\ INIT_PROC_NR - MM_PROC_NR + 1 = 3
      BY DEF MM_PROC_NR, INIT_PROC_NR
    <3> QED
      BY <3>1, <3>2, Zenon
  <2> QED
    BY <1>1, <2>1, <2>2 DEF Counted
<1>6. \A p \in User : /\ InUse(mm, p) <=> p = INIT_PROC_NR
                      /\ Alive(mm, p) <=> p = INIT_PROC_NR
                      /\ ~ Waiting(mm, p) /\ mm.mp_flags[p] \cap {WAITING, PAUSED} = {}
  BY <1>3, Slots3 DEF Waiting
<1>7. Unique(mm) /\ Descends(mm)
  BY <1>6 DEF Unique, Descends
<1>8. Known(mm, {})
  BY <1>1, <1>6 DEF Known
<1>9. Owed(mm, {})
  BY <1>1, <1>6 DEF Owed
<1>10. Wakes(mm, {})
  BY <1>6 DEF Wakes
<1>11. work = Blocked
  BY DEF Init
<1> QED
  BY <1>4, <1>5, <1>7, <1>8, <1>9, <1>10, <1>11, IdleWork DEF IInv, OK, Whole

LEMMA InvariantNext ==
  ASSUME IInv, [Next]_vars
  PROVE  IInv' /\ [Reported(mm, mm')]_vars
<1>1. ASSUME NEW p \in User, do_nothing(p) \/ do_fork(p) \/ do_wait(p)
      PROVE  Step
  BY <1>1, NothingStep, do_forkStep, do_waitStep
<1>2. ASSUME InitCall PROVE Step
  BY <1>1, <1>2, Slots3 DEF InitCall
<1>3. ASSUME NEW p \in User \ {INIT_PROC_NR}, Call(p) PROVE Step
  <2>1. CASE do_nothing(p) \/ do_fork(p) \/ do_wait(p)
    BY <1>1, <2>1
  <2>2. CASE do_mm_exit(p)
    BY <2>2, do_mm_exitStep
  <2>3. CASE do_pause(p)
    BY <2>3, do_pauseStep
  <2>4. CASE \E seconds \in {0, 1} : do_alarm(p, seconds)
    BY <2>4, do_alarmStep
  <2>5. CASE \E sig \in Signals, func \in {"SIG_IGN", "SIG_DFL", "SIG_CATCH"} :
               do_signal(p, sig, func)
    BY <2>5, do_signalStep
  <2>6. CASE \E usr_id \in AnyUid : do_setuid(p, usr_id)
    BY <2>6, do_setuidStep
  <2>7. CASE \E owner \in AnyUid : do_exec(p, owner)
    BY <2>7, do_execStep
  <2>8. CASE \E pid \in PidArg, kill_sig \in Signals : do_kill(p, pid, kill_sig)
    BY <2>8, do_killStep
  <2> QED
    BY <1>3, <2>1, <2>2, <2>3, <2>4, <2>5, <2>6, <2>7, <2>8 DEF Call
<1>4. ASSUME MMStep PROVE Step
  BY <1>2, <1>3, <1>4, get_workStep, do_ksigStep, check_sigStep, check_sig_endStep DEF MMStep
<1>5. ASSUME NEW p \in User, user_call(p) \/ fs_call(p) \/ fs_reply(p)
      PROVE  Step
  BY <1>5, user_callStep, fs_callStep
<1>6. ASSUME Next PROVE Step
  BY <1>4, <1>5, <1>6, fs_sigpipeStep, tty_signalStep, timer_expiresStep DEF Next
<1>7. CASE UNCHANGED vars
  <2>1. mm' = mm /\ work' = work
    BY <1>7 DEF vars
  <2> QED
    BY <1>7, <2>1 DEF IInv, OK, Whole, Sane, Counted, Unique, Descends, Known, Owed, Wakes,
                      WorkOK, Callee
<1> QED
  BY <1>6, <1>7 DEF Step
-----------------------------------------------------------------------------
(* The theorems.                                                           *)

\* Every step keeps the invariant and reports the deaths it makes known.
THEOREM Invariant == Spec => []IInv /\ [][Reported(mm, mm')]_vars
<1>1. IInv /\ [Next]_vars => IInv'
  BY InvariantNext
<1>2. IInv /\ [Next]_vars => [Reported(mm, mm')]_vars
  BY InvariantNext
<1>3. Init => IInv
  BY InvariantInit
<1> QED
  BY <1>1, <1>2, <1>3, PTL DEF Spec

\* The tables keep their form, whatever is forked, signalled and killed.
THEOREM TypesRight == Spec => []TypeOK
<1>1. IInv => TypeOK
  BY DEF IInv, OK, Whole, Sane, WorkOK, TypeOK
<1> QED
  BY <1>1, Invariant, PTL

LEMMA Domains ==
  ASSUME IInv
  PROVE  Slots = Slot /\ Users = User
BY DEF IInv, OK, Whole, Sane, Tables, Slots, Users

\* procs_in_use counts the slots in use, so that do_fork() finds a free one.
THEOREM CountRight == Spec => []SlotsCounted
<1>1. IInv => SlotsCounted
  BY Domains DEF IInv, OK, Whole, Counted, SlotsInUse, SlotsCounted
<1> QED
  BY <1>1, Invariant, PTL

\* No pid is given twice: there are more pids than slots, and do_fork() tries all.
THEOREM PidsRight == Spec => []PidsUnique
<1>1. IInv => PidsUnique
  BY Domains DEF IInv, OK, Whole, Unique, PidsUnique
<1> QED
  BY <1>1, Invariant, PTL

\* MM, the kernel and FS agree on who is alive, if no dead process is killed again.
THEOREM TablesRight == ~ RootKillsAll => (Spec => []TablesAgree)
<1> SUFFICES ASSUME ~ RootKillsAll PROVE Spec => []TablesAgree
  OBVIOUS
<1>1. IInv => TablesAgree
  BY Domains DEF IInv, OK, Whole, Known, TablesAgree
<1> QED
  BY <1>1, Invariant, PTL

\* A process is blocked on MM exactly as long as MM owes it an answer.
THEOREM NobodyForgotten == Spec => []BlockedIffOwed
<1>1. IInv => BlockedIffOwed
  <2> SUFFICES ASSUME IInv, NEW p \in User
               PROVE  /\ mm.user[p] # "unasked"
                      /\ Alive(mm, p) =>
                           ( mm.user[p] = "served"
                               <=> \/ mm.mp_flags[p] \cap {WAITING, PAUSED} # {}
                                   \/ work.at \in {"call", "check"} /\ work.who = p )
    BY Domains DEF BlockedIffOwed
  <2>1. p \in Callee(work) <=> work.at \in {"call", "check"} /\ work.who = p
    BY DEF Callee
  <2> QED
    BY <2>1 DEF IInv, OK, Whole, Owed
<1> QED
  BY <1>1, Invariant, PTL

\* The family of INIT is a tree, and whoever waits has a child to wait for and no dead
\* one, through the recursion of cleanup() too.
THEOREM FamilyRight == Spec => []FamilyWhole
<1>1. IInv => DescendsFromInit
  BY Domains DEF IInv, OK, Whole, Descends, DescendsFromInit
<1>2. IInv => WaitWillEnd
  BY Domains DEF IInv, OK, Whole, Wakes, Children, WaitWillEnd, Zombie
<1> QED
  BY <1>1, <1>2, Invariant, PTL DEF FamilyWhole

\* A process that leaves the table is reported to its parent, or to INIT if the parent
\* leaves with it, by one answer to a WAIT.
THEOREM DeathsTold == Spec => DeathsReported
<1>1. IInv /\ [Reported(mm, mm')]_vars => [OneIsTold]_vars
  <2> SUFFICES ASSUME IInv, Reported(mm, mm') PROVE OneIsTold
    OBVIOUS
  <2>1. Users = User
    BY Domains
  <2>2. \A p : Reaper(p) = ReaperOf(mm, mm', p)
    BY DEF Reaper, ReaperOf
  <2> QED
    BY <2>1, <2>2 DEF Reported, Freed, OneIsTold
<1> QED
  BY <1>1, Invariant, PTL DEF DeathsReported
=============================================================================
