---------------------------- MODULE Proc_proofs -----------------------------
(***************************************************************************)
(* Lemmas about the routines of module Proc: what each of them does to the *)
(* tables and lists of a kernel state.                                     *)
(***************************************************************************)
EXTENDS Proc, SequenceTheorems, WellFoundedInduction, TLAPS

-----------------------------------------------------------------------------
(* Lists of processes.                                                     *)

\* ready() appends: the list gains just that element and keeps its head.
LEMMA AppendList ==
  ASSUME NEW S, NEW s \in Seq(S), NEW e \in S
  PROVE  /\ Append(s, e) \in Seq(S)
         /\ Append(s, e) # <<>>
         /\ \A x : Contains(Append(s, e), x) <=> Contains(s, x) \/ x = e
         /\ s # <<>> => Head(Append(s, e)) = Head(s)
         /\ IsInjective(s) /\ ~ Contains(s, e) => IsInjective(Append(s, e))
  BY DEF Contains, IsInjective

\* unready() and sched() take the head off.
LEMMA TailList ==
  ASSUME NEW S, NEW s \in Seq(S), s # <<>>
  PROVE  /\ Head(s) \in S
         /\ Tail(s) \in Seq(S)
         /\ Contains(s, Head(s))
         /\ \A x : Contains(Tail(s), x) => Contains(s, x)
         /\ \A x : Contains(s, x) => Contains(Tail(s), x) \/ x = Head(s)
         /\ IsInjective(s) => IsInjective(Tail(s)) /\ ~ Contains(Tail(s), Head(s))
<1>1. /\ Head(s) = s[1] /\ Head(s) \in S /\ Len(s) \in Nat \ {0} /\ Tail(s) \in Seq(S)
      /\ Len(Tail(s)) = Len(s) - 1 /\ \A i \in 1 .. Len(Tail(s)) : Tail(s)[i] = s[i + 1]
  BY HeadTailProperties, EmptySeq
<1>2. Contains(s, Head(s))
  BY <1>1 DEF Contains
<1>3. \A x : Contains(Tail(s), x) => Contains(s, x)
  BY <1>1 DEF Contains
<1>4. ASSUME NEW x, Contains(s, x), x # Head(s) PROVE Contains(Tail(s), x)
  <2>1. PICK i \in 1 .. Len(s) : s[i] = x
    BY <1>4 DEF Contains
  <2>2. i - 1 \in 1 .. Len(Tail(s)) /\ Tail(s)[i - 1] = x
    BY <1>1, <1>4, <2>1
  <2> QED
    BY <2>2 DEF Contains
<1>5. ASSUME IsInjective(s) PROVE IsInjective(Tail(s)) /\ ~ Contains(Tail(s), Head(s))
  BY <1>1, <1>5 DEF Contains, IsInjective
<1> QED
  BY <1>1, <1>2, <1>3, <1>4, <1>5

\* RemoveAt() takes one element out of a list that holds it once.
LEMMA RemoveAtList ==
  ASSUME NEW S, NEW s \in Seq(S), NEW n \in 1 .. Len(s), IsInjective(s)
  PROVE  /\ RemoveAt(s, n) \in Seq(S)
         /\ IsInjective(RemoveAt(s, n))
         /\ \A x : Contains(RemoveAt(s, n), x) <=> Contains(s, x) /\ x # s[n]
         /\ n # 1 => RemoveAt(s, n) # <<>> /\ Head(RemoveAt(s, n)) = Head(s)
<1> DEFINE a == SubSeq(s, 1, n - 1)
           b == SubSeq(s, n + 1, Len(s))
           t == RemoveAt(s, n)
<1>1. /\ a \in Seq(S) /\ Len(a) = n - 1 /\ \A i \in 1 .. n - 1 : a[i] = s[i]
      /\ b \in Seq(S) /\ Len(b) = Len(s) - n /\ \A i \in 1 .. Len(s) - n : b[i] = s[n + i]
  BY SubSeqProperties
<1>2. /\ t \in Seq(S) /\ Len(t) = Len(s) - 1
      /\ \A i \in 1 .. Len(s) - 1 : t[i] = IF i < n THEN s[i] ELSE s[i + 1]
  <2> HIDE DEF a, b
  <2>1. t = a \o b
    BY DEF RemoveAt, a, b
  <2>2. /\ a \o b \in Seq(S) /\ Len(a \o b) = Len(a) + Len(b)
        /\ \A i \in 1 .. Len(a) + Len(b) :
             (a \o b)[i] = IF i <= Len(a) THEN a[i] ELSE b[i - Len(a)]
    BY <1>1, ConcatProperties
  <2>3. Len(s) \in Nat /\ n \in 1 .. Len(s)
    BY LenProperties
  <2> HIDE DEF t
  <2>4. t \in Seq(S) /\ Len(t) = Len(s) - 1
    BY <1>1, <2>1, <2>2, <2>3
  <2>5. ASSUME NEW i \in 1 .. Len(s) - 1, i < n PROVE t[i] = s[i]
    BY <1>1, <2>1, <2>2, <2>3, <2>5
  <2>6. ASSUME NEW i \in 1 .. Len(s) - 1, ~ (i < n) PROVE t[i] = s[i + 1]
    <3>1. t[i] = b[i - (n - 1)] /\ i - (n - 1) \in 1 .. Len(s) - n
      BY <1>1, <2>1, <2>2, <2>3, <2>6
    <3>2. b[i - (n - 1)] = s[n + (i - (n - 1))]
      BY <1>1, <3>1
    <3>3. n + (i - (n - 1)) = i + 1
      BY <2>3
    <3> QED
      BY <3>1, <3>2, <3>3
  <2> QED
    BY <2>4, <2>5, <2>6
<1> HIDE DEF t
<1>3. IsInjective(t)
  <2>1. DOMAIN s = 1 .. Len(s) /\ DOMAIN t = 1 .. Len(t) /\ Len(s) \in Nat
    BY <1>2, LenProperties
  <2>2. ASSUME NEW i \in 1 .. Len(t), NEW j \in 1 .. Len(t), t[i] = t[j] PROVE i = j
    <3> DEFINE Old(x) == IF x < n THEN x ELSE x + 1
    <3>1. Old(i) \in 1 .. Len(s) /\ Old(j) \in 1 .. Len(s)
      BY <1>2, <2>1
    <3>2. s[Old(i)] = s[Old(j)]
      BY <1>2, <2>2
    <3>3. Old(i) = Old(j)
      BY <2>1, <3>1, <3>2 DEF IsInjective
    <3> QED
      BY <3>3
  <2> QED
    BY <2>1, <2>2 DEF IsInjective
<1>4. ASSUME NEW x, Contains(t, x) PROVE Contains(s, x) /\ x # s[n]
  <2>1. PICK i \in 1 .. Len(t) : t[i] = x
    BY <1>4 DEF Contains
  <2> QED
    BY <1>2, <2>1 DEF Contains, IsInjective
<1>5. ASSUME NEW x, Contains(s, x), x # s[n] PROVE Contains(t, x)
  <2>1. PICK i \in 1 .. Len(s) : s[i] = x
    BY <1>5 DEF Contains
  <2>2. CASE i < n
    BY <1>2, <2>1, <2>2 DEF Contains
  <2>3. CASE i > n
    <3>1. i - 1 \in 1 .. Len(t) /\ t[i - 1] = x
      BY <1>2, <2>1, <2>3
    <3> QED
      BY <3>1 DEF Contains
  <2> QED
    BY <1>5, <2>1, <2>2, <2>3
<1>6. n # 1 => t # <<>> /\ Head(t) = Head(s)
  BY <1>2
<1> QED
  BY <1>2, <1>3, <1>4, <1>5, <1>6 DEF t

\* A set of naturals that is not empty has a least element.
LEMMA LeastExists ==
  ASSUME NEW I \in SUBSET Nat, I # {}
  PROVE  Min(I) \in I /\ \A j \in I : Min(I) <= j
<1> DEFINE R == OpToRel(<, Nat)
<1>1. \A m, n \in Nat : m < n => <<m, n>> \in R
  BY Zenon DEF OpToRel
<1>2. IsWellFoundedOn(R, Nat)
  BY NatLessThanWellFounded
<1> HIDE DEF R
<1>3. PICK i \in I : \A j \in I : ~ (<<j, i>> \in R)
  BY <1>2, WFMin
<1>4. ASSUME NEW j \in I PROVE i <= j
  <2>1. i \in Nat /\ j \in Nat
    OBVIOUS
  <2>2. ~ (j < i)
    BY <1>1, <1>3, <2>1
  <2> QED
    BY <2>1, <2>2
<1> QED
  BY <1>3, <1>4 DEF Min

\* unready() takes a process out of the middle of its list.
LEMMA RemoveFirstList ==
  ASSUME NEW S, NEW s \in Seq(S), NEW e, IsInjective(s)
  PROVE  /\ RemoveFirst(s, e) \in Seq(S)
         /\ IsInjective(RemoveFirst(s, e))
         /\ \A x : Contains(RemoveFirst(s, e), x) <=> Contains(s, x) /\ x # e
         /\ s # <<>> /\ Head(s) # e =>
              RemoveFirst(s, e) # <<>> /\ Head(RemoveFirst(s, e)) = Head(s)
<1>1. CASE ~ \E i \in 1 .. Len(s) : s[i] = e
  BY <1>1 DEF RemoveFirst, Contains
<1>2. CASE \E i \in 1 .. Len(s) : s[i] = e
  <2> DEFINE I == {i \in 1 .. Len(s) : s[i] = e}
  <2>1. I \in SUBSET Nat /\ I # {}
    BY <1>2
  <2>2. Min(I) \in I
    BY <2>1, LeastExists
  <2>3. RemoveFirst(s, e) = RemoveAt(s, Min(I))
    BY <1>2, <2>1 DEF RemoveFirst, SelectInSeq
  <2>4. Min(I) \in 1 .. Len(s) /\ s[Min(I)] = e
    BY <2>2
  <2>5. s # <<>> /\ Head(s) # e => Min(I) # 1
    BY <2>4
  <2> DEFINE n == Min(I)
  <2>6. n \in 1 .. Len(s) /\ s[n] = e
    BY <2>4
  <2> HIDE DEF n, I
  <2>7. /\ RemoveAt(s, n) \in Seq(S)
        /\ IsInjective(RemoveAt(s, n))
        /\ \A x : Contains(RemoveAt(s, n), x) <=> Contains(s, x) /\ x # s[n]
        /\ n # 1 => RemoveAt(s, n) # <<>> /\ Head(RemoveAt(s, n)) = Head(s)
    BY <2>6, RemoveAtList
  <2>8. RemoveFirst(s, e) = RemoveAt(s, n) /\ (s # <<>> /\ Head(s) # e => n # 1)
    BY <2>3, <2>5 DEF n
  <2> QED
    BY <2>6, <2>7, <2>8
<1> QED
  BY <1>1, <1>2

-----------------------------------------------------------------------------
(* Scheduling: pick_proc(), ready(), unready() and sched() move processes  *)
(* between lists and leave the process table alone.                        *)

\* t differs from s in the ready lists and in who has the CPU only.
SameTable(s, t) ==
  /\ t.p_flags = s.p_flags
  /\ t.p_getfrom = s.p_getfrom
  /\ t.p_callerq = s.p_callerq
  /\ t.p_mess = s.p_mess
  /\ t.p_pending = s.p_pending
  /\ t.sig_procs = s.sig_procs

\* If the CPU went idle between s and t, nobody is ready in t.
NoneLeft(s, t) ==
  t.cur_proc = IDLE => s.cur_proc = IDLE \/ \A p \in Runner : ~ IsReady(t, p)

\* queue() of ready() and unready(): every slot has one of the three lists.
LEMMA QueueType == ASSUME NEW p \in Slot PROVE queue(p) \in Queue
  BY DEF queue, Queue, TASK_Q, SERVER_Q, USER_Q

\* What pick_proc() takes from a list is a process of that list's class.
LEMMA HeadIsSorted ==
  ASSUME NEW s \in KState, ReadyListsSorted(s), NEW q \in Queue, s.rdy[q] # <<>>
  PROVE  Head(s.rdy[q]) \in Runner /\ queue(Head(s.rdy[q])) = q
<1>1. s.rdy[q] \in Seq(Runner)
  BY DEF KState
<1>2. Head(s.rdy[q]) \in Runner /\ Contains(s.rdy[q], Head(s.rdy[q]))
  BY <1>1, TailList
<1> QED
  BY <1>2 DEF ReadyListsSorted

\* pick_proc() gives the CPU to the head of a ready list.
LEMMA PickProc ==
  ASSUME NEW s \in KState, ReadyListsSorted(s)
  PROVE  /\ pick_proc(s) \in KState
         /\ SameTable(s, pick_proc(s))
         /\ pick_proc(s).rdy = s.rdy
         /\ CurrentIsHead(pick_proc(s))
         /\ pick_proc(s).cur_proc = IDLE => \A p \in Runner : ~ IsReady(pick_proc(s), p)
<1> DEFINE q == BestQueue(s)
<1>1. q \in Queue
  BY DEF BestQueue, Queue, TASK_Q, SERVER_Q, USER_Q
<1>2. HARDWARE \in Slot /\ IDLE \notin Runner
  BY NrTasksAssumption, NrProcsAssumption DEF HARDWARE, IDLE, Slot, Runner
<1>3. CASE s.rdy[q] # <<>>
  <2>1. Head(s.rdy[q]) \in Runner /\ queue(Head(s.rdy[q])) = q
    BY <1>1, <1>3, HeadIsSorted
  <2> HIDE DEF q
  <2> QED
    BY <1>2, <1>3, <2>1 DEF pick_proc, KState, SameTable, CurrentIsHead, Runner, q
<1>4. CASE s.rdy[q] = <<>>
  <2>1. \A r \in Queue : s.rdy[r] = <<>>
    BY <1>4 DEF BestQueue, Queue, TASK_Q, SERVER_Q, USER_Q
  <2>2. pick_proc(s).rdy = s.rdy
    BY <1>4 DEF pick_proc, KState
  <2>3. \A p \in Runner : ~ IsReady(pick_proc(s), p)
    BY <2>1, <2>2, QueueType DEF IsReady, Contains, Runner
  <2> QED
    BY <1>2, <1>4, <2>3 DEF pick_proc, KState, SameTable, CurrentIsHead
<1> QED
  BY <1>3, <1>4

\* ready() adds one process to its own list.
LEMMA Ready ==
  ASSUME NEW s \in KState, ReadyListsSorted(s), NEW rp \in Runner, ~ IsReady(s, rp)
  PROVE  /\ ready(s, rp) \in KState
         /\ SameTable(s, ready(s, rp))
         /\ ready(s, rp).cur_proc = s.cur_proc
         /\ ReadyListsSorted(ready(s, rp))
         /\ \A p \in Runner : IsReady(ready(s, rp), p) <=> IsReady(s, p) \/ p = rp
         /\ CurrentIsHead(s) => CurrentIsHead(ready(s, rp))
<1> DEFINE q == queue(rp)
           l == s.rdy[q]
           t == ready(s, rp)
<1>1. q \in Queue /\ s.rdy \in [Queue -> Seq(Runner)]
  BY QueueType DEF Runner, KState
<1>2. t = [s EXCEPT !.rdy = [s.rdy EXCEPT ![q] = Append(l, rp)]]
  BY DEF ready
<1>3. l \in Seq(Runner) /\ IsInjective(l) /\ ~ Contains(l, rp)
  BY <1>1 DEF ReadyListsSorted, IsReady
<1>4. /\ Append(l, rp) \in Seq(Runner)
      /\ Append(l, rp) # <<>>
      /\ \A x : Contains(Append(l, rp), x) <=> Contains(l, x) \/ x = rp
      /\ l # <<>> => Head(Append(l, rp)) = Head(l)
      /\ IsInjective(Append(l, rp))
  BY <1>3, AppendList
<1>5. /\ t.rdy = [s.rdy EXCEPT ![q] = Append(l, rp)]
      /\ SameTable(s, t) /\ t.cur_proc = s.cur_proc
  BY <1>2 DEF SameTable, KState
<1> HIDE DEF t
<1>6. t \in KState
  <2>1. t.rdy \in [Queue -> Seq(Runner)]
    BY <1>1, <1>4, <1>5
  <2> QED
    BY <1>2, <2>1 DEF KState
<1>7. ReadyListsSorted(t)
  BY <1>1, <1>4, <1>5 DEF ReadyListsSorted, q
<1>8. \A p \in Runner : IsReady(t, p) <=> IsReady(s, p) \/ p = rp
  BY <1>1, <1>4, <1>5, QueueType DEF IsReady, Runner
<1>9. ASSUME CurrentIsHead(s) PROVE CurrentIsHead(t)
  <2>1. CASE s.cur_proc = IDLE
    BY <1>5, <2>1 DEF CurrentIsHead
  <2>2. CASE s.cur_proc # IDLE
    <3>1. s.cur_proc \in Runner
      BY <2>2 DEF KState
    <3>2. queue(s.cur_proc) \in Queue
      BY <3>1, QueueType DEF Runner
    <3> QED
      BY <1>1, <1>4, <1>5, <1>9, <2>2, <3>2 DEF CurrentIsHead
  <2> QED
    BY <2>1, <2>2
<1> QED
  BY <1>5, <1>6, <1>7, <1>8, <1>9 DEF t

\* unready() takes one process off its list, if it is on it, and gives the CPU
\* to another process if it was the head.
LEMMA Unready ==
  ASSUME NEW s \in KState, ReadyListsSorted(s), CurrentIsHead(s), NEW rp \in Runner
  PROVE  /\ unready(s, rp) \in KState
         /\ SameTable(s, unready(s, rp))
         /\ ReadyListsSorted(unready(s, rp))
         /\ \A p \in Runner : IsReady(unready(s, rp), p) <=> IsReady(s, p) /\ p # rp
         /\ CurrentIsHead(unready(s, rp))
         /\ NoneLeft(s, unready(s, rp))
<1> DEFINE q == queue(rp)
           l == s.rdy[q]
           With(m) == [s EXCEPT !.rdy = [s.rdy EXCEPT ![q] = m]]
<1>1. q \in Queue /\ s.rdy \in [Queue -> Seq(Runner)]
  BY QueueType DEF Runner, KState
<1>2. l \in Seq(Runner) /\ IsInjective(l)
  BY <1>1 DEF ReadyListsSorted
<1> HIDE DEF q
<1>3. ASSUME NEW m \in Seq(Runner), IsInjective(m),
             \A x : Contains(m, x) <=> Contains(l, x) /\ x # rp
      PROVE  /\ With(m) \in KState
             /\ SameTable(s, With(m))
             /\ With(m).cur_proc = s.cur_proc
             /\ With(m).rdy = [s.rdy EXCEPT ![q] = m]
             /\ ReadyListsSorted(With(m))
             /\ \A p \in Runner : IsReady(With(m), p) <=> IsReady(s, p) /\ p # rp
  <2> DEFINE t == With(m)
  <2>1. /\ t.rdy = [s.rdy EXCEPT ![q] = m]
        /\ SameTable(s, t) /\ t.cur_proc = s.cur_proc
    BY DEF SameTable, KState
  <2>2. t.rdy \in [Queue -> Seq(Runner)]
    BY <1>1, <2>1
  <2>3. t \in KState
    BY <2>2 DEF KState
  <2> HIDE DEF t
  <2>4. ReadyListsSorted(t)
    BY <1>1, <1>3, <2>1 DEF ReadyListsSorted
  <2>5. \A p \in Runner : IsReady(t, p) <=> IsReady(s, p) /\ p # rp
    BY <1>1, <1>3, <2>1, QueueType DEF IsReady, Runner, q
  <2> QED
    BY <2>1, <2>3, <2>4, <2>5 DEF t
<1> HIDE DEF With
<1>4. CASE l = <<>>
  <2>1. unready(s, rp) = s
    BY <1>4 DEF unready, q
  <2>2. ~ IsReady(s, rp)
    BY <1>4 DEF IsReady, Contains, q
  <2> QED
    BY <2>1, <2>2 DEF SameTable, NoneLeft
<1>5. CASE l # <<>> /\ Head(l) = rp
  <2>1. unready(s, rp) = pick_proc(With(Tail(l)))
    BY <1>5 DEF unready, With, q
  <2>2. /\ Tail(l) \in Seq(Runner) /\ IsInjective(Tail(l))
        /\ \A x : Contains(Tail(l), x) <=> Contains(l, x) /\ x # rp
    BY <1>2, <1>5, TailList
  <2> DEFINE t == With(Tail(l))
  <2>3. /\ t \in KState
        /\ SameTable(s, t)
        /\ ReadyListsSorted(t)
        /\ \A p \in Runner : IsReady(t, p) <=> IsReady(s, p) /\ p # rp
    BY <1>3, <2>2
  <2> HIDE DEF t
  <2>4. /\ pick_proc(t) \in KState
        /\ SameTable(t, pick_proc(t))
        /\ pick_proc(t).rdy = t.rdy
        /\ CurrentIsHead(pick_proc(t))
        /\ NoneLeft(s, pick_proc(t))
    BY <2>3, PickProc DEF NoneLeft
  <2> QED
    BY <2>1, <2>3, <2>4 DEF SameTable, ReadyListsSorted, IsReady, t
<1>6. CASE l # <<>> /\ Head(l) # rp
  <2> DEFINE m == RemoveFirst(l, rp)
             t == With(m)
  <2>1. unready(s, rp) = t
    BY <1>6 DEF unready, With, q
  <2>2. /\ m \in Seq(Runner) /\ IsInjective(m)
        /\ \A x : Contains(m, x) <=> Contains(l, x) /\ x # rp
        /\ m # <<>> /\ Head(m) = Head(l)
    BY <1>2, <1>6, RemoveFirstList
  <2> HIDE DEF m
  <2>3. /\ t \in KState
        /\ SameTable(s, t)
        /\ t.cur_proc = s.cur_proc
        /\ t.rdy = [s.rdy EXCEPT ![q] = m]
        /\ ReadyListsSorted(t)
        /\ \A p \in Runner : IsReady(t, p) <=> IsReady(s, p) /\ p # rp
    BY <1>3, <2>2
  <2> HIDE DEF t
  <2>4. CurrentIsHead(t)
    BY <1>1, <2>2, <2>3 DEF CurrentIsHead
  <2> QED
    BY <2>1, <2>3, <2>4 DEF NoneLeft
<1> QED
  BY <1>4, <1>5, <1>6

\* sched() moves the head of the user list to its end.
LEMMA Sched ==
  ASSUME NEW s \in KState, ReadyListsSorted(s), CurrentIsHead(s)
  PROVE  /\ sched(s) \in KState
         /\ SameTable(s, sched(s))
         /\ ReadyListsSorted(sched(s))
         /\ \A p \in Runner : IsReady(sched(s), p) <=> IsReady(s, p)
         /\ CurrentIsHead(sched(s))
         /\ NoneLeft(s, sched(s))
<1> DEFINE l == s.rdy[USER_Q]
           m == Append(Tail(l), Head(l))
           t == [s EXCEPT !.rdy = [s.rdy EXCEPT ![USER_Q] = m]]
<1>1. USER_Q \in Queue /\ s.rdy \in [Queue -> Seq(Runner)]
  BY DEF Queue, KState
<1>2. l \in Seq(Runner) /\ IsInjective(l)
  BY <1>1 DEF ReadyListsSorted
<1>3. CASE l = <<>>
  BY <1>3 DEF sched, SameTable, NoneLeft
<1>4. CASE l # <<>>
  <2>1. /\ Head(l) \in Runner /\ Tail(l) \in Seq(Runner)
        /\ IsInjective(Tail(l)) /\ ~ Contains(Tail(l), Head(l))
        /\ \A x : Contains(l, x) <=> Contains(Tail(l), x) \/ x = Head(l)
    BY <1>2, <1>4, TailList
  <2> DEFINE h == Head(l)
             r == Tail(l)
  <2>2. /\ m \in Seq(Runner) /\ IsInjective(m)
        /\ \A x : Contains(m, x) <=> Contains(l, x)
    <3>1. h \in Runner /\ r \in Seq(Runner) /\ IsInjective(r) /\ ~ Contains(r, h)
      BY <2>1
    <3> HIDE DEF h, r
    <3>2. /\ Append(r, h) \in Seq(Runner)
          /\ \A x : Contains(Append(r, h), x) <=> Contains(r, x) \/ x = h
          /\ IsInjective(Append(r, h))
      BY <3>1, AppendList
    <3> QED
      BY <2>1, <3>2 DEF h, r
  <2>3. sched(s) = pick_proc(t)
    BY <1>4 DEF sched
  <2> HIDE DEF m
  <2>4. /\ t.rdy = [s.rdy EXCEPT ![USER_Q] = m]
        /\ SameTable(s, t)
    BY DEF SameTable, KState
  <2>5. t.rdy \in [Queue -> Seq(Runner)]
    BY <1>1, <2>2, <2>4
  <2>6. t \in KState
    BY <2>5 DEF KState
  <2> HIDE DEF t
  <2>7. ReadyListsSorted(t)
    BY <1>1, <2>2, <2>4 DEF ReadyListsSorted
  <2>8. \A p \in Runner : IsReady(t, p) <=> IsReady(s, p)
    BY <1>1, <2>2, <2>4, QueueType DEF IsReady, Runner
  <2>9. /\ pick_proc(t) \in KState
        /\ SameTable(t, pick_proc(t))
        /\ pick_proc(t).rdy = t.rdy
        /\ CurrentIsHead(pick_proc(t))
        /\ NoneLeft(s, pick_proc(t))
    BY <2>6, <2>7, PickProc DEF NoneLeft
  <2> QED
    BY <2>3, <2>4, <2>7, <2>8, <2>9 DEF SameTable, ReadyListsSorted, IsReady
<1> QED
  BY <1>3, <1>4

-----------------------------------------------------------------------------
(* Blocking and deblocking keep the flags and the ready lists together.    *)

\* t differs from s in the flags, the ready lists and the CPU only.
SameMessages(s, t) ==
  /\ t.p_getfrom = s.p_getfrom
  /\ t.p_callerq = s.p_callerq
  /\ t.p_mess = s.p_mess
  /\ t.p_pending = s.p_pending
  /\ t.sig_procs = s.sig_procs

\* The scheduling half of the invariant: lists, flags and CPU agree.
ReadyOK(s) == s \in KState /\ ReadyListsExact(s) /\ CurrentIsHead(s)

\* A blocked process that loses a flag is ready iff it has no other.
LEMMA DeblockReady ==
  ASSUME NEW s, ReadyOK(s), NEW rp \in Runner, NEW flag, flag \in s.p_flags[rp]
  PROVE  /\ ReadyOK(Deblock(s, rp, flag))
         /\ SameMessages(s, Deblock(s, rp, flag))
         /\ Deblock(s, rp, flag).p_flags = [s.p_flags EXCEPT ![rp] = @ \ {flag}]
         /\ Deblock(s, rp, flag).cur_proc = s.cur_proc
<1> DEFINE f == [s.p_flags EXCEPT ![rp] = @ \ {flag}]
           t == [s EXCEPT !.p_flags = f]
<1>1. rp \in Slot /\ s \in KState /\ s.p_flags \in [Slot -> SUBSET Flag]
  BY DEF ReadyOK, KState, Runner
<1>2. f \in [Slot -> SUBSET Flag]
  BY <1>1
<1>3. /\ t \in KState /\ t.p_flags = f /\ t.rdy = s.rdy /\ t.cur_proc = s.cur_proc
      /\ SameMessages(s, t)
  <2> HIDE DEF f
  <2> QED
    BY <1>1, <1>2 DEF KState, SameMessages
<1>4. Deblock(s, rp, flag) = IF f[rp] = {} THEN ready(t, rp) ELSE t
  BY <1>1, <1>3 DEF Deblock, KState
<1>5. f[rp] = s.p_flags[rp] \ {flag} /\ \A p \in Runner : p # rp => f[p] = s.p_flags[p]
  BY <1>1 DEF Runner
<1> HIDE DEF f, t
<1>6. /\ ReadyListsSorted(t) /\ CurrentIsHead(t)
      /\ \A p \in Runner : IsReady(t, p) <=> s.p_flags[p] = {}
  BY <1>3 DEF ReadyOK, ReadyListsExact, ReadyListsSorted, CurrentIsHead, IsReady
<1>7. CASE f[rp] = {}
  <2>1. ~ IsReady(t, rp)
    BY <1>6
  <2> DEFINE u == ready(t, rp)
  <2>2. /\ u \in KState /\ SameTable(t, u) /\ u.cur_proc = t.cur_proc
        /\ ReadyListsSorted(u) /\ CurrentIsHead(u)
        /\ \A p \in Runner : IsReady(u, p) <=> IsReady(t, p) \/ p = rp
    BY <1>3, <1>6, <2>1, Ready
  <2> HIDE DEF u
  <2>3. \A p \in Runner : IsReady(u, p) <=> u.p_flags[p] = {}
    BY <1>3, <1>5, <1>6, <1>7, <2>2 DEF SameTable
  <2>4. ReadyOK(u)
    BY <2>2, <2>3 DEF ReadyOK, ReadyListsExact
  <2>5. SameMessages(s, u) /\ u.p_flags = f /\ u.cur_proc = s.cur_proc
    BY <1>3, <2>2 DEF SameTable, SameMessages
  <2> QED
    BY <1>4, <1>7, <2>4, <2>5 DEF u, f
<1>8. CASE f[rp] # {}
  <2>1. \A p \in Runner : IsReady(t, p) <=> t.p_flags[p] = {}
    BY <1>3, <1>5, <1>6, <1>8
  <2>2. ReadyOK(t)
    BY <1>3, <1>6, <2>1 DEF ReadyOK, ReadyListsExact
  <2> QED
    BY <1>3, <1>4, <1>8, <2>2 DEF f
<1> QED
  BY <1>7, <1>8

\* A process that gains a flag is on no ready list any more.
LEMMA BlockReady ==
  ASSUME NEW s, ReadyOK(s), NEW rp \in Runner, NEW flag \in Flag
  PROVE  /\ ReadyOK(Block(s, rp, flag))
         /\ SameMessages(s, Block(s, rp, flag))
         /\ Block(s, rp, flag).p_flags = [s.p_flags EXCEPT ![rp] = @ \cup {flag}]
         /\ NoneLeft(s, Block(s, rp, flag))
<1> DEFINE f == [s.p_flags EXCEPT ![rp] = @ \cup {flag}]
           t == [s EXCEPT !.p_flags = f]
           u == unready(t, rp)
<1>1. rp \in Slot /\ s \in KState /\ s.p_flags \in [Slot -> SUBSET Flag]
  BY DEF ReadyOK, KState, Runner
<1>2. f \in [Slot -> SUBSET Flag]
  BY <1>1
<1>3. /\ t \in KState /\ t.p_flags = f /\ t.rdy = s.rdy /\ t.cur_proc = s.cur_proc
      /\ SameMessages(s, t)
  <2> HIDE DEF f
  <2> QED
    BY <1>1, <1>2 DEF KState, SameMessages
<1>4. Block(s, rp, flag) = u
  BY <1>1 DEF Block, KState
<1>5. f[rp] # {} /\ \A p \in Runner : p # rp => f[p] = s.p_flags[p]
  BY <1>1 DEF Runner
<1> HIDE DEF f, t
<1>6. /\ ReadyListsSorted(t) /\ CurrentIsHead(t)
      /\ \A p \in Runner : IsReady(t, p) <=> s.p_flags[p] = {}
  BY <1>3 DEF ReadyOK, ReadyListsExact, ReadyListsSorted, CurrentIsHead, IsReady
<1>7. /\ u \in KState /\ SameTable(t, u)
      /\ ReadyListsSorted(u) /\ CurrentIsHead(u)
      /\ \A p \in Runner : IsReady(u, p) <=> IsReady(t, p) /\ p # rp
      /\ NoneLeft(s, u)
  BY <1>3, <1>6, Unready DEF NoneLeft
<1> HIDE DEF u
<1>8. \A p \in Runner : IsReady(u, p) <=> u.p_flags[p] = {}
  BY <1>3, <1>5, <1>6, <1>7 DEF SameTable
<1>9. ReadyOK(u)
  BY <1>7, <1>8 DEF ReadyOK, ReadyListsExact
<1>10. SameMessages(s, u) /\ u.p_flags = f
  BY <1>3, <1>7 DEF SameTable, SameMessages
<1> QED
  BY <1>4, <1>7, <1>9, <1>10 DEF f

-----------------------------------------------------------------------------
(* The kernel invariant, and the message calls that keep it.  A process    *)
(* that is SENDING has a message in its buffer: mini_rec() copies it.      *)

\* A blocked sender left a message in its buffer.
SendersHoldMessages(s) ==
  \A p \in Runner : SENDING \in s.p_flags[p] => s.p_mess[p] \in Message

\* The inductive invariant of a kernel state.  HARDWARE is never blocked: it
\* neither calls the kernel nor waits in a queue.
KernelOK(s) ==
  /\ ReadyOK(s)
  /\ CallerListsExact(s)
  /\ RendezvousMade(s)
  /\ SendersHoldMessages(s)
  /\ s.p_flags[HARDWARE] = {}

\* The bookkeeping of pending signals, by which cause_sig() and inform() count,
\* is no part of the invariant.
LEMMA PendingIrrelevant ==
  ASSUME NEW s, KernelOK(s), NEW sp \in Int, NEW pp \in [Slot -> SUBSET Signals]
  PROVE  KernelOK([s EXCEPT !.sig_procs = sp, !.p_pending = pp])
<1> DEFINE t == [s EXCEPT !.sig_procs = sp, !.p_pending = pp]
<1>1. /\ t \in KState
      /\ t.rdy = s.rdy /\ t.cur_proc = s.cur_proc
      /\ t.p_flags = s.p_flags /\ t.p_getfrom = s.p_getfrom
      /\ t.p_callerq = s.p_callerq /\ t.p_mess = s.p_mess
  BY DEF KernelOK, ReadyOK, KState
<1> HIDE DEF t
<1>2. ReadyOK(t)
  BY <1>1 DEF KernelOK, ReadyOK, ReadyListsExact, ReadyListsSorted, IsReady, CurrentIsHead
<1>3. CallerListsExact(t) /\ RendezvousMade(t)
  BY <1>1 DEF KernelOK, CallerListsExact, RendezvousMade, Awaits
<1> QED
  BY <1>1, <1>2, <1>3 DEF KernelOK, SendersHoldMessages, t

\* Nor is the message buffer of a process that is not sending from it: a process
\* may read or overwrite its own buffer.
LEMMA BufferIrrelevant ==
  ASSUME NEW s, KernelOK(s), NEW p \in Slot, NEW m \in Message
  PROVE  /\ KernelOK([s EXCEPT !.p_mess[p] = m])
         /\ [s EXCEPT !.p_mess[p] = m].p_flags = s.p_flags
<1> DEFINE t == [s EXCEPT !.p_mess[p] = m]
<1>1. /\ t \in KState
      /\ t.rdy = s.rdy /\ t.cur_proc = s.cur_proc
      /\ t.p_flags = s.p_flags /\ t.p_getfrom = s.p_getfrom
      /\ t.p_callerq = s.p_callerq
      /\ \A x \in Slot : t.p_mess[x] = IF x = p THEN m ELSE s.p_mess[x]
  BY DEF KernelOK, ReadyOK, KState
<1> HIDE DEF t
<1>2. ReadyOK(t)
  BY <1>1 DEF KernelOK, ReadyOK, ReadyListsExact, ReadyListsSorted, IsReady, CurrentIsHead
<1>3. CallerListsExact(t) /\ RendezvousMade(t)
  BY <1>1 DEF KernelOK, CallerListsExact, RendezvousMade, Awaits
<1>4. SendersHoldMessages(t)
  BY <1>1 DEF KernelOK, SendersHoldMessages, Runner
<1> QED
  BY <1>1, <1>2, <1>3, <1>4 DEF KernelOK, t

\* Delivering a message to a process that waits for it.
LEMMA DeliverOK ==
  ASSUME NEW s, KernelOK(s), NEW src \in Slot, NEW dest \in Slot, NEW body \in Body,
         RECEIVING \in s.p_flags[dest]
  PROVE  KernelOK(Deliver(s, src, dest, body))
<1> DEFINE t == [s EXCEPT !.p_mess[dest] = cp_mess(src, body)]
           u == Deblock(t, dest, RECEIVING)
<1>1. dest \in Runner
  BY DEF KernelOK, Runner
<1>2. cp_mess(src, body) \in Message
  BY DEF cp_mess, Message
<1>3. KernelOK(t) /\ t.p_flags = s.p_flags
  BY <1>2, BufferIrrelevant
<1> HIDE DEF t
<1>4. /\ ReadyOK(u) /\ SameMessages(t, u)
      /\ u.p_flags = [t.p_flags EXCEPT ![dest] = @ \ {RECEIVING}]
  BY <1>1, <1>3, DeblockReady DEF KernelOK
<1> HIDE DEF u
<1>5. /\ \A x \in Slot : x # dest => u.p_flags[x] = t.p_flags[x]
      /\ u.p_flags[dest] = t.p_flags[dest] \ {RECEIVING}
  BY <1>3, <1>4 DEF KernelOK, ReadyOK, KState
<1>6. SENDING # RECEIVING
  BY DEF SENDING, RECEIVING
<1>7. CallerListsExact(u)
  BY <1>3, <1>4, <1>5, <1>6 DEF KernelOK, CallerListsExact, SameMessages, Runner
<1>8. RendezvousMade(u)
  BY <1>3, <1>4, <1>5 DEF KernelOK, RendezvousMade, Awaits, SameMessages
<1>9. SendersHoldMessages(u)
  BY <1>3, <1>4, <1>5 DEF KernelOK, SendersHoldMessages, SameMessages, Runner
<1>10. u.p_flags[HARDWARE] = {}
  BY <1>1, <1>3, <1>4, <1>5, SMTT(30) DEF KernelOK, Runner, ReadyOK, KState
<1> QED
  BY <1>4, <1>7, <1>8, <1>9, <1>10 DEF KernelOK, Deliver, t, u

\* Queueing a sender at a process that does not wait for it.
LEMMA EnqueueOK ==
  ASSUME NEW s, KernelOK(s), NEW caller \in Runner, NEW dest \in Slot, NEW body \in Body,
         SENDING \notin s.p_flags[caller], ~ Awaits(s, dest, caller)
  PROVE  KernelOK(Enqueue(s, caller, dest, body))
<1> DEFINE t == [s EXCEPT !.p_mess[caller] = cp_mess(caller, body)]
           u == Block(t, caller, SENDING)
           c == [u.p_callerq EXCEPT ![dest] = Append(@, caller)]
           v == [u EXCEPT !.p_callerq = c]
<1>1. cp_mess(caller, body) \in Message /\ caller \in Slot /\ SENDING \in Flag
  BY DEF cp_mess, Message, Runner, Flag
<1>2. /\ KernelOK(t) /\ t.p_flags = s.p_flags
      /\ t.p_getfrom = s.p_getfrom /\ t.p_callerq = s.p_callerq
      /\ t.p_mess[caller] \in Message
  <2>1. KernelOK(t) /\ t.p_flags = s.p_flags
    BY <1>1, BufferIrrelevant
  <2>2. s \in KState
    BY DEF KernelOK, ReadyOK
  <2> QED
    BY <1>1, <2>1, <2>2 DEF KState
<1> HIDE DEF t
<1>3. /\ ReadyOK(u) /\ SameMessages(t, u)
      /\ u.p_flags = [t.p_flags EXCEPT ![caller] = @ \cup {SENDING}]
  BY <1>1, <1>2, BlockReady DEF KernelOK
<1> HIDE DEF u
<1>4. /\ \A x \in Slot : x # caller => u.p_flags[x] = s.p_flags[x]
      /\ u.p_flags[caller] = s.p_flags[caller] \cup {SENDING}
      /\ u.p_callerq = s.p_callerq /\ u.p_callerq \in [Slot -> Seq(Runner)]
      /\ u.p_getfrom = s.p_getfrom
  BY <1>1, <1>2, <1>3 DEF KernelOK, ReadyOK, KState, SameMessages
<1>5. \A d \in Slot : ~ Contains(s.p_callerq[d], caller)
  BY DEF KernelOK, CallerListsExact
<1>6. /\ Append(u.p_callerq[dest], caller) \in Seq(Runner)
      /\ \A x : Contains(Append(u.p_callerq[dest], caller), x)
                  <=> Contains(u.p_callerq[dest], x) \/ x = caller
      /\ IsInjective(Append(u.p_callerq[dest], caller))
  <2> DEFINE l == u.p_callerq[dest]
  <2>1. l \in Seq(Runner) /\ IsInjective(l) /\ ~ Contains(l, caller)
    BY <1>4, <1>5 DEF KernelOK, CallerListsExact
  <2> HIDE DEF l
  <2>2. /\ Append(l, caller) \in Seq(Runner)
        /\ \A x : Contains(Append(l, caller), x) <=> Contains(l, x) \/ x = caller
        /\ IsInjective(Append(l, caller))
    BY <2>1, AppendList
  <2> QED
    BY <2>2 DEF l
<1>7. /\ c \in [Slot -> Seq(Runner)]
      /\ \A d \in Slot : d # dest => c[d] = s.p_callerq[d]
      /\ \A x : Contains(c[dest], x) <=> Contains(s.p_callerq[dest], x) \/ x = caller
      /\ IsInjective(c[dest])
  BY <1>4, <1>6
<1> HIDE DEF c
<1>8. /\ v \in KState
      /\ v.p_callerq = c
      /\ v.p_flags = u.p_flags /\ v.p_getfrom = u.p_getfrom /\ v.p_mess = u.p_mess
      /\ v.rdy = u.rdy /\ v.cur_proc = u.cur_proc
  BY <1>3, <1>7 DEF ReadyOK, KState
<1> HIDE DEF v
<1>9. ReadyOK(v)
  BY <1>3, <1>8 DEF ReadyOK, ReadyListsExact, ReadyListsSorted, IsReady, CurrentIsHead
<1>10. CallerListsExact(v)
  <2>1. \A d \in Slot : IsInjective(c[d])
    BY <1>7 DEF KernelOK, CallerListsExact
  <2>2. ASSUME NEW p \in Runner, NEW d \in Slot, NEW e \in Slot,
               Contains(c[d], p), Contains(c[e], p)
        PROVE  d = e
    <3>1. CASE p = caller
      BY <1>5, <1>7, <2>2, <3>1
    <3>2. CASE p # caller
      <4>1. Contains(s.p_callerq[d], p) /\ Contains(s.p_callerq[e], p)
        BY <1>7, <2>2, <3>2
      <4> QED
        BY <4>1 DEF KernelOK, CallerListsExact
    <3> QED
      BY <3>1, <3>2
  <2>3. ASSUME NEW p \in Runner
        PROVE  SENDING \in u.p_flags[p] <=> \E d \in Slot : Contains(c[d], p)
    <3>1. CASE p = caller
      BY <1>4, <1>7, <3>1
    <3>2. CASE p # caller
      <4>1. SENDING \in u.p_flags[p] <=> SENDING \in s.p_flags[p]
        BY <1>4, <3>2 DEF Runner
      <4>2. \A d \in Slot : Contains(c[d], p) <=> Contains(s.p_callerq[d], p)
        BY <1>7, <3>2
      <4> QED
        BY <4>1, <4>2 DEF KernelOK, CallerListsExact
    <3> QED
      BY <3>1, <3>2
  <2> QED
    BY <1>8, <2>1, <2>2, <2>3 DEF CallerListsExact
<1>11. RendezvousMade(v)
  <2>1. SENDING # RECEIVING
    BY DEF SENDING, RECEIVING
  <2>2. \A d \in Slot, p \in Runner : Awaits(v, d, p) <=> Awaits(s, d, p)
    BY <1>1, <1>4, <1>8, <2>1 DEF Awaits
  <2> QED
    BY <1>7, <1>8, <2>2 DEF KernelOK, RendezvousMade
<1>12. SendersHoldMessages(v)
  <2>1. v.p_mess = t.p_mess /\ v.p_flags = u.p_flags
    BY <1>3, <1>8 DEF SameMessages
  <2>2. \A p \in Runner : p # caller => u.p_flags[p] = t.p_flags[p]
    BY <1>2, <1>4 DEF Runner
  <2> QED
    BY <1>2, <2>1, <2>2 DEF KernelOK, SendersHoldMessages
<1>13. v.p_flags[HARDWARE] = {}
  <2>1. HARDWARE \in Slot /\ HARDWARE # caller
    BY NrTasksAssumption, NrProcsAssumption DEF HARDWARE, Slot, Runner
  <2> QED
    BY <1>4, <1>8, <2>1 DEF KernelOK
<1>14. Enqueue(s, caller, dest, body) = v
  BY DEF Enqueue, v, u, t, c
<1> QED
  BY <1>9, <1>10, <1>11, <1>12, <1>13, <1>14 DEF KernelOK

\* mini_send() keeps the invariant, and changes nothing when it fails.
LEMMA MiniSendOK ==
  ASSUME NEW s, KernelOK(s), NEW caller \in Slot, NEW dest \in Slot, NEW body \in Body,
         caller # HARDWARE => SENDING \notin s.p_flags[caller], NEW addr_ok \in BOOLEAN
  PROVE  LET sent == mini_send(s, caller, dest, body, addr_ok)
         IN  /\ KernelOK(sent.k)
             /\ sent.n # "OK" => sent.k = s
             /\ sent.n = "OK" /\ caller >= LOW_USER => dest \in Server
<1>1. CASE /\ ~ (caller >= LOW_USER /\ dest \notin Server)
           /\ P_SLOT_FREE \notin s.p_flags[dest] /\ addr_ok /\ Awaits(s, dest, caller)
  <2>1. KernelOK(Deliver(s, caller, dest, body))
    BY <1>1, DeliverOK DEF Awaits
  <2> QED
    BY <1>1, <2>1 DEF mini_send
<1>2. CASE /\ ~ (caller >= LOW_USER /\ dest \notin Server)
           /\ P_SLOT_FREE \notin s.p_flags[dest] /\ addr_ok /\ ~ Awaits(s, dest, caller)
           /\ caller # HARDWARE
  <2>1. KernelOK(Enqueue(s, caller, dest, body))
    BY <1>2, EnqueueOK DEF Runner
  <2> QED
    BY <1>2, <2>1 DEF mini_send
<1> QED
  BY <1>1, <1>2 DEF mini_send

\* inform() finds the process it tells MM of.
LEMMA LowestPendingType ==
  ASSUME NEW s, \E r \in 0 .. NR_PROCS - 1 : s.p_pending[r] # {}
  PROVE  LowestPending(s) \in 0 .. NR_PROCS - 1
<1> DEFINE I == {r \in 0 .. NR_PROCS - 1 : s.p_pending[r] # {}}
<1>1. I \in SUBSET Nat /\ I # {}
  BY NrProcsAssumption
<1>2. Min(I) \in I /\ \A j \in I : Min(I) <= j
  BY <1>1, LeastExists
<1>3. \E rp \in 0 .. NR_PROCS - 1 :
        /\ s.p_pending[rp] # {}
        /\ \A r \in 0 .. NR_PROCS - 1 : s.p_pending[r] # {} => rp <= r
  BY <1>2
<1> QED
  BY <1>3 DEF LowestPending

\* inform() keeps the invariant.
LEMMA InformOK ==
  ASSUME NEW s, KernelOK(s)
  PROVE  KernelOK(inform(s))
<1> DEFINE pending == \E r \in 0 .. NR_PROCS - 1 : s.p_pending[r] # {}
           rp   == LowestPending(s)
           t    == [s EXCEPT !.sig_procs = s.sig_procs - 1]
           u    == mini_send(t, HARDWARE, MM_PROC_NR, ksig_mess(rp, s.p_pending[rp]), TRUE).k
           v    == [u EXCEPT !.p_pending[rp] = {}]
<1>1. CASE ~ pending
  BY <1>1 DEF inform
<1>2. CASE pending
  <2>1. rp \in Slot /\ HARDWARE \in Slot /\ MM_PROC_NR \in Slot
    BY <1>2, LowestPendingType, NrTasksAssumption, NrProcsAssumption
       DEF Slot, HARDWARE, MM_PROC_NR
  <2>2. s \in KState
    BY DEF KernelOK, ReadyOK
  <2>3. KernelOK(t)
    <3>1. s.sig_procs - 1 \in Int /\ s.p_pending \in [Slot -> SUBSET Signals]
      BY <2>2 DEF KState
    <3>2. t = [s EXCEPT !.sig_procs = s.sig_procs - 1, !.p_pending = s.p_pending]
      BY <2>2, <3>1 DEF KState
    <3> QED
      BY <3>1, <3>2, PendingIrrelevant
  <2>4. ksig_mess(rp, s.p_pending[rp]) \in Body
    BY <2>1, <2>2, KsigAssumption DEF KState
  <2> HIDE DEF t, rp
  <2>5. KernelOK(u)
    BY <2>1, <2>3, <2>4, MiniSendOK
  <2> HIDE DEF u
  <2>6. /\ u.sig_procs \in Int /\ [u.p_pending EXCEPT ![rp] = {}] \in [Slot -> SUBSET Signals]
        /\ v = [u EXCEPT !.sig_procs = u.sig_procs, !.p_pending = [u.p_pending EXCEPT ![rp] = {}]]
    BY <2>5 DEF KernelOK, ReadyOK, KState
  <2>7. KernelOK(v)
    BY <2>5, <2>6, PendingIrrelevant
  <2> HIDE DEF v
  <2>8. inform(s) \in {s, v}
    BY DEF inform, v, u, t, rp
  <2> QED
    BY <2>7, <2>8
<1> QED
  BY <1>1, <1>2

\* cause_sig() keeps the invariant.
LEMMA CauseSigOK ==
  ASSUME NEW s, KernelOK(s), NEW rp \in Slot, NEW sig \in Signals
  PROVE  KernelOK(cause_sig(s, rp, sig))
<1> DEFINE sp == IF s.p_pending[rp] = {} THEN s.sig_procs + 1 ELSE s.sig_procs
           pp == [s.p_pending EXCEPT ![rp] = @ \cup {sig}]
           t  == [s EXCEPT !.sig_procs = sp, !.p_pending = pp]
<1>1. sp \in Int /\ pp \in [Slot -> SUBSET Signals]
  BY DEF KernelOK, ReadyOK, KState
<1>2. cause_sig(s, rp, sig) = inform(t)
  BY DEF cause_sig
<1> HIDE DEF sp, pp
<1>3. KernelOK(t)
  BY <1>1, PendingIrrelevant
<1> QED
  BY <1>2, <1>3, InformOK

\* The sender that mini_rec() picks is one of the queue.
LEMMA SelectedSender ==
  ASSUME NEW s \in KState, NEW caller \in Slot, NEW src, Acceptable(s, caller, src)
  PROVE  FirstAcceptable(s, caller, src) \in 1 .. Len(s.p_callerq[caller])
<1> DEFINE q == s.p_callerq[caller]
           I == {j \in 1 .. Len(q) : src \in {ANY, q[j]}}
<1>1. I \in SUBSET Nat /\ I # {}
  BY DEF Acceptable
<1>2. Min(I) \in I
  BY <1>1, LeastExists
<1>3. FirstAcceptable(s, caller, src) = Min(I)
  BY <1>1 DEF FirstAcceptable, SelectInSeq
<1> QED
  BY <1>2, <1>3

\* Taking the message of a queued sender.
LEMMA TakeOK ==
  ASSUME NEW s, KernelOK(s), NEW caller \in Runner, NEW n \in 1 .. Len(s.p_callerq[caller])
  PROVE  LET sender == s.p_callerq[caller][n]
             taken  == [s EXCEPT
                          !.p_mess[caller] = cp_mess(sender, s.p_mess[sender].body),
                          !.p_callerq[caller] = RemoveAt(s.p_callerq[caller], n)]
         IN  KernelOK(Deblock(taken, sender, SENDING))
<1> DEFINE q      == s.p_callerq[caller]
           sender == q[n]
           t      == [s EXCEPT !.p_mess[caller] = cp_mess(sender, s.p_mess[sender].body)]
           c      == [s.p_callerq EXCEPT ![caller] = RemoveAt(q, n)]
           taken  == [t EXCEPT !.p_callerq = c]
           u      == Deblock(taken, sender, SENDING)
<1>1. /\ s \in KState /\ caller \in Slot /\ q \in Seq(Runner) /\ IsInjective(q)
      /\ sender \in Runner /\ Contains(q, sender)
  BY ElementOfSeq DEF KernelOK, ReadyOK, KState, Runner, CallerListsExact, Contains
<1>2. SENDING \in s.p_flags[sender] /\ s.p_mess[sender] \in Message
  BY <1>1 DEF KernelOK, CallerListsExact, SendersHoldMessages
<1>3. cp_mess(sender, s.p_mess[sender].body) \in Message
  BY <1>1, <1>2 DEF cp_mess, Message, Runner
<1>4. /\ RemoveAt(q, n) \in Seq(Runner) /\ IsInjective(RemoveAt(q, n))
      /\ \A x : Contains(RemoveAt(q, n), x) <=> Contains(q, x) /\ x # sender
  <2> HIDE DEF q
  <2>1. /\ RemoveAt(q, n) \in Seq(Runner) /\ IsInjective(RemoveAt(q, n))
        /\ \A x : Contains(RemoveAt(q, n), x) <=> Contains(q, x) /\ x # q[n]
    BY <1>1, RemoveAtList DEF q
  <2> QED
    BY <2>1
<1> HIDE DEF sender
<1>5. /\ KernelOK(t) /\ t.p_flags = s.p_flags /\ t.p_callerq = s.p_callerq
      /\ t.p_getfrom = s.p_getfrom
  <2>1. KernelOK(t) /\ t.p_flags = s.p_flags
    BY <1>1, <1>3, BufferIrrelevant
  <2> QED
    BY <1>1, <2>1 DEF KState
<1>6. taken = [s EXCEPT
                 !.p_mess[caller] = cp_mess(sender, s.p_mess[sender].body),
                 !.p_callerq[caller] = RemoveAt(q, n)]
  BY <1>1 DEF KState
<1> HIDE DEF t
<1>7. /\ c \in [Slot -> Seq(Runner)]
      /\ \A d \in Slot : d # caller => c[d] = s.p_callerq[d]
      /\ c[caller] = RemoveAt(q, n)
  BY <1>1, <1>4 DEF KState
<1> HIDE DEF c, q
<1>8. /\ taken \in KState
      /\ taken.p_callerq = c
      /\ taken.p_flags = s.p_flags /\ taken.p_getfrom = s.p_getfrom
      /\ taken.p_mess = t.p_mess
      /\ taken.rdy = t.rdy /\ taken.cur_proc = t.cur_proc
  BY <1>5, <1>7 DEF KernelOK, ReadyOK, KState
<1> HIDE DEF taken
<1>9. ReadyOK(taken)
  BY <1>5, <1>8
     DEF KernelOK, ReadyOK, ReadyListsExact, ReadyListsSorted, IsReady, CurrentIsHead
<1>10. /\ ReadyOK(u) /\ SameMessages(taken, u)
       /\ u.p_flags = [taken.p_flags EXCEPT ![sender] = @ \ {SENDING}]
  BY <1>1, <1>2, <1>8, <1>9, DeblockReady
<1> HIDE DEF u
<1>11. /\ \A x \in Slot : x # sender => u.p_flags[x] = s.p_flags[x]
       /\ u.p_flags[sender] = s.p_flags[sender] \ {SENDING}
       /\ u.p_callerq = c /\ u.p_getfrom = s.p_getfrom /\ u.p_mess = t.p_mess
  BY <1>1, <1>8, <1>10 DEF KState, SameMessages, Runner
<1>12. \A x \in Runner, d \in Slot :
          Contains(c[d], x) <=> Contains(s.p_callerq[d], x) /\ x # sender
  <2>1. \A d \in Slot : Contains(s.p_callerq[d], sender) => d = caller
    BY <1>1 DEF KernelOK, CallerListsExact, q
  <2> QED
    BY <1>4, <1>7, <2>1 DEF q
<1>13. CallerListsExact(u)
  <2>1. \A d \in Slot : IsInjective(c[d])
    BY <1>4, <1>7 DEF KernelOK, CallerListsExact
  <2>2. \A p \in Runner, d, e \in Slot : Contains(c[d], p) /\ Contains(c[e], p) => d = e
    BY <1>12 DEF KernelOK, CallerListsExact
  <2>3. ASSUME NEW p \in Runner
        PROVE  SENDING \in u.p_flags[p] <=> \E d \in Slot : Contains(c[d], p)
    BY <1>11, <1>12 DEF KernelOK, CallerListsExact, Runner
  <2> QED
    BY <1>11, <2>1, <2>2, <2>3 DEF CallerListsExact
<1>14. RendezvousMade(u)
  <2>1. SENDING # RECEIVING
    BY DEF SENDING, RECEIVING
  <2>2. \A d \in Slot, p \in Runner : Awaits(u, d, p) <=> Awaits(s, d, p)
    BY <1>11, <2>1 DEF Awaits
  <2> QED
    BY <1>11, <1>12, <2>2 DEF KernelOK, RendezvousMade
<1>15. SendersHoldMessages(u)
  BY <1>5, <1>11 DEF KernelOK, SendersHoldMessages, Runner
<1>16. u.p_flags[HARDWARE] = {}
  <2>1. HARDWARE \in Slot /\ HARDWARE # sender
    BY <1>1, NrTasksAssumption, NrProcsAssumption DEF HARDWARE, Slot, Runner
  <2> QED
    BY <1>11, <2>1 DEF KernelOK
<1>17. KernelOK(u)
  BY <1>10, <1>13, <1>14, <1>15, <1>16 DEF KernelOK
<1> QED
  BY <1>6, <1>17 DEF u, q, sender

\* A caller that finds no acceptable sender blocks as a receiver.
LEMMA BlockReceiverOK ==
  ASSUME NEW s, KernelOK(s), NEW caller \in Runner, NEW src \in Slot \cup {ANY},
         ~ Acceptable(s, caller, src)
  PROVE  KernelOK(Block([s EXCEPT !.p_getfrom[caller] = src], caller, RECEIVING))
<1> DEFINE t == [s EXCEPT !.p_getfrom[caller] = src]
           u == Block(t, caller, RECEIVING)
<1>1. /\ s \in KState /\ caller \in Slot /\ RECEIVING \in Flag
      /\ s.p_callerq[caller] \in Seq(Runner)
  BY DEF KernelOK, ReadyOK, KState, Runner, Flag
<1>2. /\ t \in KState
      /\ t.rdy = s.rdy /\ t.cur_proc = s.cur_proc /\ t.p_flags = s.p_flags
      /\ t.p_callerq = s.p_callerq /\ t.p_mess = s.p_mess
      /\ t.p_getfrom[caller] = src
      /\ \A x \in Slot : x # caller => t.p_getfrom[x] = s.p_getfrom[x]
  BY <1>1 DEF KState
<1> HIDE DEF t
<1>3. ReadyOK(t)
  BY <1>2 DEF KernelOK, ReadyOK, ReadyListsExact, ReadyListsSorted, IsReady, CurrentIsHead
<1>4. /\ ReadyOK(u) /\ SameMessages(t, u)
      /\ u.p_flags = [t.p_flags EXCEPT ![caller] = @ \cup {RECEIVING}]
  BY <1>1, <1>3, BlockReady
<1> HIDE DEF u
<1>5. /\ \A x \in Slot : x # caller => u.p_flags[x] = s.p_flags[x]
      /\ u.p_flags[caller] = s.p_flags[caller] \cup {RECEIVING}
      /\ u.p_callerq = s.p_callerq /\ u.p_mess = s.p_mess /\ u.p_getfrom = t.p_getfrom
  BY <1>1, <1>2, <1>4 DEF KState, SameMessages
<1>6. SENDING # RECEIVING
  BY DEF SENDING, RECEIVING
<1>7. CallerListsExact(u)
  BY <1>5, <1>6 DEF KernelOK, CallerListsExact, Runner
<1>8. RendezvousMade(u)
  <2>1. ASSUME NEW p \in Runner, Contains(s.p_callerq[caller], p) PROVE src \notin {ANY, p}
    BY <2>1 DEF Acceptable, Contains
  <2>2. ASSUME NEW p \in Runner, NEW d \in Slot, Contains(s.p_callerq[d], p)
        PROVE  ~ Awaits(u, d, p)
    <3>1. CASE d = caller
      BY <1>2, <1>5, <2>1, <2>2, <3>1 DEF Awaits
    <3>2. CASE d # caller
      BY <1>2, <1>5, <2>2, <3>2 DEF KernelOK, RendezvousMade, Awaits
    <3> QED
      BY <3>1, <3>2
  <2> QED
    BY <1>5, <2>2 DEF RendezvousMade
<1>9. SendersHoldMessages(u)
  BY <1>5, <1>6 DEF KernelOK, SendersHoldMessages, Runner
<1>10. u.p_flags[HARDWARE] = {}
  <2>1. HARDWARE \in Slot /\ HARDWARE # caller
    BY NrTasksAssumption, NrProcsAssumption DEF HARDWARE, Slot, Runner
  <2> QED
    BY <1>5, <2>1 DEF KernelOK
<1> QED
  BY <1>4, <1>7, <1>8, <1>9, <1>10 DEF KernelOK, u, t

\* mini_rec() keeps the invariant.
LEMMA MiniRecOK ==
  ASSUME NEW s, KernelOK(s), NEW caller \in Runner, NEW src \in Slot \cup {ANY}
  PROVE  KernelOK(mini_rec(s, caller, src))
<1> DEFINE q == s.p_callerq[caller]
           i == FirstAcceptable(s, caller, src)
           blocked == Block([s EXCEPT !.p_getfrom[caller] = src], caller, RECEIVING)
<1>1. CASE Acceptable(s, caller, src)
  <2>1. i \in 1 .. Len(q)
    BY <1>1, SelectedSender DEF KernelOK, ReadyOK, Runner
  <2>2. mini_rec(s, caller, src) =
          Deblock([s EXCEPT
                     !.p_mess[caller] = cp_mess(q[i], s.p_mess[q[i]].body),
                     !.p_callerq[caller] = RemoveAt(q, i)], q[i], SENDING)
    BY <1>1 DEF mini_rec
  <2> HIDE DEF i
  <2> QED
    BY <2>1, <2>2, TakeOK
<1>2. CASE ~ Acceptable(s, caller, src)
  <2>1. KernelOK(blocked)
    BY <1>2, BlockReceiverOK
  <2>2. mini_rec(s, caller, src) \in {blocked, inform(blocked)}
    BY <1>2 DEF mini_rec
  <2> HIDE DEF blocked
  <2> QED
    BY <2>1, <2>2, InformOK
<1> QED
  BY <1>1, <1>2

\* sys_call() keeps the invariant, whatever its parameters.  A call of a user
\* that succeeds went to MM or FS.
LEMMA SysCallOK ==
  ASSUME NEW s, KernelOK(s), NEW caller \in Runner, SENDING \notin s.p_flags[caller],
         NEW function, NEW src_dest, NEW body \in Body, NEW addr_ok \in BOOLEAN,
         "SEND" \in function => src_dest # ANY \/ caller >= LOW_USER
  PROVE  LET called == sys_call(s, function, caller, src_dest, body, addr_ok)
         IN  /\ KernelOK(called.k)
             /\ caller >= LOW_USER /\ called.n = "OK" => src_dest \in Server
<1> DEFINE sent == mini_send(s, caller, src_dest, body, addr_ok)
           called == sys_call(s, function, caller, src_dest, body, addr_ok)
<1>1. caller \in Slot /\ caller # HARDWARE
  BY DEF Runner
<1>2. CASE src_dest \notin Slot \cup {ANY}
  BY <1>2 DEF sys_call
<1>3. CASE src_dest = ANY /\ "SEND" \in function
  <2>1. caller >= LOW_USER /\ ANY \notin Server
    BY <1>3, NrProcsAssumption DEF ANY, Server, MM_PROC_NR, FS_PROC_NR
  <2>2. sent = [n |-> "E_BAD_DEST", k |-> s]
    BY <1>3, <2>1 DEF mini_send
  <2> HIDE DEF sent
  <2> QED
    BY <1>3, <2>2 DEF sys_call, sent
<1>4. CASE src_dest \in Slot /\ "SEND" \in function
  <2>1. /\ KernelOK(sent.k)
        /\ sent.n # "OK" => sent.k = s
        /\ sent.n = "OK" /\ caller >= LOW_USER => src_dest \in Server
    BY <1>1, <1>4, MiniSendOK
  <2> DEFINE u == sent.k
  <2>2. KernelOK(mini_rec(u, caller, src_dest))
    <3> HIDE DEF sent
    <3> QED
      BY <1>4, <2>1, MiniRecOK
  <2>3. called.k \in {s, u, mini_rec(u, caller, src_dest)}
    BY <1>4 DEF sys_call
  <2>4. called.n = "OK" => sent.n = "OK"
    BY <1>4 DEF sys_call
  <2> HIDE DEF sent, called
  <2> QED
    BY <2>1, <2>2, <2>3, <2>4 DEF called
<1>5. CASE src_dest \in Slot \cup {ANY} /\ "SEND" \notin function
  <2>1. KernelOK(mini_rec(s, caller, src_dest))
    BY <1>5, MiniRecOK
  <2>2. called.k \in {s, mini_rec(s, caller, src_dest)}
    BY <1>5 DEF sys_call
  <2>3. caller >= LOW_USER => called.n # "OK"
    BY <1>5 DEF sys_call
  <2> HIDE DEF called
  <2> QED
    BY <2>1, <2>2, <2>3 DEF called
<1> QED
  BY <1>2, <1>3, <1>4, <1>5

\* main() readies processes in slot order: a list of consecutive slots holds each
\* of them once.
LEMMA AscendingList ==
  ASSUME NEW lo \in Int, NEW n \in Nat, NEW S, \A i \in 1 .. n : lo + i - 1 \in S
  PROVE  /\ Ascending(lo, n) \in Seq(S)
         /\ IsInjective(Ascending(lo, n))
         /\ \A p \in Int : Contains(Ascending(lo, n), p) <=> p \in lo .. lo + n - 1
<1> DEFINE a == Ascending(lo, n)
<1>1. /\ a \in Seq(S) /\ Len(a) = n /\ DOMAIN a = 1 .. n
      /\ \A i \in 1 .. n : a[i] = lo + i - 1
  BY DEF Ascending
<1> HIDE DEF a
<1>2. IsInjective(a)
  BY <1>1 DEF IsInjective
<1>3. ASSUME NEW p \in Int PROVE Contains(a, p) <=> p \in lo .. lo + n - 1
  <2>1. ASSUME Contains(a, p) PROVE p \in lo .. lo + n - 1
    BY <1>1, <2>1 DEF Contains
  <2>2. ASSUME p \in lo .. lo + n - 1 PROVE Contains(a, p)
    <3>1. p - lo + 1 \in 1 .. n /\ a[p - lo + 1] = p
      BY <1>1, <2>2
    <3> QED
      BY <1>1, <3>1 DEF Contains
  <2> QED
    BY <2>1, <2>2
<1> QED
  BY <1>1, <1>2, <1>3 DEF a

\* The state main() leaves is consistent.
LEMMA BootOK ==
  ASSUME NEW users \in 1 .. NR_PROCS - LOW_USER
  PROVE  KernelOK(Boot(users))
<1> DEFINE flags == [p \in Slot |-> IF p >= LOW_USER + users THEN {P_SLOT_FREE} ELSE {}]
           lists == [q \in Queue |->
                       IF q = TASK_Q THEN Ascending(-NR_TASKS, NR_TASKS - 1)
                       ELSE IF q = SERVER_Q THEN Ascending(MM_PROC_NR, 2)
                       ELSE Ascending(LOW_USER, users)]
           s == [p_flags   |-> flags,
                 p_getfrom |-> [p \in Slot |-> MM_PROC_NR],
                 p_callerq |-> [p \in Slot |-> <<>>],
                 p_mess    |-> [p \in Slot |-> NilMess],
                 p_pending |-> [p \in Slot |-> {}],
                 sig_procs |-> 0,
                 rdy       |-> lists,
                 cur_proc  |-> MM_PROC_NR,
                 prev_proc |-> MM_PROC_NR,
                 bill_ptr  |-> HARDWARE]
           u == pick_proc(s)
<1> USE DEF TASK_Q, SERVER_Q, USER_Q, MM_PROC_NR, HARDWARE, LOW_USER
<1>1. NR_TASKS \in Nat /\ NR_TASKS >= 3 /\ NR_PROCS \in Nat /\ users \in Nat
  BY NrTasksAssumption, NrProcsAssumption
<1>2. flags \in [Slot -> SUBSET Flag]
  BY DEF Flag
<1>3. /\ lists[TASK_Q] \in Seq(Runner) /\ IsInjective(lists[TASK_Q])
      /\ \A p \in Int : Contains(lists[TASK_Q], p) <=> p \in -NR_TASKS .. -2
  <2>1. \A i \in 1 .. NR_TASKS - 1 : -NR_TASKS + i - 1 \in Runner
    BY <1>1 DEF Runner, Slot
  <2>2. lists[TASK_Q] = Ascending(-NR_TASKS, NR_TASKS - 1)
    BY DEF Queue
  <2>3. -NR_TASKS + (NR_TASKS - 1) - 1 = -2 /\ -NR_TASKS \in Int /\ NR_TASKS - 1 \in Nat
    BY <1>1
  <2> HIDE DEF lists
  <2>4. /\ Ascending(-NR_TASKS, NR_TASKS - 1) \in Seq(Runner)
        /\ IsInjective(Ascending(-NR_TASKS, NR_TASKS - 1))
        /\ \A p \in Int : Contains(Ascending(-NR_TASKS, NR_TASKS - 1), p)
                            <=> p \in -NR_TASKS .. -NR_TASKS + (NR_TASKS - 1) - 1
    BY <2>1, <2>3, AscendingList
  <2> QED
    BY <2>2, <2>3, <2>4
<1>4. /\ lists[SERVER_Q] \in Seq(Runner) /\ IsInjective(lists[SERVER_Q])
      /\ \A p \in Int : Contains(lists[SERVER_Q], p) <=> p \in 0 .. 1
  <2>1. \A i \in 1 .. 2 : 0 + i - 1 \in Runner
    BY <1>1, NrProcsAssumption DEF Runner, Slot
  <2>2. lists[SERVER_Q] = Ascending(0, 2)
    BY DEF Queue
  <2>3. 0 + 2 - 1 = 1 /\ 0 \in Int /\ 2 \in Nat
    OBVIOUS
  <2> HIDE DEF lists
  <2>4. /\ Ascending(0, 2) \in Seq(Runner)
        /\ IsInjective(Ascending(0, 2))
        /\ \A p \in Int : Contains(Ascending(0, 2), p) <=> p \in 0 .. 0 + 2 - 1
    BY <2>1, <2>3, AscendingList
  <2> QED
    BY <2>2, <2>3, <2>4
<1>5. /\ lists[USER_Q] \in Seq(Runner) /\ IsInjective(lists[USER_Q])
      /\ \A p \in Int : Contains(lists[USER_Q], p) <=> p \in 2 .. 2 + users - 1
  <2>1. \A i \in 1 .. users : 2 + i - 1 \in Runner
    BY <1>1, NrProcsAssumption DEF Runner, Slot
  <2>2. lists[USER_Q] = Ascending(2, users)
    BY DEF Queue
  <2> HIDE DEF lists
  <2> QED
    BY <1>1, <2>1, <2>2, AscendingList
<1>6. lists \in [Queue -> Seq(Runner)]
  BY <1>3, <1>4, <1>5 DEF Queue
<1>7. s \in KState
  <2>1. MM_PROC_NR \in Slot /\ MM_PROC_NR \in Runner /\ HARDWARE \in Slot
    BY <1>1, NrProcsAssumption DEF Slot, Runner
  <2>2. <<>> \in Seq(Runner)
    BY EmptySeq
  <2> HIDE DEF flags, lists
  <2> QED
    BY <1>2, <1>6, <2>1, <2>2 DEF KState
<1>8. ReadyListsSorted(s)
  <2>1. \A p \in Runner : p \in Int
    BY <1>1 DEF Runner, Slot
  <2>2. s.rdy = lists
    OBVIOUS
  <2> HIDE DEF lists, s
  <2>3. \A q \in Queue : IsInjective(s.rdy[q])
    BY <1>3, <1>4, <1>5, <2>2 DEF Queue
  <2>4. ASSUME NEW q \in Queue, NEW p \in Runner, Contains(s.rdy[q], p)
        PROVE  queue(p) = q
    BY <1>1, <1>3, <1>4, <1>5, <2>1, <2>2, <2>4 DEF Queue, queue
  <2> QED
    BY <2>3, <2>4 DEF ReadyListsSorted
<1>9. \A p \in Runner : IsReady(s, p) <=> s.p_flags[p] = {}
  <2>1. ASSUME NEW p \in Runner PROVE IsReady(s, p) <=> s.p_flags[p] = {}
    <3>1. p \in Slot /\ p # -1 /\ p \in -NR_TASKS .. NR_PROCS - 1
      BY DEF Runner, Slot
    <3>2. s.p_flags[p] = {} <=> p < 2 + users
      BY <1>1, <3>1
    <3>3. s.rdy = lists
      OBVIOUS
    <3> HIDE DEF s, lists
    <3> QED
      BY <1>1, <1>3, <1>4, <1>5, <3>1, <3>2, <3>3 DEF IsReady, queue
  <2> QED
    BY <2>1
<1>10. /\ u \in KState /\ SameTable(s, u) /\ u.rdy = s.rdy /\ CurrentIsHead(u)
  BY <1>7, <1>8, PickProc
<1>11. Boot(users) = u
  BY DEF Boot
<1>12. /\ s.p_flags = flags
       /\ \A d \in Slot : s.p_callerq[d] = <<>>
  OBVIOUS
<1> HIDE DEF s, u, lists
<1>13. ReadyOK(u)
  BY <1>8, <1>9, <1>10 DEF ReadyOK, ReadyListsExact, ReadyListsSorted, IsReady, SameTable
<1>14. \A d \in Slot : \A x : ~ Contains(u.p_callerq[d], x)
  BY <1>10, <1>12 DEF SameTable, Contains
<1>15. \A p \in Slot : SENDING \notin u.p_flags[p]
  BY <1>10, <1>12 DEF SameTable, SENDING, P_SLOT_FREE
<1>16. \A d \in Slot : IsInjective(u.p_callerq[d])
  BY <1>10, <1>12 DEF SameTable, IsInjective
<1>17. CallerListsExact(u) /\ RendezvousMade(u) /\ SendersHoldMessages(u)
  BY <1>14, <1>15, <1>16
     DEF CallerListsExact, RendezvousMade, SendersHoldMessages, Runner
<1>18. u.p_flags[HARDWARE] = {}
  <2>1. -1 \in Slot
    BY <1>1, NrProcsAssumption DEF Slot
  <2> QED
    BY <1>1, <1>10, <1>12, <2>1 DEF SameTable
<1> QED
  BY <1>11, <1>13, <1>17, <1>18 DEF KernelOK
=============================================================================
