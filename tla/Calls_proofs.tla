----------------------------- MODULE Calls_proofs -----------------------------
(***************************************************************************)
(* What the message calls promise to those who make them: users only get   *)
(* the answers they asked for, MM is told of every signal when it awaits   *)
(* work, and, if the system processes call each other in one direction     *)
(* only, nobody who takes part in sendrec() is left behind.                *)
(*                                                                         *)
(* The first part says what each routine of kernel/proc.c does to the      *)
(* message fields of the process table, as relations between the kernel    *)
(* state s before and t after it; the invariance proofs use nothing else   *)
(* of the routines.                                                        *)
(***************************************************************************)
EXTENDS IPC_proofs, FiniteSetTheorems

\* t differs from s in the pending signals only.
SameCalls(s, t) ==
  /\ t.p_flags = s.p_flags /\ t.p_mess = s.p_mess
  /\ t.p_getfrom = s.p_getfrom /\ t.p_callerq = s.p_callerq
  /\ t.cur_proc = s.cur_proc

SamePending(s, t) == t.p_pending = s.p_pending /\ t.sig_procs = s.sig_procs

\* Who gives the CPU away leaves it idle only when nobody is runnable.
IdleOnly(s, t) ==
  t.cur_proc = IDLE => s.cur_proc = IDLE \/ \A p \in Runner : t.p_flags[p] # {}

\* mini_send() found dest waiting: it has the message and waits no longer.
Delivered(s, t, src, dest, body) ==
  /\ Awaits(s, dest, src)
  /\ \A p \in Slot :
       /\ t.p_flags[p] = IF p = dest THEN s.p_flags[p] \ {RECEIVING} ELSE s.p_flags[p]
       /\ t.p_mess[p] = IF p = dest THEN cp_mess(src, body) ELSE s.p_mess[p]
  /\ t.p_getfrom = s.p_getfrom /\ t.p_callerq = s.p_callerq
  /\ t.cur_proc = s.cur_proc

\* mini_send() queued caller at dest.
Queued(s, t, caller, dest, body) ==
  /\ ~ Awaits(s, dest, caller)
  /\ \A p \in Slot :
       /\ t.p_flags[p] = IF p = caller THEN s.p_flags[p] \cup {SENDING} ELSE s.p_flags[p]
       /\ t.p_mess[p] = IF p = caller THEN cp_mess(caller, body) ELSE s.p_mess[p]
  /\ \A d \in Slot : \A p \in Runner :
       Contains(t.p_callerq[d], p) <=>
         Contains(s.p_callerq[d], p) \/ (d = dest /\ p = caller)
  /\ t.p_getfrom = s.p_getfrom
  /\ IdleOnly(s, t)

\* mini_rec() took the message of sender out of the queue of caller.
Took(s, t, caller, sender) ==
  /\ sender \in Runner /\ Contains(s.p_callerq[caller], sender)
  /\ \A p \in Slot :
       /\ t.p_flags[p] = IF p = sender THEN s.p_flags[p] \ {SENDING} ELSE s.p_flags[p]
       /\ t.p_mess[p] = IF p = caller THEN cp_mess(sender, s.p_mess[sender].body)
                        ELSE s.p_mess[p]
  /\ \A d \in Slot : \A p \in Runner :
       Contains(t.p_callerq[d], p) <=> Contains(s.p_callerq[d], p) /\ p # sender
  /\ t.p_getfrom = s.p_getfrom
  /\ t.cur_proc = s.cur_proc

\* mini_rec() found nothing for caller and blocked it.
Waits(s, t, caller, src) ==
  /\ \A p \in Slot :
       /\ t.p_flags[p] = IF p = caller THEN s.p_flags[p] \cup {RECEIVING} ELSE s.p_flags[p]
       /\ t.p_getfrom[p] = IF p = caller THEN src ELSE s.p_getfrom[p]
  /\ t.p_mess = s.p_mess /\ t.p_callerq = s.p_callerq
  /\ IdleOnly(s, t)

-----------------------------------------------------------------------------
(* The routines.                                                           *)

\* Deliver() of mini_send().
LEMMA DeliverEffect ==
  ASSUME NEW s, KernelOK(s), NEW src \in Slot, NEW dest \in Slot, NEW body \in Body,
         Awaits(s, dest, src)
  PROVE  LET t == Deliver(s, src, dest, body)
         IN  Delivered(s, t, src, dest, body) /\ SamePending(s, t)
<1> DEFINE m == [s EXCEPT !.p_mess[dest] = cp_mess(src, body)]
           t == Deblock(m, dest, RECEIVING)
<1>1. dest \in Runner /\ RECEIVING \in s.p_flags[dest] /\ s \in KState
  BY DEF KernelOK, ReadyOK, Runner, Awaits
<1>2. cp_mess(src, body) \in Message
  BY DEF cp_mess, Message
<1>3. KernelOK(m) /\ m.p_flags = s.p_flags
  BY <1>2, BufferIrrelevant
<1>4. /\ m.p_mess = [s.p_mess EXCEPT ![dest] = cp_mess(src, body)]
      /\ m.p_getfrom = s.p_getfrom /\ m.p_callerq = s.p_callerq /\ m.cur_proc = s.cur_proc
      /\ SamePending(s, m)
  BY <1>1 DEF KState, SamePending
<1> HIDE DEF m
<1>5. /\ SameMessages(m, t)
      /\ t.p_flags = [m.p_flags EXCEPT ![dest] = @ \ {RECEIVING}]
      /\ t.cur_proc = m.cur_proc
  BY <1>1, <1>3, DeblockReady DEF KernelOK
<1> HIDE DEF t
<1>6. s.p_flags \in [Slot -> SUBSET Flag] /\ s.p_mess \in [Slot -> Message \cup {NilMess}]
  BY <1>1 DEF KState
<1>7. Delivered(s, t, src, dest, body) /\ SamePending(s, t)
  BY <1>3, <1>4, <1>5, <1>6 DEF Delivered, SamePending, SameMessages
<1> QED
  BY <1>7 DEF Deliver, t, m

\* Enqueue() of mini_send().
LEMMA EnqueueEffect ==
  ASSUME NEW s, KernelOK(s), NEW caller \in Runner, NEW dest \in Slot, NEW body \in Body,
         SENDING \notin s.p_flags[caller], ~ Awaits(s, dest, caller)
  PROVE  LET t == Enqueue(s, caller, dest, body)
         IN  Queued(s, t, caller, dest, body) /\ SamePending(s, t)
<1> DEFINE m == [s EXCEPT !.p_mess[caller] = cp_mess(caller, body)]
           u == Block(m, caller, SENDING)
           t == [u EXCEPT !.p_callerq[dest] = Append(@, caller)]
<1>1. cp_mess(caller, body) \in Message /\ caller \in Slot /\ SENDING \in Flag
      /\ s \in KState
  BY DEF cp_mess, Message, Runner, Flag, KernelOK, ReadyOK
<1>2. KernelOK(m) /\ m.p_flags = s.p_flags
  BY <1>1, BufferIrrelevant
<1>3. /\ m.p_mess = [s.p_mess EXCEPT ![caller] = cp_mess(caller, body)]
      /\ m.p_getfrom = s.p_getfrom /\ m.p_callerq = s.p_callerq /\ m.cur_proc = s.cur_proc
      /\ SamePending(s, m)
  BY <1>1 DEF KState, SamePending
<1> HIDE DEF m
<1>4. /\ ReadyOK(u) /\ SameMessages(m, u)
      /\ u.p_flags = [m.p_flags EXCEPT ![caller] = @ \cup {SENDING}]
      /\ NoneLeft(m, u)
  BY <1>1, <1>2, BlockReady DEF KernelOK
<1> HIDE DEF u
<1>5. u \in KState /\ ReadyListsExact(u)
  BY <1>4 DEF ReadyOK
<1>6. /\ t.p_callerq = [u.p_callerq EXCEPT ![dest] = Append(@, caller)]
      /\ t.p_flags = u.p_flags /\ t.p_mess = u.p_mess /\ t.p_getfrom = u.p_getfrom
      /\ t.p_pending = u.p_pending /\ t.sig_procs = u.sig_procs
      /\ t.cur_proc = u.cur_proc
  BY <1>5 DEF KState
<1> HIDE DEF t
<1>7. ASSUME NEW d \in Slot, NEW p \in Runner
      PROVE  Contains(t.p_callerq[d], p) <=>
               Contains(s.p_callerq[d], p) \/ (d = dest /\ p = caller)
  <2> DEFINE l == s.p_callerq[dest]
  <2>1. u.p_callerq = s.p_callerq /\ u.p_callerq \in [Slot -> Seq(Runner)]
    BY <1>3, <1>4, <1>5 DEF SameMessages, KState
  <2>2. l \in Seq(Runner)
    BY <2>1
  <2>3. /\ t.p_callerq[dest] = Append(l, caller)
        /\ d # dest => t.p_callerq[d] = s.p_callerq[d]
    BY <1>6, <2>1
  <2>4. Contains(Append(l, caller), p) <=> Contains(l, p) \/ p = caller
    <3> HIDE DEF l
    <3> QED
      BY <2>2, AppendList
  <2> QED
    BY <2>3, <2>4
<1>8. IdleOnly(s, t)
  BY <1>3, <1>4, <1>5, <1>6 DEF IdleOnly, NoneLeft, ReadyListsExact
<1>9. s.p_flags \in [Slot -> SUBSET Flag] /\ s.p_mess \in [Slot -> Message \cup {NilMess}]
  BY <1>1 DEF KState
<1>10. SamePending(s, t) /\ t.p_getfrom = s.p_getfrom
  BY <1>3, <1>4, <1>6 DEF SamePending, SameMessages
<1>11. \A p \in Slot :
         /\ t.p_flags[p] = IF p = caller THEN s.p_flags[p] \cup {SENDING} ELSE s.p_flags[p]
         /\ t.p_mess[p] = IF p = caller THEN cp_mess(caller, body) ELSE s.p_mess[p]
  <2>1. t.p_flags = [s.p_flags EXCEPT ![caller] = @ \cup {SENDING}]
    BY <1>2, <1>4, <1>6
  <2>2. t.p_mess = [s.p_mess EXCEPT ![caller] = cp_mess(caller, body)]
    BY <1>3, <1>4, <1>6 DEF SameMessages
  <2> QED
    BY <1>9, <2>1, <2>2
<1>12. Queued(s, t, caller, dest, body)
  BY <1>7, <1>8, <1>10, <1>11 DEF Queued
<1> QED
  BY <1>10, <1>12 DEF Enqueue, t, u, m

\* mini_send() fails and changes nothing, delivers, or queues its caller.
LEMMA SendEffect ==
  ASSUME NEW s, KernelOK(s), NEW caller \in Slot, NEW dest \in Slot, NEW body \in Body,
         caller # HARDWARE => SENDING \notin s.p_flags[caller], NEW addr_ok \in BOOLEAN
  PROVE  LET sent == mini_send(s, caller, dest, body, addr_ok)
         IN  /\ sent.n # "OK" => sent.k = s
             /\ sent.n = "OK" =>
                  \/ Delivered(s, sent.k, caller, dest, body)
                  \/ caller # HARDWARE /\ Queued(s, sent.k, caller, dest, body)
             /\ SamePending(s, sent.k)
             /\ P_SLOT_FREE \notin s.p_flags[dest] /\ Awaits(s, dest, caller) /\ addr_ok
                  /\ caller < LOW_USER => sent.n = "OK"
<1> DEFINE good == /\ ~ (caller >= LOW_USER /\ dest \notin Server)
                   /\ P_SLOT_FREE \notin s.p_flags[dest] /\ addr_ok
<1>1. CASE good /\ Awaits(s, dest, caller)
  <2>1. /\ Delivered(s, Deliver(s, caller, dest, body), caller, dest, body)
        /\ SamePending(s, Deliver(s, caller, dest, body))
    BY <1>1, DeliverEffect
  <2> QED
    BY <1>1, <2>1 DEF mini_send
<1>2. CASE good /\ ~ Awaits(s, dest, caller) /\ caller # HARDWARE
  <2>1. /\ Queued(s, Enqueue(s, caller, dest, body), caller, dest, body)
        /\ SamePending(s, Enqueue(s, caller, dest, body))
    BY <1>2, EnqueueEffect DEF Runner
  <2> QED
    BY <1>2, <2>1 DEF mini_send
<1>3. CASE ~ good \/ (~ Awaits(s, dest, caller) /\ caller = HARDWARE)
  <2>1. caller \in Int
    BY NrTasksAssumption, NrProcsAssumption DEF Slot
  <2> QED
    BY <1>3, <2>1 DEF mini_send, SamePending, LOW_USER
<1> QED
  BY <1>1, <1>2, <1>3

\* A call with a good message address that is refused, and one to a process that waits.
LEMMA SendRefused ==
  ASSUME NEW s, KernelOK(s), NEW caller \in Slot, NEW dest \in Slot, NEW body \in Body,
         SENDING \notin s.p_flags[caller]
  PROVE  LET sent == mini_send(s, caller, dest, body, TRUE)
         IN  sent.n # "OK" => sent.k = s
<1>1. TRUE \in BOOLEAN
  OBVIOUS
<1> QED
  BY <1>1, SendEffect, ZenonT(60)

LEMMA SendAnswers ==
  ASSUME NEW s, KernelOK(s), NEW caller \in Slot, NEW dest \in Slot, NEW body \in Body,
         SENDING \notin s.p_flags[caller], caller < LOW_USER
  PROVE  LET sent == mini_send(s, caller, dest, body, TRUE)
         IN  /\ P_SLOT_FREE \notin s.p_flags[dest] /\ Awaits(s, dest, caller) => sent.n = "OK"
             /\ sent.n = "OK" => \/ Delivered(s, sent.k, caller, dest, body)
                                \/ Queued(s, sent.k, caller, dest, body)
<1>1. TRUE \in BOOLEAN
  OBVIOUS
<1> QED
  BY <1>1, SendEffect, ZenonT(60)

\* mini_rec() takes the message of a sender it accepts.
LEMMA TakeEffect ==
  ASSUME NEW s, KernelOK(s), NEW caller \in Runner, NEW src, Acceptable(s, caller, src)
  PROVE  \E sender \in Runner :
           /\ src \in {ANY, sender}
           /\ Took(s, mini_rec(s, caller, src), caller, sender)
           /\ SamePending(s, mini_rec(s, caller, src))
<1> DEFINE q == s.p_callerq[caller]
           n == FirstAcceptable(s, caller, src)
           sender == q[n]
           c == [s.p_callerq EXCEPT ![caller] = RemoveAt(q, n)]
           taken == [s EXCEPT !.p_mess[caller] = cp_mess(sender, s.p_mess[sender].body),
                              !.p_callerq[caller] = RemoveAt(q, n)]
           t == Deblock(taken, sender, SENDING)
<1>1. s \in KState /\ caller \in Slot /\ q \in Seq(Runner) /\ IsInjective(q)
  BY DEF KernelOK, ReadyOK, KState, Runner, CallerListsExact
<1>2. n \in 1 .. Len(q) /\ src \in {ANY, sender}
  <2> DEFINE I == {j \in 1 .. Len(q) : src \in {ANY, q[j]}}
  <2>1. I \in SUBSET Nat /\ I # {}
    BY DEF Acceptable
  <2>2. Min(I) \in I
    BY <2>1, LeastExists
  <2>3. n = Min(I)
    BY <2>1 DEF FirstAcceptable, SelectInSeq
  <2> QED
    BY <2>2, <2>3
<1>3. mini_rec(s, caller, src) = t
  BY DEF mini_rec
<1> HIDE DEF n
<1>4. sender \in Runner /\ Contains(q, sender)
  BY <1>1, <1>2, ElementOfSeq DEF Contains
<1>5. SENDING \in s.p_flags[sender] /\ s.p_mess[sender] \in Message
  BY <1>1, <1>4 DEF KernelOK, CallerListsExact, SendersHoldMessages
<1>6. /\ RemoveAt(q, n) \in Seq(Runner)
      /\ \A x : Contains(RemoveAt(q, n), x) <=> Contains(q, x) /\ x # sender
  <2> HIDE DEF q
  <2>1. /\ RemoveAt(q, n) \in Seq(Runner)
        /\ \A x : Contains(RemoveAt(q, n), x) <=> Contains(q, x) /\ x # q[n]
    BY <1>1, <1>2, RemoveAtList
  <2> QED
    BY <2>1
<1> HIDE DEF sender
<1>7. c \in [Slot -> Seq(Runner)] /\ s.p_mess \in [Slot -> Message \cup {NilMess}]
      /\ s.p_flags \in [Slot -> SUBSET Flag] /\ s.p_callerq \in [Slot -> Seq(Runner)]
  BY <1>1, <1>6 DEF KState
<1>8. cp_mess(sender, s.p_mess[sender].body) \in Message
  BY <1>4, <1>5 DEF cp_mess, Message, Runner
<1>9. /\ taken.p_callerq = c
      /\ taken.p_mess = [s.p_mess EXCEPT ![caller] = cp_mess(sender, s.p_mess[sender].body)]
      /\ taken.p_flags = s.p_flags /\ taken.p_getfrom = s.p_getfrom
      /\ taken.rdy = s.rdy /\ taken.cur_proc = s.cur_proc /\ SamePending(s, taken)
      /\ taken = [s EXCEPT !.p_mess = taken.p_mess, !.p_callerq = c]
  BY <1>1 DEF KState, SamePending
<1> HIDE DEF c, q
<1>10. taken.p_mess \in [Slot -> Message \cup {NilMess}]
  <2> HIDE DEF taken
  <2> QED
    BY <1>1, <1>7, <1>8, <1>9
<1>11. taken \in KState
  <2> HIDE DEF taken
  <2> QED
    BY <1>1, <1>7, <1>9, <1>10 DEF KState
<1> HIDE DEF taken
<1>12. ReadyOK(taken)
  BY <1>9, <1>11
     DEF KernelOK, ReadyOK, ReadyListsExact, ReadyListsSorted, IsReady, CurrentIsHead
<1>13. /\ SameMessages(taken, t) /\ t.cur_proc = taken.cur_proc
       /\ t.p_flags = [taken.p_flags EXCEPT ![sender] = @ \ {SENDING}]
  <2>1. SENDING \in taken.p_flags[sender]
    BY <1>5, <1>9
  <2> QED
    BY <1>4, <1>12, <2>1, DeblockReady
<1> HIDE DEF t
<1>14. \A d \in Slot : \A p \in Runner :
         Contains(t.p_callerq[d], p) <=> Contains(s.p_callerq[d], p) /\ p # sender
  <2>1. \A d \in Slot : Contains(s.p_callerq[d], sender) => d = caller
    BY <1>1, <1>4 DEF KernelOK, CallerListsExact, q
  <2>2. \A d \in Slot : d # caller => c[d] = s.p_callerq[d]
    BY <1>7 DEF c
  <2>3. c[caller] = RemoveAt(q, n)
    BY <1>1, <1>7 DEF c
  <2>4. t.p_callerq = c
    BY <1>9, <1>13 DEF SameMessages
  <2> QED
    BY <1>6, <2>1, <2>2, <2>3, <2>4 DEF q
<1>15. \A p \in Slot :
         /\ t.p_flags[p] = IF p = sender THEN s.p_flags[p] \ {SENDING} ELSE s.p_flags[p]
         /\ t.p_mess[p] = IF p = caller THEN cp_mess(sender, s.p_mess[sender].body)
                          ELSE s.p_mess[p]
  <2>1. t.p_flags = [s.p_flags EXCEPT ![sender] = @ \ {SENDING}]
    BY <1>9, <1>13
  <2>2. t.p_mess = [s.p_mess EXCEPT ![caller] = cp_mess(sender, s.p_mess[sender].body)]
    BY <1>9, <1>13 DEF SameMessages
  <2> QED
    BY <1>7, <2>1, <2>2
<1>16. Took(s, t, caller, sender) /\ SamePending(s, t)
  BY <1>4, <1>9, <1>13, <1>14, <1>15 DEF Took, SamePending, SameMessages, q
<1> QED
  BY <1>2, <1>3, <1>4, <1>16

\* A caller of mini_rec() that finds no sender blocks.
LEMMA WaitEffect ==
  ASSUME NEW s, KernelOK(s), NEW caller \in Runner, NEW src \in Slot \cup {ANY}
  PROVE  LET t == Block([s EXCEPT !.p_getfrom[caller] = src], caller, RECEIVING)
         IN  Waits(s, t, caller, src) /\ SamePending(s, t)
<1> DEFINE m == [s EXCEPT !.p_getfrom[caller] = src]
           t == Block(m, caller, RECEIVING)
<1>1. s \in KState /\ caller \in Slot /\ RECEIVING \in Flag
  BY DEF KernelOK, ReadyOK, Runner, Flag
<1>2. /\ m \in KState /\ m.p_getfrom = [s.p_getfrom EXCEPT ![caller] = src]
      /\ m.rdy = s.rdy /\ m.cur_proc = s.cur_proc /\ m.p_flags = s.p_flags
      /\ m.p_callerq = s.p_callerq /\ m.p_mess = s.p_mess /\ SamePending(s, m)
  BY <1>1 DEF KState, SamePending
<1> HIDE DEF m
<1>3. ReadyOK(m)
  BY <1>2 DEF KernelOK, ReadyOK, ReadyListsExact, ReadyListsSorted, IsReady, CurrentIsHead
<1>4. /\ ReadyOK(t) /\ SameMessages(m, t) /\ NoneLeft(m, t)
      /\ t.p_flags = [m.p_flags EXCEPT ![caller] = @ \cup {RECEIVING}]
  BY <1>1, <1>3, BlockReady
<1> HIDE DEF t
<1>5. IdleOnly(s, t)
  BY <1>2, <1>4 DEF IdleOnly, NoneLeft, ReadyOK, ReadyListsExact
<1>6. /\ s.p_flags \in [Slot -> SUBSET Flag] /\ s.p_getfrom \in [Slot -> Slot \cup {ANY}]
      /\ t.p_flags = [s.p_flags EXCEPT ![caller] = @ \cup {RECEIVING}]
      /\ t.p_getfrom = [s.p_getfrom EXCEPT ![caller] = src]
  BY <1>1, <1>2, <1>4 DEF KState, SameMessages
<1>7. Waits(s, t, caller, src) /\ SamePending(s, t)
  BY <1>2, <1>4, <1>5, <1>6 DEF Waits, SamePending, SameMessages
<1> QED
  BY <1>7 DEF t, m

\* inform() does nothing, or sends MM a KSIG.
LEMMA InformEffect ==
  ASSUME NEW s, KernelOK(s)
  PROVE  LET t == inform(s)
             rp == LowestPending(s)
             pending == \E r \in 0 .. NR_PROCS - 1 : s.p_pending[r] # {}
             idle == RECEIVING \in s.p_flags[MM_PROC_NR] /\ s.p_getfrom[MM_PROC_NR] = ANY
         IN  /\ ~ (pending /\ idle) => t = s
             /\ \/ SameCalls(s, t)
                \/ /\ s.p_getfrom[MM_PROC_NR] = ANY
                   /\ Delivered(s, t, HARDWARE, MM_PROC_NR, ksig_mess(rp, s.p_pending[rp]))
             /\ pending /\ idle /\ P_SLOT_FREE \notin s.p_flags[MM_PROC_NR] =>
                  /\ rp \in Slot /\ s.p_pending[rp] # {}
                  /\ RECEIVING \notin t.p_flags[MM_PROC_NR]
                  /\ t.p_pending = [s.p_pending EXCEPT ![rp] = {}]
                  /\ t.sig_procs = s.sig_procs - 1
<1> DEFINE pending == \E r \in 0 .. NR_PROCS - 1 : s.p_pending[r] # {}
           idle == RECEIVING \in s.p_flags[MM_PROC_NR] /\ s.p_getfrom[MM_PROC_NR] = ANY
           rp   == LowestPending(s)
           body == ksig_mess(rp, s.p_pending[rp])
           t    == [s EXCEPT !.sig_procs = s.sig_procs - 1]
           sent == mini_send(t, HARDWARE, MM_PROC_NR, body, TRUE)
           v    == [sent.k EXCEPT !.p_pending[rp] = {}]
<1>1. CASE ~ (pending /\ idle)
  <2>1. inform(s) = s
    BY <1>1 DEF inform
  <2> QED
    BY <1>1, <2>1 DEF SameCalls
<1>2. CASE pending /\ idle
  <2>1. /\ HARDWARE \in Slot /\ MM_PROC_NR \in Slot /\ HARDWARE < LOW_USER
        /\ 0 .. NR_PROCS - 1 \subseteq Slot
    BY NrTasksAssumption, NrProcsAssumption DEF Slot, HARDWARE, MM_PROC_NR, LOW_USER
  <2>2. rp \in Slot /\ s.p_pending[rp] # {}
    <3> DEFINE I == {r \in 0 .. NR_PROCS - 1 : s.p_pending[r] # {}}
    <3>1. I \in SUBSET Nat /\ I # {}
      BY <1>2, NrProcsAssumption
    <3>2. Min(I) \in I /\ \A j \in I : Min(I) <= j
      BY <3>1, LeastExists
    <3>3. \E x \in 0 .. NR_PROCS - 1 :
            /\ s.p_pending[x] # {}
            /\ \A r \in 0 .. NR_PROCS - 1 : s.p_pending[r] # {} => x <= r
      BY <3>2
    <3> QED
      BY <2>1, <3>3 DEF LowestPending
  <2>3. s \in KState
    BY DEF KernelOK, ReadyOK
  <2>4. /\ KernelOK(t) /\ SameCalls(s, t)
        /\ t.p_pending = s.p_pending /\ t.sig_procs = s.sig_procs - 1
    <3>1. s.sig_procs - 1 \in Int /\ s.p_pending \in [Slot -> SUBSET Signals]
      BY <2>3 DEF KState
    <3>2. t = [s EXCEPT !.sig_procs = s.sig_procs - 1, !.p_pending = s.p_pending]
      BY <2>3, <3>1 DEF KState
    <3>3. KernelOK(t)
      BY <3>1, <3>2, PendingIrrelevant
    <3> QED
      BY <2>3, <3>3 DEF KState, SameCalls
  <2>5. body \in Body
    BY <2>2, <2>3, KsigAssumption DEF KState
  <2>6. inform(s) = v
    BY <1>2 DEF inform
  <2> HIDE DEF t, rp, body
  <2>7. Awaits(t, MM_PROC_NR, HARDWARE)
    BY <1>2, <2>4 DEF Awaits, SameCalls
  <2>8. /\ sent.n # "OK" => sent.k = t
        /\ sent.n = "OK" => Delivered(t, sent.k, HARDWARE, MM_PROC_NR, body)
        /\ SamePending(t, sent.k)
        /\ P_SLOT_FREE \notin t.p_flags[MM_PROC_NR] => sent.n = "OK"
    BY <2>1, <2>4, <2>5, <2>7, SendEffect
  <2>9. sent.k \in KState
    BY <2>1, <2>4, <2>5, MiniSendOK DEF KernelOK, ReadyOK
  <2> DEFINE u == sent.k
             good == sent.n = "OK"
  <2>10. /\ ~ good => u = t
         /\ good => Delivered(t, u, HARDWARE, MM_PROC_NR, body)
         /\ SamePending(t, u) /\ u \in KState
         /\ P_SLOT_FREE \notin t.p_flags[MM_PROC_NR] => good
         /\ v = [u EXCEPT !.p_pending[rp] = {}]
    BY <2>8, <2>9
  <2> HIDE DEF sent, u, good, v
  <2>11. SameCalls(u, v) /\ v.p_pending = [u.p_pending EXCEPT ![rp] = {}]
         /\ v.sig_procs = u.sig_procs
    BY <2>10 DEF KState, SameCalls
  <2>12. good => Delivered(s, v, HARDWARE, MM_PROC_NR, body)
    BY <2>4, <2>10, <2>11 DEF SameCalls, Delivered, Awaits
  <2>13. ~ good => SameCalls(s, v)
    BY <2>4, <2>10, <2>11 DEF SameCalls
  <2>14. good => RECEIVING \notin v.p_flags[MM_PROC_NR]
    BY <2>1, <2>12 DEF Delivered
  <2>15. v.p_pending = [s.p_pending EXCEPT ![rp] = {}] /\ v.sig_procs = s.sig_procs - 1
    BY <2>4, <2>10, <2>11 DEF SamePending
  <2>16. P_SLOT_FREE \notin s.p_flags[MM_PROC_NR] => good
    BY <2>4, <2>10 DEF SameCalls
  <2> QED
    BY <1>2, <2>2, <2>6, <2>12, <2>13, <2>14, <2>15, <2>16 DEF rp, body
<1> QED
  BY <1>1, <1>2

\* mini_rec() takes a message or blocks its caller; MM is then told of a signal.
LEMMA ReceiveEffect ==
  ASSUME NEW s, KernelOK(s), NEW caller \in Runner, NEW src \in Slot \cup {ANY}
  PROVE  LET t == mini_rec(s, caller, src)
         IN  \/ \E sender \in Runner :
                  /\ src \in {ANY, sender}
                  /\ Took(s, t, caller, sender) /\ SamePending(s, t)
             \/ \E m : /\ KernelOK(m)
                       /\ Waits(s, m, caller, src) /\ SamePending(s, m)
                       /\ t = IF s.sig_procs > 0 /\ caller = MM_PROC_NR /\ src = ANY
                              THEN inform(m) ELSE m
<1> DEFINE m == Block([s EXCEPT !.p_getfrom[caller] = src], caller, RECEIVING)
<1>1. CASE Acceptable(s, caller, src)
  BY <1>1, TakeEffect
<1>2. CASE ~ Acceptable(s, caller, src)
  <2>1. KernelOK(m)
    BY <1>2, BlockReceiverOK
  <2>2. Waits(s, m, caller, src) /\ SamePending(s, m)
    BY WaitEffect
  <2>3. mini_rec(s, caller, src) = IF s.sig_procs > 0 /\ caller = MM_PROC_NR /\ src = ANY
                                   THEN inform(m) ELSE m
    BY <1>2 DEF mini_rec
  <2> HIDE DEF m
  <2> QED
    BY <2>1, <2>2, <2>3
<1> QED
  BY <1>1, <1>2

\* sys_call() with the arguments of the tasks and servers: RECEIVE is mini_rec().
LEMMA ReceiveCall ==
  ASSUME NEW s, NEW p \in System, NEW src \in Slot \cup {ANY}, NEW body
  PROVE  sys_call(s, {"RECEIVE"}, p, src, body, TRUE).k = mini_rec(s, p, src)
<1>1. ~ (p >= LOW_USER)
  BY NrTasksAssumption DEF System, Task, Server, LOW_USER, MM_PROC_NR, FS_PROC_NR
<1>2. "SEND" \notin {"RECEIVE"}
  OBVIOUS
<1> QED
  BY <1>1, <1>2 DEF sys_call

\* SEND is mini_send().
LEMMA SendCall ==
  ASSUME NEW s, NEW p \in System, NEW d \in Slot, NEW body,
         mini_send(s, p, d, body, TRUE).n # "OK" => mini_send(s, p, d, body, TRUE).k = s
  PROVE  \A t : t = sys_call(s, {"SEND"}, p, d, body, TRUE).k
                 => t = mini_send(s, p, d, body, TRUE).k
<1> DEFINE sent == mini_send(s, p, d, body, TRUE)
<1>1. ~ (p >= LOW_USER)
  BY NrTasksAssumption DEF System, Task, Server, LOW_USER, MM_PROC_NR, FS_PROC_NR
<1>2. "RECEIVE" \notin {"SEND"}
  OBVIOUS
<1> HIDE DEF sent
<1> QED
  BY <1>1, <1>2 DEF sys_call, sent

\* BOTH is one after the other, unless the send fails.
LEMMA BothCall ==
  ASSUME NEW s, NEW p \in System, NEW d \in Slot, NEW body
  PROVE  LET sent == mini_send(s, p, d, body, TRUE)
             called == sys_call(s, {"SEND", "RECEIVE"}, p, d, body, TRUE)
         IN  /\ sent.n = "OK" => called.k = mini_rec(sent.k, p, d)
             /\ sent.n # "OK" => called.k = s
<1> DEFINE sent == mini_send(s, p, d, body, TRUE)
<1>1. "SEND" \in {"SEND", "RECEIVE"} /\ "RECEIVE" \in {"SEND", "RECEIVE"}
  OBVIOUS
<1> HIDE DEF sent
<1> QED
  BY <1>1 DEF sys_call, sent

\* A call of a user that changes anything is sendrec() with a server.
LEMMA UserCallEffect ==
  ASSUME NEW s, KernelOK(s), NEW u \in User, SENDING \notin s.p_flags[u],
         NEW function, NEW dest, NEW body \in Body, NEW addr_ok \in BOOLEAN
  PROVE  LET sent == mini_send(s, u, dest, body, addr_ok)
             called == sys_call(s, function, u, dest, body, addr_ok)
         IN  \/ called.n # "OK" /\ called.k = s
             \/ /\ called.n = "OK" /\ sent.n = "OK" /\ dest \in Server
                /\ called.k = mini_rec(sent.k, u, dest)
<1> DEFINE sent == mini_send(s, u, dest, body, addr_ok)
           called == sys_call(s, function, u, dest, body, addr_ok)
<1>1. u >= LOW_USER /\ u \in Slot /\ u # HARDWARE /\ ANY \notin Server
  BY Slots, NrProcsAssumption DEF Runner
<1>2. CASE dest \in Slot \cup {ANY} /\ function = {"SEND", "RECEIVE"} /\ sent.n = "OK"
  <2>1. dest \in Server
    BY <1>1, <1>2 DEF mini_send
  <2>2. called.n = "OK" /\ called.k = mini_rec(sent.k, u, dest)
    <3> HIDE DEF sent
    <3> QED
      BY <1>2 DEF sys_call, sent
  <2> HIDE DEF sent, called
  <2> QED
    BY <1>2, <2>1, <2>2 DEF sent, called
<1>3. CASE ~ (dest \in Slot \cup {ANY} /\ function = {"SEND", "RECEIVE"} /\ sent.n = "OK")
  <2>1. called.n # "OK" /\ called.k = s
    <3> HIDE DEF sent
    <3> QED
      BY <1>1, <1>3 DEF sys_call, sent
  <2> QED
    BY <2>1
<1> QED
  BY <1>2, <1>3

-----------------------------------------------------------------------------
(* Signals: sig_procs counts the processes with pending signals, so that   *)
(* mini_rec() need not look through p_pending to see that MM is to be told.*)

Signalled(s) == {p \in Slot : s.p_pending[p] # {}}

SigBase(s) ==
  /\ P_SLOT_FREE \notin s.p_flags[MM_PROC_NR]
  /\ Signalled(s) \subseteq User
  /\ s.sig_procs = Cardinality(Signalled(s))

SigOK(s) ==
  /\ SigBase(s)
  /\ RECEIVING \in s.p_flags[MM_PROC_NR] /\ s.p_getfrom[MM_PROC_NR] = ANY =>
       Signalled(s) = {}

\* The set that sig_procs counts is finite.
LEMMA SlotsFinite == IsFiniteSet(Slot) /\ \A s : IsFiniteSet(Signalled(s))
<1>1. IsFiniteSet(Slot)
  BY NrTasksAssumption, NrProcsAssumption, FS_Interval DEF Slot
<1> QED
  BY <1>1, FS_Subset DEF Signalled

\* A step that signals nobody and does not make MM wait for work keeps SigOK.
LEMMA QuietSig ==
  ASSUME NEW s, SigOK(s), NEW t, SamePending(s, t),
         t.p_flags[MM_PROC_NR] \subseteq s.p_flags[MM_PROC_NR] \cup {SENDING},
         t.p_getfrom[MM_PROC_NR] = s.p_getfrom[MM_PROC_NR]
  PROVE  SigOK(t)
<1>1. Signalled(t) = Signalled(s) /\ t.sig_procs = s.sig_procs
  BY DEF SamePending, Signalled
<1>2. P_SLOT_FREE # SENDING /\ RECEIVING # SENDING
  BY DEF P_SLOT_FREE, SENDING, RECEIVING
<1> QED
  BY <1>1, <1>2 DEF SigOK, SigBase

\* After inform() there is no signal that an idle MM was not told of.
LEMMA InformSig ==
  ASSUME NEW s, KernelOK(s), SigBase(s)
  PROVE  SigOK(inform(s))
<1> DEFINE rp == LowestPending(s)
           pending == \E r \in 0 .. NR_PROCS - 1 : s.p_pending[r] # {}
           idle == RECEIVING \in s.p_flags[MM_PROC_NR] /\ s.p_getfrom[MM_PROC_NR] = ANY
           t == inform(s)
<1>1. MM_PROC_NR \in Slot /\ 0 .. NR_PROCS - 1 \subseteq Slot /\ User \subseteq 0 .. NR_PROCS - 1
  BY NrTasksAssumption, NrProcsAssumption DEF Slot, MM_PROC_NR, User, LOW_USER
<1>2. CASE ~ (pending /\ idle)
  <2>1. t = s
    BY <1>2, InformEffect
  <2>2. ~ pending => Signalled(s) = {}
    BY <1>1 DEF SigBase, Signalled
  <2> QED
    BY <1>2, <2>1, <2>2 DEF SigOK
<1>3. CASE pending /\ idle
  <2>1. /\ rp \in Slot /\ s.p_pending[rp] # {}
        /\ RECEIVING \notin t.p_flags[MM_PROC_NR]
        /\ t.p_pending = [s.p_pending EXCEPT ![rp] = {}]
        /\ t.sig_procs = s.sig_procs - 1
    BY <1>3, InformEffect DEF SigBase
  <2>2. \/ SameCalls(s, t)
        \/ Delivered(s, t, HARDWARE, MM_PROC_NR, ksig_mess(rp, s.p_pending[rp]))
    BY InformEffect
  <2> HIDE DEF t, rp
  <2>3. P_SLOT_FREE \notin t.p_flags[MM_PROC_NR]
    BY <1>1, <2>2 DEF SigBase, SameCalls, Delivered
  <2>4. s.p_pending \in [Slot -> SUBSET Signals]
    BY DEF KernelOK, ReadyOK, KState
  <2>5. Signalled(t) = Signalled(s) \ {rp} /\ rp \in Signalled(s)
    BY <2>1, <2>4 DEF Signalled
  <2>6. Cardinality(Signalled(t)) = Cardinality(Signalled(s)) - 1
    BY <2>5, SlotsFinite, FS_RemoveElement
  <2>7. SigOK(t)
    BY <2>1, <2>3, <2>5, <2>6 DEF SigOK, SigBase
  <2> QED
    BY <2>7 DEF t
<1> QED
  BY <1>2, <1>3

\* cause_sig() counts the process it signals once.
LEMMA CauseSigTold ==
  ASSUME NEW s, KernelOK(s), SigOK(s), NEW rp \in User, NEW sig \in Signals
  PROVE  SigOK(cause_sig(s, rp, sig))
<1> DEFINE sp == IF s.p_pending[rp] = {} THEN s.sig_procs + 1 ELSE s.sig_procs
           pp == [s.p_pending EXCEPT ![rp] = @ \cup {sig}]
           t  == [s EXCEPT !.sig_procs = sp, !.p_pending = pp]
<1>1. rp \in Slot
  BY Slots
<1>2. s \in KState /\ s.p_pending \in [Slot -> SUBSET Signals]
  BY DEF KernelOK, ReadyOK, KState
<1>3. sp \in Int /\ pp \in [Slot -> SUBSET Signals]
  <2>1. pp \in [Slot -> SUBSET Signals]
    BY <1>1, <1>2
  <2>2. s.sig_procs \in Int
    BY <1>2 DEF KState
  <2> QED
    BY <2>1, <2>2
<1>4. cause_sig(s, rp, sig) = inform(t)
  BY DEF cause_sig
<1>5. \A x \in Slot : pp[x] = {} <=> s.p_pending[x] = {} /\ x # rp
  BY <1>1, <1>2
<1> HIDE DEF pp
<1>6. t.p_pending = pp /\ t.sig_procs = sp /\ t.p_flags = s.p_flags
  BY <1>2 DEF KState
<1>7. KernelOK(t)
  <2> HIDE DEF sp
  <2> QED
    BY <1>3, PendingIrrelevant
<1> HIDE DEF t
<1>8. Signalled(t) = Signalled(s) \cup {rp} /\ (rp \in Signalled(s) <=> s.p_pending[rp] # {})
  BY <1>1, <1>5, <1>6 DEF Signalled
<1>9. Cardinality(Signalled(t)) =
        IF rp \in Signalled(s) THEN Cardinality(Signalled(s)) ELSE Cardinality(Signalled(s)) + 1
  BY <1>8, SlotsFinite, FS_AddElement
<1>10. SigBase(t)
  BY <1>6, <1>8, <1>9 DEF SigOK, SigBase
<1> QED
  BY <1>4, <1>7, <1>10, InformSig

\* mini_send() signals nobody.
LEMMA SendSig ==
  ASSUME NEW s, KernelOK(s), SigOK(s), NEW caller \in Slot, NEW dest \in Slot,
         NEW body \in Body, caller # HARDWARE => SENDING \notin s.p_flags[caller],
         NEW addr_ok \in BOOLEAN
  PROVE  SigOK(mini_send(s, caller, dest, body, addr_ok).k)
<1> DEFINE sent == mini_send(s, caller, dest, body, addr_ok)
           t == sent.k
<1>1. MM_PROC_NR \in Slot
  BY NrTasksAssumption, NrProcsAssumption DEF Slot, MM_PROC_NR
<1>2. /\ \/ t = s
         \/ Delivered(s, t, caller, dest, body)
         \/ Queued(s, t, caller, dest, body)
      /\ SamePending(s, t)
  BY SendEffect
<1> HIDE DEF t
<1>3. /\ t.p_flags[MM_PROC_NR] \subseteq s.p_flags[MM_PROC_NR] \cup {SENDING}
      /\ t.p_getfrom = s.p_getfrom
  BY <1>1, <1>2 DEF Delivered, Queued
<1>4. SigOK(t)
  BY <1>2, <1>3, QuietSig
<1> QED
  BY <1>4 DEF t

\* mini_rec() tells MM of a signal before it waits for work.
LEMMA ReceiveSig ==
  ASSUME NEW s, KernelOK(s), SigOK(s), NEW caller \in Runner, NEW src \in Slot \cup {ANY}
  PROVE  SigOK(mini_rec(s, caller, src))
<1> DEFINE t == mini_rec(s, caller, src)
<1>1. MM_PROC_NR \in Slot /\ RECEIVING # P_SLOT_FREE /\ ANY \notin Slot
  BY NrTasksAssumption, NrProcsAssumption
  DEF Slot, MM_PROC_NR, RECEIVING, P_SLOT_FREE, ANY
<1>2. ASSUME NEW sender \in Runner, Took(s, t, caller, sender), SamePending(s, t)
      PROVE  SigOK(t)
  <2> HIDE DEF t
  <2>1. t.p_flags[MM_PROC_NR] \subseteq s.p_flags[MM_PROC_NR] \cup {SENDING}
        /\ t.p_getfrom = s.p_getfrom
    BY <1>1, <1>2 DEF Took
  <2> QED
    BY <1>2, <2>1, QuietSig
<1>3. ASSUME NEW m, KernelOK(m), Waits(s, m, caller, src), SamePending(s, m),
             t = IF s.sig_procs > 0 /\ caller = MM_PROC_NR /\ src = ANY THEN inform(m) ELSE m
      PROVE  SigOK(t)
  <2>1. Signalled(m) = Signalled(s) /\ m.sig_procs = s.sig_procs
    BY <1>3 DEF SamePending, Signalled
  <2>2. SigBase(m)
    BY <1>1, <1>3, <2>1 DEF SigOK, SigBase, Waits
  <2>3. CASE s.sig_procs > 0 /\ caller = MM_PROC_NR /\ src = ANY
    <3>1. SigOK(inform(m))
      BY <1>3, <2>2, InformSig
    <3> QED
      BY <1>3, <2>3, <3>1
  <2>4. CASE caller = MM_PROC_NR /\ src = ANY /\ ~ (s.sig_procs > 0)
    <3>1. Cardinality(Signalled(s)) \in Nat
      BY SlotsFinite, FS_CardinalityType
    <3>2. Cardinality(Signalled(s)) = 0
      BY <2>4, <3>1 DEF SigOK, SigBase
    <3>3. Signalled(s) = {}
      BY <3>2, SlotsFinite, FS_EmptySet
    <3>4. SigOK(m)
      BY <2>1, <2>2, <3>3 DEF SigOK
    <3> QED
      BY <1>3, <2>4, <3>4
  <2>5. CASE caller # MM_PROC_NR \/ src # ANY
    <3>1. SigOK(m)
      BY <1>1, <1>3, <2>1, <2>2, <2>5 DEF SigOK, Waits
    <3> QED
      BY <1>3, <2>5, <3>1
  <2> QED
    BY <2>3, <2>4, <2>5
<1>4. \/ \E sender \in Runner : Took(s, t, caller, sender) /\ SamePending(s, t)
      \/ \E m : /\ KernelOK(m)
                /\ Waits(s, m, caller, src) /\ SamePending(s, m)
                /\ t = IF s.sig_procs > 0 /\ caller = MM_PROC_NR /\ src = ANY
                       THEN inform(m) ELSE m
  BY ReceiveEffect
<1> QED
  BY <1>2, <1>3, <1>4

\* The calls that the running process makes.
LEMMA CallsSig ==
  ASSUME IInv, SigOK(k), NEW p \in Runner, k.cur_proc = p, NEW body \in {REQ, REP, PUSH}
  PROVE  /\ \A src \in Slot \cup {ANY} :
              p \in System => SigOK(sys_call(k, {"RECEIVE"}, p, src, body, TRUE).k)
         /\ \A d \in Slot :
              p \in System => /\ SigOK(sys_call(k, {"SEND"}, p, d, body, TRUE).k)
                              /\ SigOK(sys_call(k, {"SEND", "RECEIVE"}, p, d, body, TRUE).k)
         /\ \A function, dest : \A addr_ok \in BOOLEAN :
              p \in User => SigOK(sys_call(k, function, p, dest, body, addr_ok).k)
<1>1. /\ KernelOK(k) /\ SENDING \notin k.p_flags[p] /\ body \in Body
      /\ p \in Slot /\ p # HARDWARE
  BY RunningUnblocked, BodyAssumption, Slots DEF IInv
<1>2. ASSUME NEW d \in Slot, NEW addr_ok \in BOOLEAN
      PROVE  LET t == mini_send(k, p, d, body, addr_ok).k
             IN  KernelOK(t) /\ SigOK(t) /\ SigOK(mini_rec(t, p, d))
  <2> DEFINE t == mini_send(k, p, d, body, addr_ok).k
  <2>1. KernelOK(t)
    BY <1>1, MiniSendOK
  <2>2. SigOK(t)
    BY <1>1, SendSig
  <2> HIDE DEF t
  <2>3. SigOK(mini_rec(t, p, d))
    BY <2>1, <2>2, ReceiveSig
  <2> QED
    BY <2>1, <2>2, <2>3 DEF t
<1>3. ASSUME NEW src \in Slot \cup {ANY}, p \in System
      PROVE  SigOK(sys_call(k, {"RECEIVE"}, p, src, body, TRUE).k)
  <2>1. SigOK(mini_rec(k, p, src))
    BY <1>1, ReceiveSig
  <2>2. sys_call(k, {"RECEIVE"}, p, src, body, TRUE).k = mini_rec(k, p, src)
    BY <1>3, ReceiveCall
  <2> QED
    BY <2>1, <2>2
<1>4. ASSUME NEW d \in Slot, p \in System
      PROVE  /\ SigOK(sys_call(k, {"SEND"}, p, d, body, TRUE).k)
             /\ SigOK(sys_call(k, {"SEND", "RECEIVE"}, p, d, body, TRUE).k)
  <2> DEFINE sent == mini_send(k, p, d, body, TRUE)
             one == sys_call(k, {"SEND"}, p, d, body, TRUE)
             both == sys_call(k, {"SEND", "RECEIVE"}, p, d, body, TRUE)
  <2>1. one.k = sent.k
    <3>1. mini_send(k, p, d, body, TRUE).n # "OK" => mini_send(k, p, d, body, TRUE).k = k
      BY <1>1, SendRefused
    <3> HIDE DEF one, sent
    <3>2. \A t : t = sys_call(k, {"SEND"}, p, d, body, TRUE).k
                 => t = mini_send(k, p, d, body, TRUE).k
      BY <1>4, <3>1, SendCall
    <3> QED
      BY <3>2 DEF one, sent
  <2>3. both.k = mini_rec(sent.k, p, d) \/ both.k = k
    BY <1>4, BothCall
  <2>2. SigOK(sent.k) /\ SigOK(mini_rec(sent.k, p, d))
    BY <1>2
  <2> HIDE DEF sent, one, both
  <2>4. SigOK(one.k) /\ SigOK(both.k)
    BY <2>1, <2>2, <2>3
  <2> QED
    BY <2>4 DEF one, both
<1>5. ASSUME NEW function, NEW dest, NEW addr_ok \in BOOLEAN, p \in User
      PROVE  SigOK(sys_call(k, function, p, dest, body, addr_ok).k)
  <2> DEFINE sent == mini_send(k, p, dest, body, addr_ok)
             called == sys_call(k, function, p, dest, body, addr_ok)
  <2>1. \/ called.k = k
        \/ dest \in Server /\ called.k = mini_rec(sent.k, p, dest)
    BY <1>1, <1>5, UserCallEffect
  <2>2. dest \in Server => SigOK(mini_rec(sent.k, p, dest))
    BY <1>2, Slots
  <2> HIDE DEF sent, called
  <2>3. SigOK(called.k)
    BY <2>1, <2>2
  <2> QED
    BY <2>3 DEF called
<1> QED
  BY <1>3, <1>4, <1>5

\* Every step keeps SigOK.
LEMMA NextSig ==
  ASSUME IInv, SigOK(k), Next PROVE SigOK(k')
<1>0. KernelOK(k) /\ k \in KState /\ ReadyListsSorted(k) /\ CurrentIsHead(k)
  BY DEF IInv, KernelOK, ReadyOK, ReadyListsExact
<1>1. ASSUME NEW task \in Drivers \cup {CLOCK} PROVE SigOK(mini_send(k, HARDWARE, task, INT, TRUE).k)
  BY <1>0, Slots, SendSig, BodyAssumption
<1>2. ASSUME NEW task \in Drivers \cup {CLOCK}, interrupt(task) PROVE SigOK(k')
  BY <1>1, <1>2 DEF interrupt
<1>3. CASE interrupt_retry
  BY <1>1, <1>3 DEF interrupt_retry
<1>4. ASSUME NEW t, SameTable(k, t) PROVE SigOK(t)
  BY <1>4, QuietSig DEF SameTable, SamePending
<1>5. SigOK(pick_proc(k)) /\ SigOK(sched(k))
  BY <1>0, <1>4, PickProc, Sched
<1>6. CASE interrupt_end
  BY <1>5, <1>6 DEF interrupt_end
<1>7. CASE EndQuantum
  BY <1>5, <1>7 DEF EndQuantum
<1>8. ASSUME NEW p \in Runner, Consume(p) PROVE SigOK(k')
  <2>1. /\ k'.p_flags = k.p_flags /\ k'.p_getfrom = k.p_getfrom
        /\ SamePending(k, k')
    BY <1>0, <1>8 DEF Consume, KState, SamePending
  <2> QED
    BY <2>1, QuietSig
<1>9. ASSUME NEW u \in User, NEW function, NEW dest, NEW addr_ok \in BOOLEAN,
             UserCall(u, function, dest, addr_ok)
      PROVE  SigOK(k')
  <2>1. k.cur_proc = u /\ u \in Runner
    BY <1>9, Slots DEF UserCall, MayCall, Running
  <2>2. SigOK(sys_call(k, function, u, dest, REQ, addr_ok).k)
    BY <2>1, CallsSig
  <2> QED
    BY <1>9, <2>2 DEF UserCall
<1>10. ASSUME NEW s \in System, Receive(s) PROVE SigOK(k')
  <2>1. k.cur_proc = s /\ s \in Runner
    BY <1>10, Slots DEF Receive, MayCall, Running
  <2>2. SigOK(sys_call(k, {"RECEIVE"}, s, ANY, REQ, TRUE).k)
    BY <2>1, CallsSig
  <2> QED
    BY <1>10, <2>2 DEF Receive
<1>11. ASSUME NEW t \in Drivers, ReceiveInterrupt(t) PROVE SigOK(k')
  <2>1. k.cur_proc = t /\ t \in Runner /\ t \in System /\ HARDWARE \in Slot
    BY <1>11, Slots, DriversAssumption DEF ReceiveInterrupt, MayCall, Running, System
  <2>2. SigOK(sys_call(k, {"RECEIVE"}, t, HARDWARE, REQ, TRUE).k)
    BY <2>1, CallsSig
  <2> QED
    BY <1>11, <2>2 DEF ReceiveInterrupt
<1>12. ASSUME NEW c \in Calls, Call(c[1], c[2]) PROVE SigOK(k')
  <2>1. c[1] \in System /\ c[2] \in System
    BY CallsAssumption
  <2>2. k.cur_proc = c[1] /\ c[1] \in Runner /\ c[2] \in Slot
    BY <1>12, <2>1, Slots DEF Call, MayCall, Running
  <2>3. SigOK(sys_call(k, {"SEND", "RECEIVE"}, c[1], c[2], REQ, TRUE).k)
    BY <2>1, <2>2, CallsSig
  <2> QED
    BY <1>12, <2>3 DEF Call
<1>13. ASSUME NEW s \in System, NEW c \in Runner, Reply(s, c) PROVE SigOK(k')
  <2>1. k.cur_proc = s /\ s \in Runner /\ c \in Slot
    BY <1>13, Slots DEF Reply, MayCall, Running
  <2>2. SigOK(sys_call(k, {"SEND"}, s, c, REP, TRUE).k)
    BY <2>1, CallsSig
  <2> QED
    BY <1>13, <2>2 DEF Reply
<1>14. ASSUME NEW c \in Pushes, Push(c[1], c[2]) PROVE SigOK(k')
  <2>1. c[1] \in System /\ c[2] \in System
    BY PushesAssumption
  <2>2. k.cur_proc = c[1] /\ c[1] \in Runner /\ c[2] \in Slot
    BY <1>14, <2>1, Slots DEF Push, MayCall, Running
  <2>3. SigOK(sys_call(k, {"SEND"}, c[1], c[2], PUSH, TRUE).k)
    BY <2>1, <2>2, CallsSig
  <2> QED
    BY <1>14, <2>3 DEF Push
<1>15. ASSUME NEW t, NEW rp \in User, NEW sig \in Signals, CauseSig(t, rp, sig)
       PROVE  SigOK(k')
  BY <1>0, <1>15, CauseSigTold DEF CauseSig
<1> QED
  BY <1>2, <1>3, <1>6, <1>7, <1>8, <1>9, <1>10, <1>11, <1>12, <1>13, <1>14, <1>15
  DEF Next, UserAny

\* What main() leaves in the message fields of the table.
LEMMA BootEffect ==
  ASSUME NEW users \in 1 .. NR_PROCS - LOW_USER
  PROVE  LET s == Boot(users)
         IN  /\ \A p \in Slot : /\ s.p_flags[p] \in {{}, {P_SLOT_FREE}}
                                /\ p < LOW_USER => s.p_flags[p] = {}
                                /\ s.p_mess[p] = NilMess
                                /\ s.p_callerq[p] = <<>>
                                /\ s.p_pending[p] = {}
             /\ s.sig_procs = 0
             /\ s.cur_proc # IDLE
<1> DEFINE s == [p_flags   |-> [p \in Slot |-> IF p >= LOW_USER + users THEN {P_SLOT_FREE} ELSE {}],
                 p_getfrom |-> [p \in Slot |-> MM_PROC_NR],
                 p_callerq |-> [p \in Slot |-> <<>>],
                 p_mess    |-> [p \in Slot |-> NilMess],
                 p_pending |-> [p \in Slot |-> {}],
                 sig_procs |-> 0,
                 rdy       |-> [q \in Queue |->
                                  IF q = TASK_Q THEN Ascending(-NR_TASKS, NR_TASKS - 1)
                                  ELSE IF q = SERVER_Q THEN Ascending(MM_PROC_NR, 2)
                                  ELSE Ascending(LOW_USER, users)],
                 cur_proc  |-> MM_PROC_NR,
                 prev_proc |-> MM_PROC_NR,
                 bill_ptr  |-> HARDWARE]
           t == pick_proc(s)
<1>1. Boot(users) = t
  BY DEF Boot
<1>2. SameTable(s, t)
  BY DEF pick_proc, SameTable
<1>3. /\ \A p \in Slot : s.p_flags[p] = IF p >= LOW_USER + users THEN {P_SLOT_FREE} ELSE {}
      /\ \A p \in Slot : s.p_mess[p] = NilMess
      /\ \A p \in Slot : s.p_callerq[p] = <<>> /\ s.p_pending[p] = {}
      /\ s.sig_procs = 0
  OBVIOUS
<1>4. KernelOK(t)
  BY <1>1, BootOK
<1>5. s.rdy[TASK_Q] # <<>>
  <2>1. s.rdy[TASK_Q] = Ascending(-NR_TASKS, NR_TASKS - 1)
    BY DEF Queue
  <2> HIDE DEF s
  <2>2. Len(Ascending(-NR_TASKS, NR_TASKS - 1)) = NR_TASKS - 1
    BY NrTasksAssumption DEF Ascending
  <2>3. NR_TASKS - 1 # 0 /\ Len(<<>>) = 0
    BY NrTasksAssumption
  <2> QED
    BY <2>1, <2>2, <2>3
<1>6. t.cur_proc = Head(s.rdy[TASK_Q])
  <2> DEFINE r == s.rdy
  <2>1. r[TASK_Q] # <<>>
    BY <1>5
  <2>2. BestQueue(s) = TASK_Q
    BY <2>1 DEF BestQueue
  <2> QED
    BY <2>1, <2>2 DEF pick_proc
<1> HIDE DEF s, t
<1>7. t.cur_proc # IDLE
  <2>1. s.rdy[TASK_Q] = Ascending(-NR_TASKS, NR_TASKS - 1)
    BY DEF Queue, s
  <2>2. Ascending(-NR_TASKS, NR_TASKS - 1) = [i \in 1 .. NR_TASKS - 1 |-> -NR_TASKS + i - 1]
    BY DEF Ascending
  <2>3. Head(Ascending(-NR_TASKS, NR_TASKS - 1)) = -NR_TASKS
    BY <2>2, NrTasksAssumption
  <2> QED
    BY <1>6, <2>1, <2>3, NrTasksAssumption DEF IDLE
<1>8. \A p \in Slot : p \in Int
  BY NrTasksAssumption, NrProcsAssumption DEF Slot
<1> QED
  BY <1>1, <1>2, <1>3, <1>7, <1>8 DEF SameTable, LOW_USER

\* A signal reaches MM at the latest when MM waits for work: whatever tasks cause
\* signals, and in whatever order MM receives and calls, mini_rec() and inform()
\* leave MM waiting only when no signal is pending.
THEOREM SignalsInvariant == Spec => []SignalsTold
<1>1. Init => SigOK(k)
  <2> SUFFICES ASSUME Init PROVE SigOK(k)
    OBVIOUS
  <2>1. MM_PROC_NR \in Slot /\ MM_PROC_NR < LOW_USER
    BY NrTasksAssumption, NrProcsAssumption DEF Slot, MM_PROC_NR, LOW_USER
  <2>2. Signalled(k) = {} /\ k.sig_procs = 0 /\ k.p_flags[MM_PROC_NR] = {}
    BY <2>1, BootEffect, UsersAssumption DEF Init, Signalled
  <2> QED
    BY <2>2, FS_EmptySet DEF SigOK, SigBase
<1>2. IInv /\ SigOK(k) /\ [Next]_vars => SigOK(k)'
  <2>1. ASSUME IInv, SigOK(k), Next PROVE SigOK(k)'
    BY <2>1, NextSig
  <2>2. ASSUME SigOK(k), UNCHANGED vars PROVE SigOK(k)'
    BY <2>2 DEF vars
  <2> QED
    BY <2>1, <2>2
<1>3. SigOK(k) => SignalsTold
  BY DEF SigOK, Signalled, SignalsTold
<1> QED
  BY <1>1, <1>2, <1>3, Invariant, PTL DEF Spec

-----------------------------------------------------------------------------
(* Users.  A user only waits in sendrec() with a server, and the only      *)
(* messages sent to a user are answers.                                    *)

\* Whoever is queued at a user does nothing but send an answer.
UserOK(s, asked) ==
  \A u \in User :
    /\ RECEIVING \in s.p_flags[u] => asked[u] \in Server /\ s.p_getfrom[u] = asked[u]
    /\ s.p_mess[u].m_source \notin {IDLE, u} => s.p_mess[u] = cp_mess(asked[u], REP)
    /\ \A p \in Runner : Contains(s.p_callerq[u], p) =>
         s.p_flags[p] = {SENDING} /\ s.p_mess[p].body = REP

NotAtUser(s, p) == \A u \in User : ~ Contains(s.p_callerq[u], p)

\* Users are no system processes.
LEMMA Classes ==
  /\ MM_PROC_NR \in Slot /\ MM_PROC_NR \in System /\ HARDWARE \in Slot
  /\ Server \subseteq System /\ System \subseteq Slot /\ User \subseteq Slot
  /\ ANY \notin Slot /\ IDLE \notin Slot /\ HARDWARE \notin System /\ HARDWARE \notin User
  /\ \A p \in System : p \notin User
  /\ SENDING # RECEIVING /\ SENDING # P_SLOT_FREE /\ RECEIVING # P_SLOT_FREE
  BY NrTasksAssumption, NrProcsAssumption
  DEF MM_PROC_NR, FS_PROC_NR, Slot, System, Task, Server, User, LOW_USER, HARDWARE, ANY,
      IDLE, SENDING, RECEIVING, P_SLOT_FREE

\* What mini_send() delivers to a user is the answer it waits for.
LEMMA DeliverUser ==
  ASSUME NEW s, NEW asked, UserOK(s, asked), NEW t, NEW src \in Slot, NEW dest \in Slot,
         NEW body, Delivered(s, t, src, dest, body), dest \in User => body = REP
  PROVE  UserOK(t, asked)
<1> SUFFICES ASSUME NEW u \in User
             PROVE  /\ RECEIVING \in t.p_flags[u] => asked[u] \in Server /\ t.p_getfrom[u] = asked[u]
                    /\ t.p_mess[u].m_source \notin {IDLE, u} => t.p_mess[u] = cp_mess(asked[u], REP)
                    /\ \A p \in Runner : Contains(t.p_callerq[u], p) =>
                         t.p_flags[p] = {SENDING} /\ t.p_mess[p].body = REP
  BY DEF UserOK
<1>1. u \in Slot
  BY Classes
<1>2. RECEIVING \in t.p_flags[u] => asked[u] \in Server /\ t.p_getfrom[u] = asked[u]
  BY <1>1 DEF UserOK, Delivered
<1>4. u # dest => t.p_mess[u] = s.p_mess[u]
  BY <1>1 DEF Delivered
<1>5. ASSUME NEW p \in Runner, Contains(t.p_callerq[u], p)
      PROVE  t.p_flags[p] = {SENDING} /\ t.p_mess[p].body = REP
  <2>1. s.p_flags[p] = {SENDING} /\ s.p_mess[p].body = REP
    BY <1>5 DEF UserOK, Delivered
  <2>2. p # dest /\ p \in Slot
    BY <2>1, Classes DEF Delivered, Awaits, Runner
  <2> QED
    BY <2>1, <2>2 DEF Delivered
<1>6. t.p_mess[u].m_source \notin {IDLE, u} => t.p_mess[u] = cp_mess(asked[u], REP)
  <2>1. CASE u = dest
    <3>1. asked[u] \in Server /\ s.p_getfrom[u] = asked[u] /\ s.p_getfrom[u] \in {ANY, src}
      BY <2>1 DEF UserOK, Delivered, Awaits
    <3>2. asked[u] = src /\ body = REP
      BY <2>1, <3>1, Classes
    <3> QED
      BY <1>1, <2>1, <3>2 DEF Delivered
  <2>2. CASE u # dest
    BY <1>4, <2>2 DEF UserOK
  <2> QED
    BY <2>1, <2>2
<1> QED
  BY <1>2, <1>5, <1>6

\* mini_send() queues nothing but answers at a user.
LEMMA QueueUser ==
  ASSUME NEW s, NEW asked, UserOK(s, asked), NEW t, NEW caller \in Runner, NEW dest \in Slot,
         NEW body, Queued(s, t, caller, dest, body), s.p_flags[caller] = {},
         dest \in User => body = REP
  PROVE  UserOK(t, asked)
<1> SUFFICES ASSUME NEW u \in User
             PROVE  /\ RECEIVING \in t.p_flags[u] => asked[u] \in Server /\ t.p_getfrom[u] = asked[u]
                    /\ t.p_mess[u].m_source \notin {IDLE, u} => t.p_mess[u] = cp_mess(asked[u], REP)
                    /\ \A p \in Runner : Contains(t.p_callerq[u], p) =>
                         t.p_flags[p] = {SENDING} /\ t.p_mess[p].body = REP
  BY DEF UserOK
<1>1. u \in Slot /\ caller \in Slot
  BY Classes DEF Runner
<1>5. \A p \in Slot :
        /\ t.p_flags[p] = IF p = caller THEN s.p_flags[p] \cup {SENDING} ELSE s.p_flags[p]
        /\ t.p_mess[p] = IF p = caller THEN cp_mess(caller, body) ELSE s.p_mess[p]
  BY DEF Queued
<1>6. t.p_getfrom = s.p_getfrom
  BY DEF Queued
<1>7. \A p \in Runner : Contains(t.p_callerq[u], p) =>
        Contains(s.p_callerq[u], p) \/ (u = dest /\ p = caller)
  BY <1>1 DEF Queued
<1>2. RECEIVING \in t.p_flags[u] => asked[u] \in Server /\ t.p_getfrom[u] = asked[u]
  <2>1. RECEIVING \in t.p_flags[u] => RECEIVING \in s.p_flags[u]
    BY <1>1, <1>5, Classes
  <2> QED
    BY <1>6, <2>1 DEF UserOK
<1>3. t.p_mess[u].m_source \notin {IDLE, u} => t.p_mess[u] = cp_mess(asked[u], REP)
  <2>1. CASE u = caller
    <3>1. t.p_mess[u] = cp_mess(u, body)
      BY <1>1, <1>5, <2>1
    <3> QED
      BY <3>1 DEF cp_mess
  <2>2. CASE u # caller
    BY <1>1, <1>5, <2>2 DEF UserOK
  <2> QED
    BY <2>1, <2>2
<1>4. ASSUME NEW p \in Runner, Contains(t.p_callerq[u], p)
      PROVE  t.p_flags[p] = {SENDING} /\ t.p_mess[p].body = REP
  <2>1. CASE Contains(s.p_callerq[u], p)
    <3>1. s.p_flags[p] = {SENDING} /\ s.p_mess[p].body = REP
      BY <2>1 DEF UserOK
    <3>2. p # caller /\ p \in Slot
      BY <3>1 DEF Runner
    <3> QED
      BY <1>5, <3>1, <3>2
  <2>2. CASE u = dest /\ p = caller
    <3>1. t.p_mess[p] = cp_mess(caller, body) /\ t.p_flags[p] = {} \cup {SENDING}
      BY <1>1, <1>5, <2>2
    <3> QED
      BY <2>2, <3>1 DEF cp_mess
  <2> QED
    BY <1>4, <1>7, <2>1, <2>2
<1> QED
  BY <1>2, <1>3, <1>4

\* mini_rec() gives a user the answer of the server it called, or blocks it there.
LEMMA ReceiveUser ==
  ASSUME NEW s, NEW asked, KernelOK(s), UserOK(s, asked), NEW caller \in Runner,
         NEW src \in Slot \cup {ANY}, NotAtUser(s, caller),
         caller \in User => src \in Server /\ src = asked[caller]
  PROVE  UserOK(mini_rec(s, caller, src), asked)
<1> DEFINE t == mini_rec(s, caller, src)
<1>1. caller \in Slot /\ caller # HARDWARE
  BY DEF Runner
<1>2. ASSUME NEW sender \in Runner, src \in {ANY, sender}, Took(s, t, caller, sender)
      PROVE  UserOK(t, asked)
  <2> HIDE DEF t
  <2> SUFFICES ASSUME NEW u \in User
               PROVE  /\ RECEIVING \in t.p_flags[u] => asked[u] \in Server /\ t.p_getfrom[u] = asked[u]
                      /\ t.p_mess[u].m_source \notin {IDLE, u} => t.p_mess[u] = cp_mess(asked[u], REP)
                      /\ \A p \in Runner : Contains(t.p_callerq[u], p) =>
                           t.p_flags[p] = {SENDING} /\ t.p_mess[p].body = REP
    BY DEF UserOK
  <2>1. u \in Slot
    BY Classes
  <2>2. RECEIVING \in t.p_flags[u] => asked[u] \in Server /\ t.p_getfrom[u] = asked[u]
    BY <1>2, <2>1 DEF UserOK, Took
  <2>3. t.p_mess[u].m_source \notin {IDLE, u} => t.p_mess[u] = cp_mess(asked[u], REP)
    <3>1. CASE u = caller
      <4>1. s.p_mess[sender].body = REP
        BY <1>2, <3>1 DEF UserOK, Took
      <4>2. sender = asked[u]
        BY <1>2, <3>1, Classes
      <4> QED
        BY <1>2, <2>1, <3>1, <4>1, <4>2 DEF Took
    <3>2. CASE u # caller
      BY <1>2, <2>1, <3>2 DEF UserOK, Took
    <3> QED
      BY <3>1, <3>2
  <2>4. ASSUME NEW p \in Runner, Contains(t.p_callerq[u], p)
        PROVE  t.p_flags[p] = {SENDING} /\ t.p_mess[p].body = REP
    <3>1. Contains(s.p_callerq[u], p) /\ p # sender
      BY <1>2, <2>1, <2>4 DEF Took
    <3>2. s.p_flags[p] = {SENDING} /\ s.p_mess[p].body = REP /\ p # caller /\ p \in Slot
      BY <3>1 DEF UserOK, NotAtUser, Runner
    <3> QED
      BY <1>2, <3>1, <3>2 DEF Took
  <2> QED
    BY <2>2, <2>3, <2>4
<1>3. ASSUME NEW m, Waits(s, m, caller, src) PROVE UserOK(m, asked)
  <2> SUFFICES ASSUME NEW u \in User
               PROVE  /\ RECEIVING \in m.p_flags[u] => asked[u] \in Server /\ m.p_getfrom[u] = asked[u]
                      /\ m.p_mess[u].m_source \notin {IDLE, u} => m.p_mess[u] = cp_mess(asked[u], REP)
                      /\ \A p \in Runner : Contains(m.p_callerq[u], p) =>
                           m.p_flags[p] = {SENDING} /\ m.p_mess[p].body = REP
    BY DEF UserOK
  <2>1. u \in Slot
    BY Classes
  <2>2. RECEIVING \in m.p_flags[u] => asked[u] \in Server /\ m.p_getfrom[u] = asked[u]
    BY <1>3, <2>1 DEF UserOK, Waits
  <2>3. m.p_mess[u].m_source \notin {IDLE, u} => m.p_mess[u] = cp_mess(asked[u], REP)
    BY <1>3 DEF UserOK, Waits
  <2>4. ASSUME NEW p \in Runner, Contains(m.p_callerq[u], p)
        PROVE  m.p_flags[p] = {SENDING} /\ m.p_mess[p].body = REP
    <3>1. Contains(s.p_callerq[u], p) /\ p # caller /\ p \in Slot
      BY <1>3, <2>4 DEF Waits, NotAtUser, Runner
    <3> QED
      BY <1>3, <3>1 DEF Waits, UserOK
  <2> QED
    BY <2>2, <2>3, <2>4
<1>4. ASSUME NEW m, KernelOK(m), UserOK(m, asked) PROVE UserOK(inform(m), asked)
  <2> DEFINE v == inform(m)
             body == ksig_mess(LowestPending(m), m.p_pending[LowestPending(m)])
  <2>1. SameCalls(m, v) \/ Delivered(m, v, HARDWARE, MM_PROC_NR, body)
    BY <1>4, InformEffect
  <2> HIDE DEF v, body
  <2>2. CASE SameCalls(m, v)
    BY <1>4, <2>2 DEF UserOK, SameCalls, v
  <2>3. CASE Delivered(m, v, HARDWARE, MM_PROC_NR, body)
    <3>1. MM_PROC_NR \notin User /\ MM_PROC_NR \in Slot /\ HARDWARE \in Slot
      BY Classes
    <3>2. UserOK(v, asked)
      BY <1>4, <2>3, <3>1, DeliverUser
    <3> QED
      BY <3>2 DEF v
  <2> QED
    BY <2>1, <2>2, <2>3
<1>5. \/ \E sender \in Runner : src \in {ANY, sender} /\ Took(s, t, caller, sender)
      \/ \E m : KernelOK(m) /\ Waits(s, m, caller, src) /\ t \in {m, inform(m)}
  <2>1. \/ \E sender \in Runner :
                  /\ src \in {ANY, sender}
                  /\ Took(s, t, caller, sender) /\ SamePending(s, t)
        \/ \E m : /\ KernelOK(m)
                  /\ Waits(s, m, caller, src) /\ SamePending(s, m)
                  /\ t = IF s.sig_procs > 0 /\ caller = MM_PROC_NR /\ src = ANY
                         THEN inform(m) ELSE m
    BY ReceiveEffect
  <2> HIDE DEF t
  <2> QED
    BY <2>1
<1> HIDE DEF t
<1>6. UserOK(t, asked)
  BY <1>2, <1>3, <1>4, <1>5
<1> QED
  BY <1>6 DEF t

\* mini_send() of a running process, or of interrupt().
LEMMA SendUser ==
  ASSUME NEW s, NEW asked, KernelOK(s), UserOK(s, asked), NEW caller \in Slot,
         NEW dest \in Slot, NEW body \in Body, NEW addr_ok \in BOOLEAN,
         caller # HARDWARE => s.p_flags[caller] = {}, dest \in User => body = REP
  PROVE  LET t == mini_send(s, caller, dest, body, addr_ok).k
         IN  /\ UserOK(t, asked)
             /\ caller # HARDWARE /\ dest \notin User => NotAtUser(t, caller)
<1> DEFINE t == mini_send(s, caller, dest, body, addr_ok).k
<1>1. \/ t = s
      \/ Delivered(s, t, caller, dest, body)
      \/ caller # HARDWARE /\ Queued(s, t, caller, dest, body)
  BY SendEffect
<1> HIDE DEF t
<1>2. UserOK(t, asked)
  BY <1>1, DeliverUser, QueueUser DEF Runner
<1>3. ASSUME caller # HARDWARE, dest \notin User PROVE NotAtUser(t, caller)
  <2>1. caller \in Runner /\ SENDING \notin s.p_flags[caller]
    BY <1>3 DEF Runner
  <2>2. \A u \in User : u \in Slot /\ ~ Contains(s.p_callerq[u], caller)
    BY <2>1, Classes DEF KernelOK, CallerListsExact
  <2>3. ASSUME NEW u \in User PROVE ~ Contains(t.p_callerq[u], caller)
    BY <1>1, <1>3, <2>1, <2>2 DEF Delivered, Queued
  <2> QED
    BY <2>3 DEF NotAtUser
<1> QED
  BY <1>2, <1>3 DEF t

\* Which answer a process that runs waited for no longer matters.
LEMMA AskedIrrelevant ==
  ASSUME NEW s, NEW asked, UserOK(s, asked), NEW others,
         \A u \in User : \/ others[u] = asked[u]
                         \/ s.p_flags[u] = {} /\ s.p_mess[u].m_source \in {IDLE, u}
  PROVE  UserOK(s, others)
  BY DEF UserOK

\* The running process sends, and receives from the one it sent to.
LEMMA SendThenReceiveUser ==
  ASSUME IInv, NEW asked, UserOK(k, asked), NEW p \in Runner, k.cur_proc = p,
         NEW body \in {REQ, REP, PUSH}, NEW d \in Slot, d \in User => body = REP,
         NEW addr_ok \in BOOLEAN
  PROVE  LET t == mini_send(k, p, d, body, addr_ok).k
         IN  /\ UserOK(t, asked)
             /\ d \notin User /\ (p \in User => d \in Server /\ d = asked[p]) =>
                  UserOK(mini_rec(t, p, d), asked)
<1> DEFINE t == mini_send(k, p, d, body, addr_ok).k
<1>1. /\ KernelOK(k) /\ k.p_flags[p] = {} /\ body \in Body
      /\ p \in Slot /\ p # HARDWARE
  BY RunningUnblocked, BodyAssumption, Slots DEF IInv
<1>2. KernelOK(t)
  BY <1>1, MiniSendOK
<1>3. UserOK(t, asked) /\ (d \notin User => NotAtUser(t, p))
  BY <1>1, SendUser
<1> HIDE DEF t
<1>4. d \notin User /\ (p \in User => d \in Server /\ d = asked[p]) =>
        UserOK(mini_rec(t, p, d), asked)
  BY <1>2, <1>3, ReceiveUser
<1> QED
  BY <1>3, <1>4 DEF t

\* Whatever a user traps with, the kernel does nothing or keeps UserOK for the server
\* that the user waits for from then on.
LEMMA TrapUser ==
  ASSUME IInv, UserOK(k, awaiting), NEW u \in User, k.cur_proc = u, ~ HasMessage(u),
         NEW function, NEW dest, NEW addr_ok \in BOOLEAN
  PROVE  LET called == sys_call(k, function, u, dest, REQ, addr_ok)
         IN  IF called.n = "OK" THEN UserOK(called.k, [awaiting EXCEPT ![u] = dest])
             ELSE UserOK(called.k, awaiting)
<1> DEFINE sent == mini_send(k, u, dest, REQ, addr_ok)
           called == sys_call(k, function, u, dest, REQ, addr_ok)
           w == [awaiting EXCEPT ![u] = dest]
<1>1. /\ KernelOK(k) /\ u \in Runner /\ k.p_flags[u] = {} /\ REQ \in Body
      /\ awaiting \in [Runner -> Slot \cup {Nobody}]
  BY RunningUnblocked, BodyAssumption, Slots DEF IInv, TypeOK
<1>2. w[u] = dest /\ \A v \in User : v # u => w[v] = awaiting[v]
  BY <1>1, Slots
<1>3. \/ called.n # "OK" /\ called.k = k
      \/ called.n = "OK" /\ dest \in Server /\ called.k = mini_rec(sent.k, u, dest)
  BY <1>1, UserCallEffect
<1> HIDE DEF w
<1>4. ASSUME dest \in Server PROVE UserOK(mini_rec(sent.k, u, dest), w)
  <2>1. k.p_mess[u].m_source \in {IDLE, u}
    BY DEF HasMessage
  <2>2. UserOK(k, w)
    BY <1>1, <1>2, <2>1, AskedIrrelevant
  <2>3. dest \in Slot /\ dest \notin User
    BY <1>4, Classes
  <2> QED
    BY <1>1, <1>2, <1>4, <2>2, <2>3, SendThenReceiveUser
<1> HIDE DEF sent, called
<1>5. IF called.n = "OK" THEN UserOK(called.k, w) ELSE UserOK(called.k, awaiting)
  BY <1>3, <1>4
<1> QED
  BY <1>5 DEF called, w

\* The calls that the running task or server makes.
LEMMA CallsUser ==
  ASSUME IInv, NEW asked, UserOK(k, asked), NEW p \in Runner, k.cur_proc = p,
         NEW body \in {REQ, REP, PUSH}
  PROVE  /\ \A src \in Slot \cup {ANY} :
              p \in System => UserOK(sys_call(k, {"RECEIVE"}, p, src, body, TRUE).k, asked)
         /\ \A d \in Slot :
              p \in System /\ (d \in User => body = REP) =>
                UserOK(sys_call(k, {"SEND"}, p, d, body, TRUE).k, asked)
         /\ \A d \in System :
              p \in System => UserOK(sys_call(k, {"SEND", "RECEIVE"}, p, d, body, TRUE).k, asked)
<1>1. /\ KernelOK(k) /\ k.p_flags[p] = {} /\ body \in Body
      /\ p \in Slot /\ p # HARDWARE
  BY RunningUnblocked, BodyAssumption, Slots DEF IInv
<1>2. NotAtUser(k, p)
  <2>1. SENDING \notin k.p_flags[p]
    BY <1>1
  <2> QED
    BY <1>1, <2>1, Classes DEF KernelOK, CallerListsExact, NotAtUser
<1>3. ASSUME NEW src \in Slot \cup {ANY}, p \in System
      PROVE  UserOK(sys_call(k, {"RECEIVE"}, p, src, body, TRUE).k, asked)
  <2>1. UserOK(mini_rec(k, p, src), asked)
    BY <1>1, <1>2, <1>3, Classes, ReceiveUser
  <2>2. sys_call(k, {"RECEIVE"}, p, src, body, TRUE).k = mini_rec(k, p, src)
    BY <1>3, ReceiveCall
  <2> QED
    BY <2>1, <2>2
<1>4. ASSUME NEW d \in Slot, p \in System, d \in User => body = REP
      PROVE  UserOK(sys_call(k, {"SEND"}, p, d, body, TRUE).k, asked)
  <2> DEFINE sent == mini_send(k, p, d, body, TRUE)
             one == sys_call(k, {"SEND"}, p, d, body, TRUE)
  <2>1. one.k = sent.k
    <3>1. mini_send(k, p, d, body, TRUE).n # "OK" => mini_send(k, p, d, body, TRUE).k = k
      BY <1>1, SendRefused
    <3> HIDE DEF one, sent
    <3>2. \A t : t = sys_call(k, {"SEND"}, p, d, body, TRUE).k
                 => t = mini_send(k, p, d, body, TRUE).k
      BY <1>4, <3>1, SendCall
    <3> QED
      BY <3>2 DEF one, sent
  <2>2. UserOK(sent.k, asked)
    BY <1>4, SendThenReceiveUser
  <2> QED
    BY <2>1, <2>2
<1>5. ASSUME NEW d \in System, p \in System
      PROVE  UserOK(sys_call(k, {"SEND", "RECEIVE"}, p, d, body, TRUE).k, asked)
  <2> DEFINE sent == mini_send(k, p, d, body, TRUE)
             both == sys_call(k, {"SEND", "RECEIVE"}, p, d, body, TRUE)
  <2>1. d \in Slot /\ d \notin User /\ p \notin User
    BY <1>5, Classes
  <2>2. both.k = mini_rec(sent.k, p, d) \/ both.k = k
    <3>1. p \in System /\ d \in Slot
      BY <1>5, <2>1
    <3> QED
      BY <3>1, BothCall
  <2>3. UserOK(mini_rec(sent.k, p, d), asked)
    BY <2>1, SendThenReceiveUser
  <2> HIDE DEF sent, both
  <2>4. UserOK(both.k, asked)
    BY <2>2, <2>3
  <2> QED
    BY <2>4 DEF both
<1> QED
  BY <1>3, <1>4, <1>5

\* Every step keeps UserOK.
LEMMA NextUser ==
  ASSUME IInv, UserOK(k, awaiting), Next PROVE UserOK(k', awaiting')
<1>0. /\ KernelOK(k) /\ k \in KState /\ ReadyListsSorted(k) /\ CurrentIsHead(k)
      /\ awaiting \in [Runner -> Slot \cup {Nobody}]
  BY DEF IInv, KernelOK, ReadyOK, ReadyListsExact, TypeOK
<1>1. ASSUME NEW task \in Drivers \cup {CLOCK}
      PROVE  UserOK(mini_send(k, HARDWARE, task, INT, TRUE).k, awaiting)
  <2>1. task \in System
    BY Slots, DriversAssumption DEF System
  <2> QED
    BY <1>0, <2>1, Classes, SendUser, BodyAssumption
<1>2. ASSUME NEW task \in Drivers \cup {CLOCK}, interrupt(task) PROVE UserOK(k', awaiting')
  BY <1>1, <1>2 DEF interrupt
<1>3. CASE interrupt_retry
  BY <1>1, <1>3 DEF interrupt_retry
<1>4. ASSUME NEW t, SameTable(k, t) PROVE UserOK(t, awaiting)
  BY <1>4 DEF SameTable, UserOK
<1>5. UserOK(pick_proc(k), awaiting) /\ UserOK(sched(k), awaiting)
  BY <1>0, <1>4, PickProc, Sched
<1>6. CASE interrupt_end
  BY <1>5, <1>6 DEF interrupt_end
<1>7. CASE EndQuantum
  BY <1>5, <1>7 DEF EndQuantum
<1>8. ASSUME NEW p \in Runner, Consume(p) PROVE UserOK(k', awaiting')
  <2>1. k.p_flags[p] = {}
    BY <1>0, <1>8, RunningUnblocked DEF Consume, Running
  <2>2. /\ k'.p_flags = k.p_flags /\ k'.p_getfrom = k.p_getfrom /\ k'.p_callerq = k.p_callerq
        /\ \A x \in Slot : k'.p_mess[x] = IF x = p THEN NilMess ELSE k.p_mess[x]
        /\ \A x \in Runner : x # p => awaiting'[x] = awaiting[x]
    BY <1>0, <1>8 DEF Consume, KState, Runner
  <2>3. NilMess.m_source = IDLE
    BY DEF NilMess
  <2>4. ASSUME NEW u \in User
        PROVE  /\ RECEIVING \in k'.p_flags[u] => awaiting'[u] \in Server /\ k'.p_getfrom[u] = awaiting'[u]
               /\ k'.p_mess[u].m_source \notin {IDLE, u} => k'.p_mess[u] = cp_mess(awaiting'[u], REP)
               /\ \A q \in Runner : Contains(k'.p_callerq[u], q) =>
                    k'.p_flags[q] = {SENDING} /\ k'.p_mess[q].body = REP
    <3>1. u \in Slot /\ u \in Runner
      BY Slots
    <3>2. RECEIVING \in k'.p_flags[u] => awaiting'[u] \in Server /\ k'.p_getfrom[u] = awaiting'[u]
      BY <2>1, <2>2, <3>1 DEF UserOK
    <3>3. k'.p_mess[u].m_source \notin {IDLE, u} => k'.p_mess[u] = cp_mess(awaiting'[u], REP)
      BY <2>2, <2>3, <3>1 DEF UserOK
    <3>4. ASSUME NEW q \in Runner, Contains(k'.p_callerq[u], q)
          PROVE  k'.p_flags[q] = {SENDING} /\ k'.p_mess[q].body = REP
      <4>1. k.p_flags[q] = {SENDING} /\ k.p_mess[q].body = REP
        BY <2>2, <3>4 DEF UserOK
      <4>2. q # p /\ q \in Slot
        BY <2>1, <4>1 DEF Runner
      <4> QED
        BY <2>2, <4>1, <4>2
    <3> QED
      BY <3>2, <3>3, <3>4
  <2> QED
    BY <2>4 DEF UserOK
<1>9. ASSUME NEW u \in User, NEW function, NEW dest, NEW addr_ok \in BOOLEAN,
             UserCall(u, function, dest, addr_ok)
      PROVE  UserOK(k', awaiting')
  <2> DEFINE called == sys_call(k, function, u, dest, REQ, addr_ok)
             w == [awaiting EXCEPT ![u] = dest]
  <2>1. k.cur_proc = u /\ ~ HasMessage(u)
    BY <1>9 DEF UserCall, MayCall, Running
  <2>2. IF called.n = "OK" THEN UserOK(called.k, w) ELSE UserOK(called.k, awaiting)
    BY <2>1, TrapUser
  <2>3. k' = called.k /\ awaiting' = IF called.n = "OK" THEN w ELSE awaiting
    BY <1>9 DEF UserCall
  <2> HIDE DEF called, w
  <2> QED
    BY <2>2, <2>3
<1>10. ASSUME NEW s \in System, Receive(s) PROVE UserOK(k', awaiting')
  <2>1. k.cur_proc = s /\ s \in Runner /\ ~ HasMessage(s)
    BY <1>10, Slots DEF Receive, MayCall, Running
  <2>2. UserOK(sys_call(k, {"RECEIVE"}, s, ANY, REQ, TRUE).k, awaiting)
    BY <2>1, CallsUser
  <2> QED
    BY <1>10, <2>2 DEF Receive
<1>11. ASSUME NEW t \in Drivers, ReceiveInterrupt(t) PROVE UserOK(k', awaiting')
  <2>1. k.cur_proc = t /\ t \in Runner /\ t \in System /\ HARDWARE \in Slot /\ ~ HasMessage(t)
    BY <1>11, Slots, DriversAssumption DEF ReceiveInterrupt, MayCall, Running, System
  <2>2. UserOK(sys_call(k, {"RECEIVE"}, t, HARDWARE, REQ, TRUE).k, awaiting)
    BY <2>1, CallsUser
  <2> QED
    BY <1>11, <2>2 DEF ReceiveInterrupt
<1>12. ASSUME NEW c \in Calls, Call(c[1], c[2]) PROVE UserOK(k', awaiting')
  <2>1. c[1] \in System /\ c[2] \in System
    BY CallsAssumption
  <2>2. k.cur_proc = c[1] /\ c[1] \in Runner /\ ~ HasMessage(c[1])
    BY <1>12, <2>1, Slots DEF Call, MayCall, Running
  <2>3. UserOK(sys_call(k, {"SEND", "RECEIVE"}, c[1], c[2], REQ, TRUE).k, awaiting)
    BY <2>1, <2>2, CallsUser
  <2>4. \A u \in User : awaiting'[u] = awaiting[u]
    BY <1>0, <1>12, <2>1, Classes, Slots DEF Call
  <2>5. UserOK(k', awaiting)
    BY <1>12, <2>3 DEF Call
  <2> QED
    BY <2>4, <2>5 DEF UserOK
<1>13. ASSUME NEW s \in System, NEW c \in Runner, Reply(s, c) PROVE UserOK(k', awaiting')
  <2>1. k.cur_proc = s /\ s \in Runner /\ c \in Slot /\ ~ HasMessage(s)
    BY <1>13, Slots DEF Reply, MayCall, Running
  <2>2. UserOK(sys_call(k, {"SEND"}, s, c, REP, TRUE).k, awaiting)
    BY <2>1, CallsUser
  <2> QED
    BY <1>13, <2>2 DEF Reply
<1>14. ASSUME NEW c \in Pushes, Push(c[1], c[2]) PROVE UserOK(k', awaiting')
  <2>1. c[1] \in System /\ c[2] \in System
    BY PushesAssumption
  <2>2. k.cur_proc = c[1] /\ c[1] \in Runner /\ c[2] \in Slot /\ c[2] \notin User
        /\ ~ HasMessage(c[1])
    BY <1>14, <2>1, Classes, Slots DEF Push, MayCall, Running
  <2>3. UserOK(sys_call(k, {"SEND"}, c[1], c[2], PUSH, TRUE).k, awaiting)
    BY <2>1, <2>2, CallsUser
  <2> QED
    BY <1>14, <2>3 DEF Push
<1>15. ASSUME NEW t, NEW rp \in User, NEW sig \in Signals, CauseSig(t, rp, sig)
       PROVE  UserOK(k', awaiting')
  <2> DEFINE sp == IF k.p_pending[rp] = {} THEN k.sig_procs + 1 ELSE k.sig_procs
             pp == [k.p_pending EXCEPT ![rp] = @ \cup {sig}]
             m  == [k EXCEPT !.sig_procs = sp, !.p_pending = pp]
             body == ksig_mess(LowestPending(m), m.p_pending[LowestPending(m)])
  <2>1. k' = inform(m)
    BY <1>15 DEF CauseSig, cause_sig
  <2>2. sp \in Int /\ pp \in [Slot -> SUBSET Signals]
    <3>1. k.p_pending \in [Slot -> SUBSET Signals] /\ k.sig_procs \in Int /\ rp \in Slot
      BY <1>0, Classes DEF KState
    <3> QED
      BY <3>1
  <2> HIDE DEF sp, pp
  <2>3. KernelOK(m)
    BY <1>0, <2>2, PendingIrrelevant
  <2>4. SameCalls(k, m)
    BY <1>0 DEF KState, SameCalls
  <2> HIDE DEF m
  <2>5. UserOK(m, awaiting)
    BY <2>4 DEF UserOK, SameCalls
  <2>6. SameCalls(m, k') \/ Delivered(m, k', HARDWARE, MM_PROC_NR, body)
    BY <2>1, <2>3, InformEffect
  <2>7. awaiting' = awaiting
    BY <1>15 DEF CauseSig
  <2> HIDE DEF body
  <2>8. CASE SameCalls(m, k')
    <3>1. UserOK(k', awaiting)
      BY <2>5, <2>8 DEF UserOK, SameCalls
    <3> QED
      BY <2>7, <3>1
  <2>9. CASE Delivered(m, k', HARDWARE, MM_PROC_NR, body)
    <3>1. MM_PROC_NR \notin User
      BY Classes
    <3>2. UserOK(k', awaiting)
      BY <2>5, <2>9, <3>1, Classes, DeliverUser
    <3> QED
      BY <2>7, <3>2
  <2> QED
    BY <2>6, <2>8, <2>9
<1> QED
  BY <1>2, <1>3, <1>6, <1>7, <1>8, <1>9, <1>10, <1>11, <1>12, <1>13, <1>14, <1>15
  DEF Next, UserAny

\* A user gets nothing but the answer of the server it called: whatever it puts into
\* the registers, mini_send() and mini_rec() let no other message into its buffer, a
\* KSIG, an interrupt, a request or the answer to somebody else included.
THEOREM UsersInvariant == Spec => []UsersGetReplies
<1>1. Init => UserOK(k, awaiting)
  <2> SUFFICES ASSUME Init PROVE UserOK(k, awaiting)
    OBVIOUS
  <2>1. \A u \in User : /\ RECEIVING \notin k.p_flags[u] /\ k.p_mess[u] = NilMess
                        /\ k.p_callerq[u] = <<>>
    BY Classes, BootEffect, UsersAssumption DEF Init
  <2>2. NilMess.m_source = IDLE /\ \A p : ~ Contains(<<>>, p)
    BY DEF NilMess, Contains
  <2> QED
    BY <2>1, <2>2 DEF UserOK
<1>2. IInv /\ UserOK(k, awaiting) /\ [Next]_vars => UserOK(k, awaiting)'
  <2>1. ASSUME IInv, UserOK(k, awaiting), Next PROVE UserOK(k, awaiting)'
    BY <2>1, NextUser
  <2>2. ASSUME UserOK(k, awaiting), UNCHANGED vars PROVE UserOK(k, awaiting)'
    BY <2>2 DEF vars
  <2> QED
    BY <2>1, <2>2
<1>3. UserOK(k, awaiting) => UsersGetReplies
  BY DEF UserOK, UsersGetReplies, HasMessage
<1> QED
  BY <1>1, <1>2, <1>3, Invariant, PTL DEF Spec

-----------------------------------------------------------------------------
(* Calls that descend.  If the system processes call each other in one     *)
(* direction only, and send nothing unasked, every blocked process is one  *)
(* link of a chain that ends at somebody who can run.                      *)

\* c may call d with sendrec().
MayAsk(c, d) == (c \in User /\ d \in Server) \/ <<c, d>> \in Calls

\* c has asked d, and waits for nothing but the answer.
WaitsForAnswer(s, c, d) ==
  s.p_flags[c] = {RECEIVING} /\ s.p_getfrom[c] = d /\ MayAsk(c, d)

\* The request of c waits in the queue of d.
WaitsToAsk(s, c, d) ==
  /\ s.p_flags[c] = {SENDING, RECEIVING} /\ s.p_getfrom[c] = d /\ MayAsk(c, d)
  /\ s.p_mess[c] = cp_mess(c, REQ)

\* A process is known by its request: it is in the queue of the process it asked, in
\* its buffer, or among those it owes an answer.
CallsOK(s, due) ==
  /\ \A p \in System : \A c \in due[p] : WaitsForAnswer(s, c, p)
  /\ \A p \in System :
       s.p_mess[p].m_source \notin {IDLE, p} /\ s.p_mess[p].body = REQ =>
         WaitsForAnswer(s, s.p_mess[p].m_source, p)
  /\ \A c \in Runner, d \in Slot : Contains(s.p_callerq[d], c) => WaitsToAsk(s, c, d)
  /\ \A p \in Runner : RECEIVING \in s.p_flags[p] =>
       s.p_getfrom[p] \in {ANY, HARDWARE} \/ MayAsk(p, s.p_getfrom[p])

\* When the CPU idles, only MM may be ready, and tasks that interrupt() has just told.
IdleOK(s, inside) ==
  s.cur_proc = IDLE =>
    \A p \in Runner : s.p_flags[p] = {} => p = MM_PROC_NR \/ (inside /\ p \in Task)

\* Who asks is a process, and is asked by none of those it asks.
LEMMA NoMutual ==
  ASSUME CallsDescend
  PROVE  /\ \A c, d : MayAsk(c, d) => c \in Runner /\ c \in Slot /\ d \in System
         /\ \A c, d : MayAsk(c, d) => c # d /\ ~ MayAsk(d, c)
<1>1. \A c, d : MayAsk(c, d) => c \in Runner /\ c \in Slot /\ d \in System
  BY Slots, Classes, CallsAssumption DEF MayAsk
<1>2. ASSUME NEW c, NEW d, MayAsk(c, d), c = d \/ MayAsk(d, c) PROVE FALSE
  <2>1. d \in System /\ d \notin User
    BY <1>1, <1>2, Classes
  <2>2. <<d, c>> \in Calls
    BY <1>2, <2>1 DEF MayAsk
  <2>3. c \in System /\ c \notin User
    BY <2>2, Classes, CallsAssumption
  <2>4. <<c, d>> \in Calls
    BY <1>2, <2>3 DEF MayAsk
  <2>5. {c, d} \in SUBSET System /\ {c, d} # {}
    BY <2>1, <2>3
  <2>6. PICK p \in {c, d} : \A x \in {c, d} : <<p, x>> \notin Calls
    BY <2>5 DEF CallsDescend
  <2> QED
    BY <2>2, <2>4, <2>6
<1> QED
  BY <1>1, <1>2

\* The fields of a message, and the bodies that are no requests.
LEMMA Bodies ==
  /\ \A src, body : cp_mess(src, body).m_source = src /\ cp_mess(src, body).body = body
  /\ REP # REQ /\ INT # REQ /\ \A rp, map : ksig_mess(rp, map) # REQ
<1>1. \A src, body : cp_mess(src, body).m_source = src /\ cp_mess(src, body).body = body
  BY DEF cp_mess
<1>2. REP # REQ /\ INT # REQ
  BY DEF REP, REQ, INT
<1>3. ASSUME NEW rp, NEW map PROVE ksig_mess(rp, map) # REQ
  <2>1. ksig_mess(rp, map).m_type = "KSIG" /\ REQ.m_type = "REQ"
    BY DEF ksig_mess, REQ
  <2> QED
    BY <2>1
<1> QED
  BY <1>1, <1>2, <1>3

\* A delivery that is no request: an answer to a caller that is owed it, an interrupt
\* or a KSIG.
LEMMA DeliverCalls ==
  ASSUME CallsDescend, NEW s, NEW due, CallsOK(s, due), NEW t, NEW src \in Slot,
         NEW dest \in Slot, NEW body, Delivered(s, t, src, dest, body), body # REQ,
         NEW left, \A p \in System : left[p] \subseteq due[p],
         \/ src = HARDWARE
         \/ /\ src \in System /\ s.p_mess[src].m_source \in {IDLE, src}
            /\ SENDING \notin s.p_flags[dest] /\ dest \notin left[src]
  PROVE  CallsOK(t, left)
<1>1. /\ \A p \in Slot :
           /\ t.p_flags[p] = IF p = dest THEN s.p_flags[p] \ {RECEIVING} ELSE s.p_flags[p]
           /\ t.p_mess[p] = IF p = dest THEN cp_mess(src, body) ELSE s.p_mess[p]
      /\ t.p_getfrom = s.p_getfrom /\ t.p_callerq = s.p_callerq
      /\ RECEIVING \in s.p_flags[dest] /\ s.p_getfrom[dest] \in {ANY, src}
  BY DEF Delivered, Awaits
<1>2. ASSUME NEW c, NEW d \in System, WaitsForAnswer(s, c, d), c # dest \/ d # src
      PROVE  WaitsForAnswer(t, c, d)
  <2>1. c \in Slot /\ d \in Slot
    BY <1>2, NoMutual, Classes DEF WaitsForAnswer
  <2>2. c # dest
    BY <1>1, <1>2, <2>1, Classes DEF WaitsForAnswer
  <2> QED
    BY <1>1, <1>2, <2>1, <2>2 DEF WaitsForAnswer
<1>3. ASSUME NEW p \in System, NEW c \in left[p] PROVE WaitsForAnswer(t, c, p)
  <2>1. WaitsForAnswer(s, c, p)
    BY <1>3 DEF CallsOK
  <2>2. c # dest \/ p # src
    BY <1>3, Classes
  <2> QED
    BY <1>2, <2>1, <2>2
<1>4. ASSUME NEW p \in System, t.p_mess[p].m_source \notin {IDLE, p}, t.p_mess[p].body = REQ
      PROVE  WaitsForAnswer(t, t.p_mess[p].m_source, p)
  <2>1. p \in Slot
    BY Classes
  <2>2. ASSUME p = dest PROVE FALSE
    <3>1. t.p_mess[p] = cp_mess(src, body)
      BY <1>1, <2>1, <2>2
    <3>2. t.p_mess[p].body = body
      BY <3>1, Bodies
    <3> QED
      BY <1>4, <3>2
  <2>3. t.p_mess[p] = s.p_mess[p]
    BY <1>1, <2>1, <2>2
  <2>4. WaitsForAnswer(s, s.p_mess[p].m_source, p)
    BY <1>4, <2>3 DEF CallsOK
  <2>5. p # src
    BY <1>4, <2>3, Classes
  <2> QED
    BY <1>2, <2>3, <2>4, <2>5
<1>5. ASSUME NEW c \in Runner, NEW d \in Slot, Contains(t.p_callerq[d], c)
      PROVE  WaitsToAsk(t, c, d)
  <2>1. WaitsToAsk(s, c, d)
    BY <1>1, <1>5 DEF CallsOK
  <2>2. c \in Slot /\ d \in System
    BY <2>1, NoMutual DEF WaitsToAsk
  <2>3. c # dest
    BY <1>1, <2>1, <2>2, Classes DEF WaitsToAsk
  <2> QED
    BY <1>1, <2>1, <2>2, <2>3 DEF WaitsToAsk
<1>6. ASSUME NEW p \in Runner, RECEIVING \in t.p_flags[p]
      PROVE  t.p_getfrom[p] \in {ANY, HARDWARE} \/ MayAsk(p, t.p_getfrom[p])
  <2>1. p \in Slot
    BY DEF Runner
  <2>2. RECEIVING \in s.p_flags[p]
    BY <1>1, <1>6, <2>1
  <2> QED
    BY <1>1, <2>2 DEF CallsOK
<1> QED
  BY <1>3, <1>4, <1>5, <1>6 DEF CallsOK

\* A task or server takes a request out of its queue.
LEMMA TakeCalls ==
  ASSUME CallsDescend, NEW s, NEW due, CallsOK(s, due), NEW t, NEW caller \in Runner,
         s.p_flags[caller] = {}, NEW sender, Took(s, t, caller, sender)
  PROVE  CallsOK(t, due)
<1>1. /\ \A p \in Slot :
           /\ t.p_flags[p] = IF p = sender THEN s.p_flags[p] \ {SENDING} ELSE s.p_flags[p]
           /\ t.p_mess[p] = IF p = caller THEN cp_mess(sender, s.p_mess[sender].body)
                            ELSE s.p_mess[p]
      /\ \A d \in Slot : \A p \in Runner :
           Contains(t.p_callerq[d], p) => Contains(s.p_callerq[d], p) /\ p # sender
      /\ t.p_getfrom = s.p_getfrom
      /\ sender \in Runner /\ Contains(s.p_callerq[caller], sender) /\ caller \in Slot
  BY DEF Took, Runner
<1>2. WaitsToAsk(s, sender, caller)
  BY <1>1 DEF CallsOK
<1>3. sender \in Slot
  BY <1>1 DEF Runner
<1>4. WaitsForAnswer(t, sender, caller) /\ t.p_mess[caller] = cp_mess(sender, REQ)
  <2>1. /\ s.p_flags[sender] = {SENDING, RECEIVING} /\ s.p_getfrom[sender] = caller
        /\ MayAsk(sender, caller) /\ s.p_mess[sender] = cp_mess(sender, REQ)
    BY <1>2 DEF WaitsToAsk
  <2>2. t.p_flags[sender] = {SENDING, RECEIVING} \ {SENDING}
    BY <1>1, <1>3, <2>1
  <2>3. {SENDING, RECEIVING} \ {SENDING} = {RECEIVING}
    BY Classes
  <2>4. WaitsForAnswer(t, sender, caller)
    BY <1>1, <2>1, <2>2, <2>3 DEF WaitsForAnswer
  <2>5. s.p_mess[sender].body = REQ
    BY <2>1, Bodies
  <2>6. t.p_mess[caller] = cp_mess(sender, REQ)
    BY <1>1, <2>5
  <2> QED
    BY <2>4, <2>6
<1>5. ASSUME NEW c, NEW d \in System, WaitsForAnswer(s, c, d) PROVE WaitsForAnswer(t, c, d)
  <2>1. c \in Slot
    BY <1>5, NoMutual DEF WaitsForAnswer
  <2>2. c # sender
    BY <1>2, <1>5, Classes DEF WaitsForAnswer, WaitsToAsk
  <2> QED
    BY <1>1, <1>5, <2>1, <2>2 DEF WaitsForAnswer
<1>6. \A p \in System : \A c \in due[p] : WaitsForAnswer(t, c, p)
  BY <1>5 DEF CallsOK
<1>7. ASSUME NEW p \in System, t.p_mess[p].m_source \notin {IDLE, p}, t.p_mess[p].body = REQ
      PROVE  WaitsForAnswer(t, t.p_mess[p].m_source, p)
  <2>1. CASE p = caller
    BY <1>4, <2>1, Bodies
  <2>2. CASE p # caller
    <3>1. t.p_mess[p] = s.p_mess[p]
      BY <1>1, <2>2, Classes
    <3> QED
      BY <1>5, <1>7, <3>1 DEF CallsOK
  <2> QED
    BY <2>1, <2>2
<1>8. ASSUME NEW c \in Runner, NEW d \in Slot, Contains(t.p_callerq[d], c)
      PROVE  WaitsToAsk(t, c, d)
  <2>1. WaitsToAsk(s, c, d) /\ c # sender /\ c \in Slot
    BY <1>1, <1>8 DEF CallsOK, Runner
  <2>2. c # caller
    BY <2>1 DEF WaitsToAsk
  <2> QED
    BY <1>1, <2>1, <2>2 DEF WaitsToAsk
<1>9. ASSUME NEW p \in Runner, RECEIVING \in t.p_flags[p]
      PROVE  t.p_getfrom[p] \in {ANY, HARDWARE} \/ MayAsk(p, t.p_getfrom[p])
  <2>1. RECEIVING \in s.p_flags[p]
    BY <1>1, <1>9 DEF Runner
  <2> QED
    BY <1>1, <2>1 DEF CallsOK
<1> QED
  BY <1>6, <1>7, <1>8, <1>9 DEF CallsOK

\* A task or server waits for work, or for its device.
LEMMA WaitCalls ==
  ASSUME CallsDescend, NEW s, NEW due, CallsOK(s, due), NEW t, NEW caller \in Runner,
         s.p_flags[caller] = {}, NEW src \in {ANY, HARDWARE}, Waits(s, t, caller, src)
  PROVE  CallsOK(t, due)
<1>1. /\ \A p \in Slot :
           p # caller => t.p_flags[p] = s.p_flags[p] /\ t.p_getfrom[p] = s.p_getfrom[p]
      /\ t.p_mess = s.p_mess /\ t.p_callerq = s.p_callerq
      /\ caller \in Slot /\ t.p_getfrom[caller] = src
  BY DEF Waits, Runner
<1>2. ASSUME NEW c, NEW d, WaitsForAnswer(s, c, d) PROVE WaitsForAnswer(t, c, d)
  <2>1. c \in Slot /\ c # caller
    BY <1>2, NoMutual DEF WaitsForAnswer
  <2> QED
    BY <1>1, <1>2, <2>1 DEF WaitsForAnswer
<1>3. ASSUME NEW c, NEW d, WaitsToAsk(s, c, d) PROVE WaitsToAsk(t, c, d)
  <2>1. c \in Slot /\ c # caller
    BY <1>3, NoMutual DEF WaitsToAsk
  <2> QED
    BY <1>1, <1>3, <2>1 DEF WaitsToAsk
<1>4. \A p \in Runner : RECEIVING \in t.p_flags[p] =>
        t.p_getfrom[p] \in {ANY, HARDWARE} \/ MayAsk(p, t.p_getfrom[p])
  BY <1>1 DEF CallsOK, Runner
<1> QED
  BY <1>1, <1>2, <1>3, <1>4 DEF CallsOK

\* p has asked d: d has the request, or p is blocked in the queue of d.
Asked(s, t, p, d) ==
  /\ \A x \in Slot : t.p_getfrom[x] = IF x = p THEN d ELSE s.p_getfrom[x]
  /\ \A x \in Slot : x \notin {p, d} =>
       t.p_flags[x] = s.p_flags[x] /\ t.p_mess[x] = s.p_mess[x]
  /\ \/ /\ Awaits(s, d, p) /\ t.p_flags[p] = {RECEIVING} /\ t.p_mess[p] = s.p_mess[p]
        /\ t.p_flags[d] = s.p_flags[d] \ {RECEIVING} /\ t.p_mess[d] = cp_mess(p, REQ)
        /\ t.p_callerq = s.p_callerq
     \/ /\ t.p_flags[p] = {SENDING, RECEIVING} /\ t.p_mess[p] = cp_mess(p, REQ)
        /\ t.p_flags[d] = s.p_flags[d] /\ t.p_mess[d] = s.p_mess[d]
        /\ \A e \in Slot : \A x \in Runner :
             Contains(t.p_callerq[e], x) => Contains(s.p_callerq[e], x) \/ (e = d /\ x = p)

\* In a sendrec() the receive never finds a message: whom one asks does not ask back.
LEMMA AskEffect ==
  ASSUME CallsDescend, NEW s, KernelOK(s), NEW due, CallsOK(s, due), NEW p \in Runner,
         s.p_flags[p] = {}, NEW d, MayAsk(p, d), NEW addr_ok \in BOOLEAN,
         mini_send(s, p, d, REQ, addr_ok).n = "OK"
  PROVE  LET t == mini_rec(mini_send(s, p, d, REQ, addr_ok).k, p, d)
         IN  Asked(s, t, p, d) /\ IdleOnly(s, t)
<1> DEFINE m == mini_send(s, p, d, REQ, addr_ok).k
           t == mini_rec(m, p, d)
<1>1. /\ p \in Slot /\ p # HARDWARE /\ d \in Slot /\ d \in Runner /\ p # d /\ d # ANY
      /\ REQ \in Body /\ SENDING \notin s.p_flags[p]
  BY NoMutual, Classes, BodyAssumption DEF Runner
<1>2. KernelOK(m)
  BY <1>1, MiniSendOK
<1>3. Delivered(s, m, p, d, REQ) \/ Queued(s, m, p, d, REQ)
  BY <1>1, SendEffect
<1> HIDE DEF m
<1>4. ~ Contains(m.p_callerq[p], d)
  <2>1. ~ Contains(s.p_callerq[p], d)
    BY <1>1, NoMutual DEF CallsOK, WaitsToAsk
  <2>2. Contains(m.p_callerq[p], d) => Contains(s.p_callerq[p], d)
    BY <1>1, <1>3 DEF Delivered, Queued
  <2> QED
    BY <2>1, <2>2
<1>5. Waits(m, t, p, d)
  <2>1. \/ \E sender \in Runner :
             /\ d \in {ANY, sender}
             /\ Took(m, t, p, sender) /\ SamePending(m, t)
        \/ \E u : /\ KernelOK(u)
                  /\ Waits(m, u, p, d) /\ SamePending(m, u)
                  /\ t = IF m.sig_procs > 0 /\ p = MM_PROC_NR /\ d = ANY THEN inform(u) ELSE u
    BY <1>1, <1>2, ReceiveEffect
  <2> HIDE DEF t
  <2>2. \A sender : d \in {ANY, sender} /\ Took(m, t, p, sender) => FALSE
    BY <1>1, <1>4 DEF Took
  <2> QED
    BY <1>1, <2>1, <2>2
<1> HIDE DEF t
<1>6. /\ \A x \in Slot :
           /\ t.p_flags[x] = IF x = p THEN m.p_flags[x] \cup {RECEIVING} ELSE m.p_flags[x]
           /\ t.p_getfrom[x] = IF x = p THEN d ELSE m.p_getfrom[x]
      /\ t.p_mess = m.p_mess /\ t.p_callerq = m.p_callerq /\ IdleOnly(m, t)
  BY <1>5 DEF Waits
<1>7. CASE Delivered(s, m, p, d, REQ)
  <2>1. /\ \A x \in Slot :
             /\ m.p_flags[x] = IF x = d THEN s.p_flags[x] \ {RECEIVING} ELSE s.p_flags[x]
             /\ m.p_mess[x] = IF x = d THEN cp_mess(p, REQ) ELSE s.p_mess[x]
        /\ m.p_getfrom = s.p_getfrom /\ m.p_callerq = s.p_callerq /\ m.cur_proc = s.cur_proc
        /\ Awaits(s, d, p)
    BY <1>7 DEF Delivered
  <2>2. t.p_flags[p] = {RECEIVING} /\ t.p_mess[p] = s.p_mess[p]
    BY <1>1, <1>6, <2>1
  <2>3. t.p_flags[d] = s.p_flags[d] \ {RECEIVING} /\ t.p_mess[d] = cp_mess(p, REQ)
    BY <1>1, <1>6, <2>1
  <2>4. \A x \in Slot : t.p_getfrom[x] = IF x = p THEN d ELSE s.p_getfrom[x]
    BY <1>6, <2>1
  <2>5. \A x \in Slot : x \notin {p, d} =>
          t.p_flags[x] = s.p_flags[x] /\ t.p_mess[x] = s.p_mess[x]
    BY <1>6, <2>1
  <2>6. Asked(s, t, p, d)
    BY <1>6, <2>1, <2>2, <2>3, <2>4, <2>5 DEF Asked
  <2>7. IdleOnly(s, t)
    BY <1>6, <2>1 DEF IdleOnly
  <2> QED
    BY <2>6, <2>7 DEF t, m
<1>8. CASE Queued(s, m, p, d, REQ)
  <2>1. /\ \A x \in Slot :
             /\ m.p_flags[x] = IF x = p THEN s.p_flags[x] \cup {SENDING} ELSE s.p_flags[x]
             /\ m.p_mess[x] = IF x = p THEN cp_mess(p, REQ) ELSE s.p_mess[x]
        /\ m.p_getfrom = s.p_getfrom /\ IdleOnly(s, m)
    BY <1>8 DEF Queued
  <2>2. \A e \in Slot : \A x \in Runner :
          Contains(t.p_callerq[e], x) => Contains(s.p_callerq[e], x) \/ (e = d /\ x = p)
    BY <1>6, <1>8 DEF Queued
  <2>3. t.p_flags[p] = {SENDING, RECEIVING} /\ t.p_mess[p] = cp_mess(p, REQ)
    BY <1>1, <1>6, <2>1
  <2>4. t.p_flags[d] = s.p_flags[d] /\ t.p_mess[d] = s.p_mess[d]
    BY <1>1, <1>6, <2>1
  <2>5. \A x \in Slot : t.p_getfrom[x] = IF x = p THEN d ELSE s.p_getfrom[x]
    BY <1>6, <2>1
  <2>6. \A x \in Slot : x \notin {p, d} =>
          t.p_flags[x] = s.p_flags[x] /\ t.p_mess[x] = s.p_mess[x]
    BY <1>6, <2>1
  <2>7. Asked(s, t, p, d)
    BY <2>2, <2>3, <2>4, <2>5, <2>6 DEF Asked
  <2>8. IdleOnly(s, t)
    <3>1. \A x \in Runner : m.p_flags[x] # {} => t.p_flags[x] # {}
      BY <1>6 DEF Runner
    <3> QED
      BY <1>6, <2>1, <3>1 DEF IdleOnly
  <2> QED
    BY <2>7, <2>8 DEF t, m
<1> QED
  BY <1>3, <1>7, <1>8

\* Asking keeps CallsOK.
LEMMA AskCalls ==
  ASSUME CallsDescend, NEW s, NEW due, CallsOK(s, due), NEW p \in Runner,
         s.p_flags[p] = {}, NEW d, MayAsk(p, d), NEW t, Asked(s, t, p, d)
  PROVE  CallsOK(t, due)
<1>1. p \in Slot /\ d \in Slot /\ d \in System /\ p # d /\ ~ MayAsk(d, p) /\ d # ANY
  BY NoMutual, Classes
<1>2. ASSUME NEW c \in Slot, NEW e \in Slot, c # p, MayAsk(c, e), s.p_getfrom[c] = e
      PROVE  /\ t.p_flags[c] = s.p_flags[c] /\ t.p_mess[c] = s.p_mess[c]
             /\ t.p_getfrom[c] = e
  <2>1. t.p_getfrom[c] = e
    BY <1>2 DEF Asked
  <2>2. c = d => ~ Awaits(s, d, p)
    BY <1>1, <1>2, Classes DEF Awaits
  <2>3. CASE c # d
    <3>1. t.p_flags[c] = s.p_flags[c] /\ t.p_mess[c] = s.p_mess[c]
      BY <1>2, <2>3 DEF Asked
    <3> QED
      BY <2>1, <3>1
  <2>4. CASE c = d
    <3>1. t.p_flags[d] = s.p_flags[d] /\ t.p_mess[d] = s.p_mess[d]
      BY <2>2, <2>4 DEF Asked
    <3> QED
      BY <2>1, <2>4, <3>1
  <2> QED
    BY <2>3, <2>4
<1>3. ASSUME NEW c, NEW e, WaitsForAnswer(s, c, e) PROVE WaitsForAnswer(t, c, e)
  <2>1. c \in Slot /\ e \in Slot /\ c # p
    BY <1>3, NoMutual, Classes DEF WaitsForAnswer
  <2> QED
    BY <1>2, <1>3, <2>1 DEF WaitsForAnswer
<1>4. ASSUME NEW c, NEW e, WaitsToAsk(s, c, e) PROVE WaitsToAsk(t, c, e)
  <2>1. c \in Slot /\ e \in Slot /\ c # p
    BY <1>4, NoMutual, Classes DEF WaitsToAsk
  <2> QED
    BY <1>2, <1>4, <2>1 DEF WaitsToAsk
<1>5. \A x \in System : \A c \in due[x] : WaitsForAnswer(t, c, x)
  BY <1>3 DEF CallsOK
<1>6. ASSUME NEW x \in System, t.p_mess[x].m_source \notin {IDLE, x}, t.p_mess[x].body = REQ
      PROVE  WaitsForAnswer(t, t.p_mess[x].m_source, x)
  <2>1. x \in Slot
    BY Classes
  <2>2. CASE t.p_mess[x] = s.p_mess[x]
    BY <1>3, <1>6, <2>2 DEF CallsOK
  <2>3. CASE t.p_mess[x] # s.p_mess[x]
    <3>1. x # p
      BY <1>6, <2>3, Bodies DEF Asked
    <3>2. x = d /\ t.p_mess[d] = cp_mess(p, REQ) /\ t.p_flags[p] = {RECEIVING}
          /\ t.p_getfrom[p] = d
      BY <1>1, <2>1, <2>3, <3>1 DEF Asked
    <3>3. t.p_mess[x].m_source = p
      BY <3>2, Bodies
    <3> QED
      BY <3>2, <3>3 DEF WaitsForAnswer
  <2> QED
    BY <2>2, <2>3
<1>7. ASSUME NEW c \in Runner, NEW e \in Slot, Contains(t.p_callerq[e], c)
      PROVE  WaitsToAsk(t, c, e)
  <2>1. CASE Contains(s.p_callerq[e], c)
    BY <1>4, <2>1 DEF CallsOK
  <2>2. CASE ~ Contains(s.p_callerq[e], c)
    BY <1>1, <1>7, <2>2 DEF Asked, WaitsToAsk
  <2> QED
    BY <2>1, <2>2
<1>8. ASSUME NEW x \in Runner, RECEIVING \in t.p_flags[x]
      PROVE  t.p_getfrom[x] \in {ANY, HARDWARE} \/ MayAsk(x, t.p_getfrom[x])
  <2>1. x \in Slot
    BY DEF Runner
  <2>2. CASE x = p
    BY <2>1, <2>2 DEF Asked
  <2>3. CASE x # p
    <3>1. RECEIVING \in s.p_flags[x] /\ t.p_getfrom[x] = s.p_getfrom[x]
      BY <1>8, <2>1, <2>3 DEF Asked
    <3> QED
      BY <3>1 DEF CallsOK
  <2> QED
    BY <2>2, <2>3
<1> QED
  BY <1>5, <1>6, <1>7, <1>8 DEF CallsOK

\* A KSIG is no request.
LEMMA InformCalls ==
  ASSUME CallsDescend, NEW s, KernelOK(s), NEW due, CallsOK(s, due)
  PROVE  CallsOK(inform(s), due) /\ inform(s).cur_proc = s.cur_proc
<1> DEFINE t == inform(s)
           rp == LowestPending(s)
           body == ksig_mess(rp, s.p_pending[rp])
<1>1. SameCalls(s, t) \/ Delivered(s, t, HARDWARE, MM_PROC_NR, body)
  BY InformEffect
<1>2. body # REQ
  BY Bodies
<1> HIDE DEF t, body
<1>3. CASE SameCalls(s, t)
  <2>1. CallsOK(t, due) /\ t.cur_proc = s.cur_proc
    BY <1>3 DEF SameCalls, CallsOK, WaitsForAnswer, WaitsToAsk
  <2> QED
    BY <2>1 DEF t
<1>4. CASE Delivered(s, t, HARDWARE, MM_PROC_NR, body)
  <2>1. CallsOK(t, due)
    BY <1>2, <1>4, Classes, DeliverCalls
  <2>2. t.cur_proc = s.cur_proc
    BY <1>4 DEF Delivered
  <2> QED
    BY <2>1, <2>2 DEF t
<1> QED
  BY <1>1, <1>3, <1>4

\* After inform() only MM may be ready when nobody was.
LEMMA InformIdle ==
  ASSUME NEW s, KernelOK(s), NEW inside, IdleOK(s, inside)
  PROVE  IdleOK(inform(s), inside)
<1> DEFINE t == inform(s)
           rp == LowestPending(s)
           body == ksig_mess(rp, s.p_pending[rp])
<1>1. SameCalls(s, t) \/ Delivered(s, t, HARDWARE, MM_PROC_NR, body)
  BY InformEffect
<1> HIDE DEF t, body
<1>2. t.cur_proc = s.cur_proc /\ \A p \in Runner : p # MM_PROC_NR => t.p_flags[p] = s.p_flags[p]
  BY <1>1 DEF SameCalls, Delivered, Runner
<1>3. IdleOK(t, inside)
  BY <1>2 DEF IdleOK
<1> QED
  BY <1>3 DEF t

\* The running process leaves the CPU idle only when nobody is ready.
LEMMA IdleKept ==
  ASSUME NEW s, s.cur_proc # IDLE, NEW t, NEW inside, IdleOnly(s, t)
  PROVE  IdleOK(t, inside)
  BY DEF IdleOK, IdleOnly

\* receive() of the running task or server.
LEMMA ReceiveCalls ==
  ASSUME CallsDescend, NEW s, KernelOK(s), NEW due, CallsOK(s, due), NEW p \in Runner,
         s.cur_proc = p, s.p_flags[p] = {}, NEW src \in {ANY, HARDWARE}, NEW inside
  PROVE  CallsOK(mini_rec(s, p, src), due) /\ IdleOK(mini_rec(s, p, src), inside)
<1> DEFINE t == mini_rec(s, p, src)
<1>1. s.cur_proc # IDLE /\ src \in Slot \cup {ANY}
  BY Slots
<1>2. \/ \E sender \in Runner :
           /\ src \in {ANY, sender}
           /\ Took(s, t, p, sender) /\ SamePending(s, t)
      \/ \E m : /\ KernelOK(m)
                /\ Waits(s, m, p, src) /\ SamePending(s, m)
                /\ t = IF s.sig_procs > 0 /\ p = MM_PROC_NR /\ src = ANY
                       THEN inform(m) ELSE m
  BY <1>1, ReceiveEffect
<1> HIDE DEF t
<1>3. ASSUME NEW sender, Took(s, t, p, sender) PROVE CallsOK(t, due) /\ IdleOK(t, inside)
  <2>1. CallsOK(t, due)
    BY <1>3, TakeCalls
  <2>2. IdleOK(t, inside)
    BY <1>1, <1>3 DEF Took, IdleOK
  <2> QED
    BY <2>1, <2>2
<1>4. ASSUME NEW m, KernelOK(m), Waits(s, m, p, src), t \in {m, inform(m)}
      PROVE  CallsOK(t, due) /\ IdleOK(t, inside)
  <2>1. CallsOK(m, due)
    BY <1>4, WaitCalls
  <2>2. IdleOK(m, inside)
    BY <1>1, <1>4, IdleKept DEF Waits
  <2>3. CallsOK(inform(m), due) /\ IdleOK(inform(m), inside)
    BY <1>4, <2>1, <2>2, InformCalls, InformIdle
  <2> QED
    BY <1>4, <2>1, <2>2, <2>3
<1> QED
  BY <1>2, <1>3, <1>4 DEF t

\* Steps that touch no message keep CallsOK.
LEMMA QuietCalls ==
  ASSUME NEW s, NEW due, CallsOK(s, due), NEW t, SameTable(s, t)
  PROVE  CallsOK(t, due)
  BY DEF SameTable, CallsOK, WaitsForAnswer, WaitsToAsk

\* The running process c calls d; sys_call() refuses, or c has asked.
LEMMA SendRecCalls ==
  ASSUME CallsDescend, IInv, CallsOK(k, owed), NEW c \in Runner, k.cur_proc = c,
         NEW d, MayAsk(c, d), NEW addr_ok \in BOOLEAN,
         mini_send(k, c, d, REQ, addr_ok).n = "OK", NEW inside
  PROVE  LET t == mini_rec(mini_send(k, c, d, REQ, addr_ok).k, c, d)
         IN  CallsOK(t, owed) /\ IdleOK(t, inside)
<1> DEFINE t == mini_rec(mini_send(k, c, d, REQ, addr_ok).k, c, d)
<1>1. KernelOK(k) /\ k.p_flags[c] = {} /\ k.cur_proc # IDLE
  BY RunningUnblocked, Slots DEF IInv
<1>2. Asked(k, t, c, d) /\ IdleOnly(k, t)
  BY <1>1, AskEffect
<1> HIDE DEF t
<1>3. CallsOK(t, owed) /\ IdleOK(t, inside)
  BY <1>1, <1>2, AskCalls, IdleKept
<1> QED
  BY <1>3 DEF t

\* An answer finds its caller waiting.
LEMMA ReplyCalls ==
  ASSUME CallsDescend, IInv, CallsOK(k, owed), NEW s \in System, k.cur_proc = s,
         ~ HasMessage(s), NEW c \in owed[s]
  PROVE  LET t == mini_send(k, s, c, REP, TRUE).k
         IN  CallsOK(t, [owed EXCEPT ![s] = @ \ {c}]) /\ t.cur_proc = s
<1> DEFINE sent == mini_send(k, s, c, REP, TRUE)
           t == sent.k
           left == [owed EXCEPT ![s] = @ \ {c}]
<1>1. /\ s \in Runner /\ s \in Slot /\ s # HARDWARE /\ REP \in Body /\ s < LOW_USER
      /\ KernelOK(k) /\ k.p_flags[s] = {}
  BY RunningUnblocked, Slots, Classes, BodyAssumption, NrTasksAssumption
  DEF IInv, System, Task, Server, LOW_USER, MM_PROC_NR, FS_PROC_NR
<1>2. k.p_flags[c] = {RECEIVING} /\ k.p_getfrom[c] = s /\ c \in Slot
  BY NoMutual DEF CallsOK, WaitsForAnswer
<1>3. Awaits(k, c, s) /\ SENDING \notin k.p_flags[c] /\ P_SLOT_FREE \notin k.p_flags[c]
  BY <1>2, Classes DEF Awaits
<1>4. /\ P_SLOT_FREE \notin k.p_flags[c] /\ Awaits(k, c, s) /\ s < LOW_USER => sent.n = "OK"
      /\ sent.n = "OK" => Delivered(k, t, s, c, REP) \/ Queued(k, t, s, c, REP)
  <2>1. /\ KernelOK(k) /\ s \in Slot /\ c \in Slot /\ REP \in Body
        /\ SENDING \notin k.p_flags[s] /\ s < LOW_USER
    BY <1>1, <1>2
  <2> QED
    BY <2>1, SendAnswers
<1> HIDE DEF sent, t
<1>5. Delivered(k, t, s, c, REP) \/ Queued(k, t, s, c, REP)
  BY <1>1, <1>3, <1>4
<1>6. Delivered(k, t, s, c, REP)
  BY <1>3, <1>5 DEF Queued
<1>7. (\A p \in System : left[p] \subseteq owed[p]) /\ c \notin left[s]
  BY DEF IInv, TypeOK
<1> HIDE DEF left
<1>10. k.p_mess[s].m_source \in {IDLE, s}
  BY DEF HasMessage
<1>8. CallsOK(t, left)
  BY <1>1, <1>2, <1>3, <1>6, <1>7, <1>10, Bodies, DeliverCalls
<1>9. t.cur_proc = s
  BY <1>6 DEF Delivered
<1> QED
  BY <1>8, <1>9 DEF t, sent, left

\* A message of interrupt() is no request.
LEMMA InterruptCalls ==
  ASSUME CallsDescend, IInv, CallsOK(k, owed), IdleOK(k, TRUE) \/ IdleOK(k, FALSE),
         NEW task \in Drivers \cup {CLOCK}
  PROVE  LET t == mini_send(k, HARDWARE, task, INT, TRUE).k
         IN  CallsOK(t, owed) /\ IdleOK(t, TRUE)
<1> DEFINE sent == mini_send(k, HARDWARE, task, INT, TRUE)
           t == sent.k
<1>1. /\ KernelOK(k) /\ task \in Slot /\ task \in Task /\ INT \in Body
      /\ IdleOK(k, TRUE)
  BY Slots, BodyAssumption, DriversAssumption, NrTasksAssumption DEF IInv, IdleOK, Task, CLOCK
<1>2. t = k \/ Delivered(k, t, HARDWARE, task, INT)
  <2>1. /\ sent.n # "OK" => sent.k = k
        /\ sent.n = "OK" => \/ Delivered(k, sent.k, HARDWARE, task, INT)
                            \/ HARDWARE # HARDWARE /\ Queued(k, sent.k, HARDWARE, task, INT)
    BY <1>1, Classes, SendEffect
  <2> HIDE DEF sent
  <2> QED
    BY <2>1
<1> HIDE DEF t
<1>3. CASE t = k
  BY <1>1, <1>3 DEF t
<1>4. CASE Delivered(k, t, HARDWARE, task, INT)
  <2>1. CallsOK(t, owed)
    BY <1>1, <1>4, Bodies, Classes, DeliverCalls
  <2>2. t.cur_proc = k.cur_proc /\ \A p \in Runner : p # task => t.p_flags[p] = k.p_flags[p]
    BY <1>4 DEF Delivered, Runner
  <2>3. IdleOK(t, TRUE)
    BY <1>1, <2>2 DEF IdleOK
  <2> QED
    BY <2>1, <2>3 DEF t
<1> QED
  BY <1>2, <1>3, <1>4

\* Nobody is ready when pick_proc() finds nobody.
LEMMA NobodyReady ==
  ASSUME NEW s, ReadyListsExact(s), NEW t, SameTable(s, t), NEW inside,
         t.cur_proc = IDLE => \A p \in Runner : ~ IsReady(s, p)
  PROVE  IdleOK(t, inside)
  BY DEF ReadyListsExact, SameTable, IdleOK

\* Every step keeps CallsOK and IdleOK.
LEMMA NextCalls ==
  ASSUME CallsDescend, Pushes = {}, IInv, CallsOK(k, owed), IdleOK(k, InKernel), Next
  PROVE  CallsOK(k', owed') /\ IdleOK(k', InKernel')
<1>0. /\ KernelOK(k) /\ k \in KState /\ ReadyListsExact(k) /\ ReadyListsSorted(k)
      /\ CurrentIsHead(k) /\ TypeOK /\ InKernel \in BOOLEAN
      /\ \A p \in Runner : k.cur_proc = p => k.p_flags[p] = {} /\ k.cur_proc # IDLE
  BY RunningUnblocked, Slots DEF IInv, KernelOK, ReadyOK, ReadyListsExact, InKernel
<1>1. ASSUME NEW task \in Drivers \cup {CLOCK}
      PROVE  LET t == mini_send(k, HARDWARE, task, INT, TRUE).k
             IN  CallsOK(t, owed) /\ IdleOK(t, TRUE)
  BY <1>0, InterruptCalls
<1>2. ASSUME NEW task \in Drivers \cup {CLOCK}, interrupt(task)
      PROVE  CallsOK(k', owed') /\ IdleOK(k', InKernel')
  <2>1. k' = mini_send(k, HARDWARE, task, INT, TRUE).k /\ owed' = owed
    BY <1>2 DEF interrupt
  <2>2. scan' \subseteq Drivers
    BY <1>0, <1>2 DEF interrupt, TypeOK
  <2>3. InKernel'
    BY <2>2, Slots DEF InKernel, NotScanning
  <2> QED
    BY <1>1, <2>1, <2>3
<1>3. ASSUME interrupt_retry PROVE CallsOK(k', owed') /\ IdleOK(k', InKernel')
  <2>1. PICK task \in Drivers :
          /\ k' = mini_send(k, HARDWARE, task, INT, TRUE).k /\ owed' = owed
          /\ scan' = scan \ {task} /\ InKernel
    BY <1>3 DEF interrupt_retry
  <2>2. scan' \subseteq Drivers
    BY <1>0, <2>1 DEF TypeOK, InKernel
  <2>3. InKernel'
    BY <2>2, Slots DEF InKernel, NotScanning
  <2> QED
    BY <1>1, <2>1, <2>3
<1>4. ASSUME interrupt_end PROVE CallsOK(k', owed') /\ IdleOK(k', InKernel')
  <2>1. owed' = owed /\ ~ InKernel'
    BY <1>4 DEF interrupt_end, InKernel
  <2>2. SameTable(k, pick_proc(k)) /\ pick_proc(k).rdy = k.rdy
        /\ (pick_proc(k).cur_proc = IDLE => \A p \in Runner : ~ IsReady(pick_proc(k), p))
    BY <1>0, PickProc
  <2>3. CASE k' = pick_proc(k)
    <3>1. CallsOK(pick_proc(k), owed)
      BY <2>2, QuietCalls
    <3>2. pick_proc(k).cur_proc = IDLE => \A p \in Runner : ~ IsReady(k, p)
      BY <2>2 DEF IsReady
    <3>3. IdleOK(pick_proc(k), InKernel')
      BY <1>0, <2>2, <3>2, NobodyReady
    <3> QED
      BY <2>1, <2>3, <3>1, <3>3
  <2>4. CASE k' = k /\ (k.cur_proc = IDLE => k.rdy[TASK_Q] = <<>>)
    <3>1. ASSUME k.cur_proc = IDLE, NEW p \in Task PROVE k.p_flags[p] # {}
      <4>1. p \in Runner /\ queue(p) = TASK_Q
        BY Slots DEF Task, queue
      <4>2. ~ IsReady(k, p)
        BY <2>4, <3>1, <4>1 DEF IsReady, Contains
      <4> QED
        BY <1>0, <4>1, <4>2 DEF ReadyListsExact
    <3>2. IdleOK(k, InKernel')
      BY <2>1, <3>1 DEF IdleOK
    <3> QED
      BY <2>1, <2>4, <3>2
  <2> QED
    BY <1>4, <2>3, <2>4 DEF interrupt_end
<1>5. CASE EndQuantum
  <2>1. k' = sched(k) /\ owed' = owed /\ k.cur_proc = CLOCK
    BY <1>5 DEF EndQuantum, MayCall, Running
  <2>2. SameTable(k, sched(k)) /\ NoneLeft(k, sched(k))
        /\ \A p \in Runner : IsReady(sched(k), p) <=> IsReady(k, p)
    BY <1>0, Sched
  <2>3. sched(k).cur_proc = IDLE => \A p \in Runner : ~ IsReady(k, p)
    BY <1>0, <2>1, <2>2, Slots DEF NoneLeft
  <2>4. CallsOK(sched(k), owed)
    BY <2>2, QuietCalls
  <2>5. IdleOK(sched(k), InKernel')
    BY <1>0, <2>2, <2>3, NobodyReady
  <2> QED
    BY <2>1, <2>4, <2>5
<1>6. ASSUME NEW p \in Runner, Consume(p) PROVE CallsOK(k', owed') /\ IdleOK(k', InKernel')
  <2>1. k.cur_proc = p /\ k.p_flags[p] = {} /\ k.cur_proc # IDLE /\ p \in Slot /\ HasMessage(p)
    BY <1>0, <1>6, Slots DEF Consume, Running
  <2>2. /\ k'.p_flags = k.p_flags /\ k'.p_getfrom = k.p_getfrom /\ k'.cur_proc = k.cur_proc
        /\ k'.p_callerq = k.p_callerq
        /\ \A x \in Slot : k'.p_mess[x] = IF x = p THEN NilMess ELSE k.p_mess[x]
    BY <1>0, <1>6 DEF Consume, KState
  <2>3. NilMess.m_source = IDLE
    BY DEF NilMess
  <2>4. \A c, d : WaitsForAnswer(k, c, d) => WaitsForAnswer(k', c, d)
    BY <2>2 DEF WaitsForAnswer
  <2>5. ASSUME NEW x \in System, NEW c \in owed'[x] PROVE WaitsForAnswer(k', c, x)
    <3>1. CASE c \in owed[x]
      BY <2>4, <3>1 DEF CallsOK
    <3>2. CASE c \notin owed[x]
      <4>1. x = p /\ k.p_mess[p].body = REQ /\ c = k.p_mess[p].m_source
        BY <1>0, <1>6, <2>5, <3>2 DEF Consume, TypeOK
      <4> QED
        BY <2>1, <2>4, <4>1 DEF CallsOK, HasMessage
    <3> QED
      BY <3>1, <3>2
  <2>6. ASSUME NEW x \in System, k'.p_mess[x].m_source \notin {IDLE, x}, k'.p_mess[x].body = REQ
        PROVE  WaitsForAnswer(k', k'.p_mess[x].m_source, x)
    <3>1. k'.p_mess[x] = k.p_mess[x]
      BY <2>2, <2>3, <2>6, Classes
    <3> QED
      BY <2>4, <2>6, <3>1 DEF CallsOK
  <2>7. ASSUME NEW c \in Runner, NEW d \in Slot, Contains(k'.p_callerq[d], c)
        PROVE  WaitsToAsk(k', c, d)
    <3>1. WaitsToAsk(k, c, d)
      BY <2>2, <2>7 DEF CallsOK
    <3>2. c # p /\ c \in Slot
      BY <2>1, <3>1, Slots DEF WaitsToAsk
    <3> QED
      BY <2>2, <3>1, <3>2 DEF WaitsToAsk
  <2>8. \A x \in Runner : RECEIVING \in k'.p_flags[x] =>
          k'.p_getfrom[x] \in {ANY, HARDWARE} \/ MayAsk(x, k'.p_getfrom[x])
    BY <2>2 DEF CallsOK
  <2>9. CallsOK(k', owed')
    BY <2>5, <2>6, <2>7, <2>8 DEF CallsOK
  <2> QED
    BY <2>1, <2>2, <2>9 DEF IdleOK
<1>7. ASSUME NEW u \in User, NEW function, NEW dest, NEW addr_ok \in BOOLEAN,
             UserCall(u, function, dest, addr_ok)
      PROVE  CallsOK(k', owed') /\ IdleOK(k', InKernel')
  <2> DEFINE sent == mini_send(k, u, dest, REQ, addr_ok)
             called == sys_call(k, function, u, dest, REQ, addr_ok)
  <2>1. /\ k.cur_proc = u /\ u \in Runner /\ k.p_flags[u] = {} /\ k.cur_proc # IDLE /\ REQ \in Body
        /\ SENDING \notin k.p_flags[u]
    BY <1>0, <1>7, Slots, BodyAssumption DEF UserCall, MayCall, Running
  <2>2. \/ called.n # "OK" /\ called.k = k
        \/ called.n = "OK" /\ sent.n = "OK" /\ dest \in Server /\ called.k = mini_rec(sent.k, u, dest)
    BY <1>0, <2>1, UserCallEffect
  <2>3. k' = called.k /\ owed' = owed
    BY <1>7 DEF UserCall
  <2> HIDE DEF called
  <2>4. CASE called.k = k
    BY <2>1, <2>3, <2>4 DEF IdleOK
  <2>5. CASE sent.n = "OK" /\ dest \in Server /\ called.k = mini_rec(sent.k, u, dest)
    <3>1. MayAsk(u, dest)
      BY <2>5 DEF MayAsk
    <3>2. CallsOK(mini_rec(sent.k, u, dest), owed) /\ IdleOK(mini_rec(sent.k, u, dest), InKernel')
      BY <2>1, <2>5, <3>1, SendRecCalls
    <3> QED
      BY <2>3, <2>5, <3>2
  <2> QED
    BY <2>2, <2>4, <2>5
<1>8. ASSUME NEW p \in System, NEW src \in {ANY, HARDWARE}, MayCall(p), owed' = owed,
             k' = sys_call(k, {"RECEIVE"}, p, src, REQ, TRUE).k
      PROVE  CallsOK(k', owed') /\ IdleOK(k', InKernel')
  <2>1. p \in Runner /\ k.cur_proc = p /\ k.p_flags[p] = {} /\ src \in Slot \cup {ANY}
    BY <1>0, <1>8, Slots DEF MayCall, Running
  <2>2. k' = mini_rec(k, p, src)
    BY <1>8, <2>1, ReceiveCall
  <2>3. CallsOK(mini_rec(k, p, src), owed) /\ IdleOK(mini_rec(k, p, src), InKernel')
    BY <1>0, <2>1, ReceiveCalls
  <2> QED
    BY <1>8, <2>2, <2>3
<1>9. ASSUME NEW s \in System, Receive(s) PROVE CallsOK(k', owed') /\ IdleOK(k', InKernel')
  BY <1>8, <1>9 DEF Receive
<1>10. ASSUME NEW t \in Drivers, ReceiveInterrupt(t)
       PROVE  CallsOK(k', owed') /\ IdleOK(k', InKernel')
  <2>1. t \in System
    BY DriversAssumption DEF System
  <2> QED
    BY <1>8, <1>10, <2>1 DEF ReceiveInterrupt
<1>11. ASSUME NEW p \in System, NEW d \in System, <<p, d>> \in Calls, Call(p, d)
       PROVE  CallsOK(k', owed') /\ IdleOK(k', InKernel')
  <2> DEFINE sent == mini_send(k, p, d, REQ, TRUE)
             both == sys_call(k, {"SEND", "RECEIVE"}, p, d, REQ, TRUE)
  <2>1. MayAsk(p, d)
    BY <1>11 DEF MayAsk
  <2>2. p \in Runner /\ k.cur_proc = p /\ k.cur_proc # IDLE /\ d \in Slot
    BY <1>0, <1>11, Slots DEF Call, MayCall, Running
  <2>3. owed' = owed /\ k' = both.k
    BY <1>11 DEF Call
  <2>4. /\ sent.n = "OK" => both.k = mini_rec(sent.k, p, d)
        /\ sent.n # "OK" => both.k = k
    <3>1. d \in Slot
      BY <2>2
    <3>2. \A s : LET sent2 == mini_send(s, p, d, REQ, TRUE)
                     called == sys_call(s, {"SEND", "RECEIVE"}, p, d, REQ, TRUE)
                 IN  /\ sent2.n = "OK" => called.k = mini_rec(sent2.k, p, d)
                     /\ sent2.n # "OK" => called.k = s
      BY <3>1, BothCall
    <3> QED
      BY <3>2
  <2>5. CASE sent.n = "OK"
    <3>1. CallsOK(mini_rec(sent.k, p, d), owed) /\ IdleOK(mini_rec(sent.k, p, d), InKernel')
      BY <2>1, <2>2, <2>5, SendRecCalls
    <3> HIDE DEF sent, both
    <3> QED
      BY <2>3, <2>4, <2>5, <3>1
  <2>6. CASE sent.n # "OK"
    <3> HIDE DEF sent, both
    <3> QED
      BY <2>2, <2>3, <2>4, <2>6 DEF IdleOK
  <2> QED
    BY <2>5, <2>6
<1>16. ASSUME NEW c \in Calls, Call(c[1], c[2])
       PROVE  CallsOK(k', owed') /\ IdleOK(k', InKernel')
  <2>1. c[1] \in System /\ c[2] \in System /\ <<c[1], c[2]>> \in Calls
    BY CallsAssumption
  <2> QED
    BY <1>11, <1>16, <2>1
<1>12. ASSUME NEW s \in System, NEW c \in Runner, Reply(s, c)
       PROVE  CallsOK(k', owed') /\ IdleOK(k', InKernel')
  <2> DEFINE sent == mini_send(k, s, c, REP, TRUE)
             left == [owed EXCEPT ![s] = @ \ {c}]
  <2>1. /\ k.cur_proc = s /\ ~ HasMessage(s) /\ c \in owed[s] /\ s \in Runner
        /\ k.p_flags[s] = {} /\ c \in Slot /\ k.cur_proc # IDLE
        /\ owed' = left /\ k' = sys_call(k, {"SEND"}, s, c, REP, TRUE).k
    BY <1>0, <1>12, Slots DEF Reply, MayCall, Running
  <2>2. CallsOK(sent.k, left) /\ sent.k.cur_proc = s
    <3>1. k.cur_proc = s /\ ~ HasMessage(s) /\ c \in owed[s]
      BY <2>1
    <3> QED
      BY <3>1, ReplyCalls, ZenonT(30)
  <2>3. sent.n # "OK" => sent.k = k
    <3>1. SENDING \notin k.p_flags[s] /\ REP \in Body /\ s \in Slot /\ c \in Slot /\ KernelOK(k)
      BY <1>0, <2>1, Classes, BodyAssumption
    <3> QED
      BY <3>1, SendRefused
  <2>4. k' = sent.k
    <3>1. mini_send(k, s, c, REP, TRUE).n # "OK" => mini_send(k, s, c, REP, TRUE).k = k
      BY <2>3
    <3> HIDE DEF sent
    <3>2. \A t : t = sys_call(k, {"SEND"}, s, c, REP, TRUE).k
                 => t = mini_send(k, s, c, REP, TRUE).k
      BY <2>1, <3>1, SendCall
    <3> QED
      BY <2>1, <3>2 DEF sent
  <2>5. IdleOK(sent.k, InKernel')
    BY <2>1, <2>2 DEF IdleOK
  <2> HIDE DEF sent, left
  <2> QED
    BY <2>1, <2>2, <2>4, <2>5
<1>13. ASSUME NEW t \in Drivers \cup {CLOCK}, NEW rp \in User, NEW sig \in Signals,
              CauseSig(t, rp, sig)
       PROVE  CallsOK(k', owed') /\ IdleOK(k', InKernel')
  <2> DEFINE sp == IF k.p_pending[rp] = {} THEN k.sig_procs + 1 ELSE k.sig_procs
             pp == [k.p_pending EXCEPT ![rp] = @ \cup {sig}]
             m  == [k EXCEPT !.sig_procs = sp, !.p_pending = pp]
  <2>1. k' = inform(m) /\ owed' = owed
    BY <1>13 DEF CauseSig, cause_sig
  <2>2. k.cur_proc = t /\ k.cur_proc # IDLE
    BY <1>0, <1>13, Slots DEF CauseSig, MayCall, Running
  <2>3. sp \in Int /\ pp \in [Slot -> SUBSET Signals]
    <3>1. k.p_pending \in [Slot -> SUBSET Signals] /\ k.sig_procs \in Int /\ rp \in Slot
      BY <1>0, Classes DEF KState
    <3> QED
      BY <3>1
  <2> HIDE DEF sp, pp
  <2>4. KernelOK(m)
    BY <1>0, <2>3, PendingIrrelevant
  <2>5. SameCalls(k, m)
    BY <1>0 DEF KState, SameCalls
  <2> HIDE DEF m
  <2>6. CallsOK(m, owed)
    BY <2>5 DEF CallsOK, SameCalls, WaitsForAnswer, WaitsToAsk
  <2>7. CallsOK(inform(m), owed) /\ inform(m).cur_proc = m.cur_proc
    BY <2>4, <2>6, InformCalls
  <2>8. k'.cur_proc # IDLE
    BY <2>1, <2>2, <2>5, <2>7 DEF SameCalls
  <2> QED
    BY <2>1, <2>7, <2>8 DEF IdleOK
<1> QED
  BY <1>2, <1>3, <1>4, <1>5, <1>6, <1>7, <1>9, <1>10, <1>16, <1>12, <1>13 DEF Next, UserAny

\* main() starts with nobody asking and somebody running.
LEMMA InitCalls == Init => CallsOK(k, owed) /\ IdleOK(k, InKernel)
<1> SUFFICES ASSUME Init PROVE CallsOK(k, owed) /\ IdleOK(k, InKernel)
  OBVIOUS
<1>1. /\ \A p \in Slot : /\ k.p_flags[p] \in {{}, {P_SLOT_FREE}} /\ k.p_mess[p] = NilMess
                         /\ k.p_callerq[p] = <<>>
      /\ k.cur_proc # IDLE
  BY BootEffect, UsersAssumption DEF Init
<1>2. /\ NilMess.m_source = IDLE /\ \A p : ~ Contains(<<>>, p)
      /\ \A p \in System : owed[p] = {} /\ p \in Slot
      /\ \A p \in Runner : p \in Slot
      /\ RECEIVING # P_SLOT_FREE
  BY Classes DEF NilMess, Contains, Init, Runner
<1> QED
  BY <1>1, <1>2 DEF CallsOK, IdleOK

\* The four promises of CallsGoOn, from the three invariants.
LEMMA CallsImplyGoOn ==
  ASSUME CallsDescend, IInv, CallsOK(k, owed), IdleOK(k, InKernel)
  PROVE  CallsGoOn
<1>0. KernelOK(k) /\ k \in KState /\ ReadyListsExact(k) /\ ReadyListsSorted(k) /\ CurrentIsHead(k)
  BY DEF IInv, KernelOK, ReadyOK, ReadyListsExact
<1>1. RequestIntact
  <2> SUFFICES ASSUME NEW d \in Slot, NEW p \in Range(k.p_callerq[d])
               PROVE  k.p_mess[p].m_source = p
    BY DEF RequestIntact
  <2> DEFINE l == k.p_callerq[d]
  <2>1. l \in Seq(Runner)
    BY <1>0 DEF KState
  <2>2. PICK i \in 1 .. Len(l) : p = l[i]
    BY <2>1 DEF Range
  <2>3. p \in Runner /\ Contains(l, p)
    BY <2>1, <2>2, ElementOfSeq DEF Contains
  <2>4. k.p_mess[p] = cp_mess(p, REQ)
    BY <2>3 DEF CallsOK, WaitsToAsk
  <2> QED
    BY <2>4, Bodies
<1>2. ReplyNeverBlocks
  BY Classes DEF CallsOK, WaitsForAnswer, ReplyNeverBlocks, Awaits
<1>3. ASSUME NEW p \in Runner, NEW d \in Runner, WaitsFor(p, d) PROVE MayAsk(p, d)
  <2>1. d \in Slot /\ d # ANY /\ d # HARDWARE
    BY Classes DEF Runner
  <2>2. CASE Contains(k.p_callerq[d], p)
    BY <2>1, <2>2 DEF CallsOK, WaitsToAsk
  <2>3. CASE RECEIVING \in k.p_flags[p] /\ k.p_getfrom[p] = d
    BY <2>1, <2>3 DEF CallsOK
  <2> QED
    BY <1>3, <2>2, <2>3 DEF WaitsFor
<1>4. NoCircularWait
  <2> SUFFICES ASSUME NEW S \in SUBSET Runner, S # {}
               PROVE  \E p \in S : \A d \in S : ~ WaitsFor(p, d)
    BY DEF NoCircularWait
  <2> DEFINE T == S \cap System
  <2>1. CASE T = {}
    <3>1. PICK p \in S : TRUE
      OBVIOUS
    <3>2. \A d \in S : ~ WaitsFor(p, d)
      BY <1>3, <2>1, NoMutual
    <3> QED
      BY <3>2
  <2>2. CASE T # {}
    <3>1. PICK p \in T : \A d \in T : <<p, d>> \notin Calls
      BY <2>2 DEF CallsDescend
    <3>2. ASSUME NEW d \in S, WaitsFor(p, d) PROVE FALSE
      <4>1. MayAsk(p, d)
        BY <1>3, <3>2
      <4>2. d \in System /\ p \notin User
        BY <4>1, NoMutual, Classes
      <4>3. <<p, d>> \in Calls
        BY <4>1, <4>2 DEF MayAsk
      <4> QED
        BY <3>1, <4>2, <4>3
    <3> QED
      BY <3>2
  <2> QED
    BY <2>1, <2>2
<1>5. RunningIsHead
  <2>1. ASSUME k.cur_proc = IDLE, ~ InKernel, NEW q \in Queue, NEW p, Contains(k.rdy[q], p)
        PROVE  p = MM_PROC_NR /\ q = SERVER_Q
    <3>1. p \in Runner
      <4> DEFINE l == k.rdy[q]
      <4>1. l \in Seq(Runner)
        BY <1>0 DEF KState
      <4> HIDE DEF l
      <4>2. Contains(l, p)
        BY <2>1 DEF l
      <4> QED
        BY <4>1, <4>2, ElementOfSeq DEF Contains
    <3>2. queue(p) = q
      BY <1>0, <2>1, <3>1 DEF ReadyListsSorted
    <3>3. k.p_flags[p] = {}
      BY <1>0, <2>1, <3>1, <3>2 DEF ReadyListsExact, IsReady
    <3>4. p = MM_PROC_NR
      BY <2>1, <3>1, <3>3 DEF IdleOK
    <3>5. queue(MM_PROC_NR) = SERVER_Q
      BY DEF queue, MM_PROC_NR, LOW_USER
    <3> QED
      BY <3>2, <3>4, <3>5
  <2>2. ASSUME k.cur_proc = IDLE, ~ InKernel, NEW q \in Queue, q # SERVER_Q
        PROVE  k.rdy[q] = <<>>
    <3> DEFINE l == k.rdy[q]
    <3>1. l \in Seq(Runner)
      BY <1>0 DEF KState
    <3>2. ASSUME l # <<>> PROVE FALSE
      <4>1. Contains(l, Head(l))
        BY <3>1, <3>2, TailList
      <4> QED
        BY <2>1, <2>2, <4>1
    <3> QED
      BY <3>2
  <2>3. ASSUME k.cur_proc = IDLE, ~ InKernel
        PROVE  k.rdy[SERVER_Q] \in {<<>>, <<MM_PROC_NR>>}
    <3> DEFINE l == k.rdy[SERVER_Q]
    <3>0. SERVER_Q \in Queue
      BY DEF Queue
    <3>1. l \in Seq(Runner) /\ IsInjective(l)
      BY <1>0, <3>0 DEF KState, ReadyListsSorted
    <3>2. \A p : Contains(l, p) => p = MM_PROC_NR
      BY <2>1, <2>3, <3>0
    <3> HIDE DEF l
    <3>3. \A i, j \in 1 .. Len(l) : i = j
      BY <3>1, <3>2 DEF Contains, IsInjective
    <3>4. CASE l = <<>>
      BY <3>4 DEF l
    <3>5. CASE l # <<>>
      <4>1. Len(l) \in Nat /\ Len(l) # 0
        BY <3>1, <3>5, EmptySeq
      <4>2. 1 \in 1 .. Len(l) /\ Len(l) \in 1 .. Len(l)
        BY <4>1
      <4>3. Len(l) = 1
        BY <3>3, <4>2
      <4>4. l[1] = MM_PROC_NR
        BY <3>2, <4>2 DEF Contains
      <4>5. l = <<MM_PROC_NR>>
        BY <3>1, <4>3, <4>4
      <4> QED
        BY <4>5 DEF l
    <3> QED
      BY <3>4, <3>5
  <2>4. TASK_Q \in Queue /\ USER_Q \in Queue /\ TASK_Q # SERVER_Q /\ USER_Q # SERVER_Q
    BY DEF Queue, TASK_Q, USER_Q, SERVER_Q
  <2> QED
    BY <1>0, <2>2, <2>3, <2>4 DEF RunningIsHead
<1> QED
  BY <1>1, <1>2, <1>4, <1>5 DEF CallsGoOn

\* If the calls of tasks and servers go one way and nothing is sent unasked, sendrec()
\* never leaves anybody behind: mini_send() finds the caller waiting when its answer is
\* sent, whatever interrupts and signals come between; a queued request stays what it was;
\* and no group of processes is blocked on itself.  A push breaks it: see KsigWaitsForMM.
THEOREM CallsInvariant == CallsDescend /\ Pushes = {} => (Spec => []CallsGoOn)
<1> SUFFICES ASSUME CallsDescend, Pushes = {} PROVE Spec => []CallsGoOn
  OBVIOUS
<1> DEFINE J == CallsOK(k, owed) /\ IdleOK(k, InKernel)
<1>1. Init => J
  BY InitCalls
<1>2. IInv /\ J /\ [Next]_vars => J'
  <2>1. ASSUME IInv, J, Next PROVE J'
    BY <2>1, NextCalls
  <2>2. ASSUME J, UNCHANGED vars PROVE J'
    BY <2>2 DEF vars, InKernel
  <2> QED
    BY <2>1, <2>2
<1>3. IInv /\ J => CallsGoOn
  BY CallsImplyGoOn
<1> QED
  BY <1>1, <1>2, <1>3, Invariant, PTL DEF Spec
===============================================================================
