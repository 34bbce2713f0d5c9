----------------------------- MODULE IPC_proofs ------------------------------
(***************************************************************************)
(* Every reachable state of IPC satisfies the consistency KernelOK of the  *)
(* kernel state: the type invariant and the three invariants that relate   *)
(* flags, ready lists and caller lists follow from it, for any number of   *)
(* tasks and processes and any calling pattern.                            *)
(***************************************************************************)
EXTENDS IPC, Proc_proofs

\* The inductive invariant.
IInv == TypeOK /\ KernelOK(k)

\* A process that has the CPU is blocked by no flag, so that its buffer is not
\* that of a queued message: the trap handler only runs for such a process.
LEMMA RunningUnblocked ==
  ASSUME NEW s, KernelOK(s), NEW p \in Runner, s.cur_proc = p
  PROVE  s.p_flags[p] = {}
<1>1. p # IDLE
  BY NrTasksAssumption, NrProcsAssumption DEF Runner, Slot, IDLE
<1>2. queue(p) \in Queue /\ s.rdy[queue(p)] \in Seq(Runner)
  BY QueueType DEF KernelOK, ReadyOK, KState, Runner
<1>3. s.rdy[queue(p)] # <<>> /\ Head(s.rdy[queue(p)]) = p
  BY <1>1 DEF KernelOK, ReadyOK, CurrentIsHead
<1>4. IsReady(s, p)
  BY <1>2, <1>3, TailList DEF IsReady
<1> QED
  BY <1>4 DEF KernelOK, ReadyOK, ReadyListsExact

\* A running process empties its own buffer.
LEMMA ConsumeOK ==
  ASSUME NEW s, KernelOK(s), NEW p \in Runner, s.cur_proc = p
  PROVE  KernelOK([s EXCEPT !.p_mess[p] = NilMess])
<1> DEFINE t == [s EXCEPT !.p_mess[p] = NilMess]
<1>1. s.p_flags[p] = {}
  BY RunningUnblocked
<1>2. /\ t \in KState
      /\ t.rdy = s.rdy /\ t.cur_proc = s.cur_proc
      /\ t.p_flags = s.p_flags /\ t.p_getfrom = s.p_getfrom
      /\ t.p_callerq = s.p_callerq
      /\ \A x \in Slot : x # p => t.p_mess[x] = s.p_mess[x]
  BY DEF KernelOK, ReadyOK, KState
<1> HIDE DEF t
<1>3. ReadyOK(t)
  BY <1>2 DEF KernelOK, ReadyOK, ReadyListsExact, ReadyListsSorted, IsReady, CurrentIsHead
<1>4. CallerListsExact(t) /\ RendezvousMade(t)
  BY <1>2 DEF KernelOK, CallerListsExact, RendezvousMade, Awaits
<1>5. SendersHoldMessages(t)
  BY <1>1, <1>2 DEF KernelOK, SendersHoldMessages, Runner
<1> QED
  BY <1>2, <1>3, <1>4, <1>5 DEF KernelOK, t

\* pick_proc() at the end of interrupt(), and sched() at the end of a quantum,
\* keep the invariant.
LEMMA RescheduleOK ==
  ASSUME NEW s, KernelOK(s)
  PROVE  KernelOK(pick_proc(s)) /\ KernelOK(sched(s))
<1>1. s \in KState /\ ReadyListsExact(s) /\ ReadyListsSorted(s) /\ CurrentIsHead(s)
  BY DEF KernelOK, ReadyOK, ReadyListsExact
<1>2. ASSUME NEW t \in KState, SameTable(s, t), ReadyListsSorted(t), CurrentIsHead(t),
             \A p \in Runner : IsReady(t, p) <=> IsReady(s, p)
      PROVE  KernelOK(t)
  <2>1. ReadyOK(t)
    BY <1>1, <1>2 DEF ReadyOK, ReadyListsExact, SameTable
  <2>2. CallerListsExact(t) /\ RendezvousMade(t) /\ SendersHoldMessages(t)
    BY <1>2 DEF KernelOK, CallerListsExact, RendezvousMade, SendersHoldMessages, Awaits,
                SameTable
  <2> QED
    BY <1>2, <2>1, <2>2 DEF KernelOK, SameTable
<1>3. KernelOK(pick_proc(s))
  <2> DEFINE t == pick_proc(s)
  <2>1. t \in KState /\ SameTable(s, t) /\ t.rdy = s.rdy /\ CurrentIsHead(t)
    BY <1>1, PickProc
  <2> HIDE DEF t
  <2>2. ReadyListsSorted(t) /\ \A p \in Runner : IsReady(t, p) <=> IsReady(s, p)
    BY <1>1, <2>1 DEF ReadyListsSorted, IsReady
  <2>3. KernelOK(t)
    BY <1>2, <2>1, <2>2
  <2> QED
    BY <2>3 DEF t
<1>4. KernelOK(sched(s))
  <2> DEFINE t == sched(s)
  <2>1. /\ t \in KState /\ SameTable(s, t) /\ ReadyListsSorted(t) /\ CurrentIsHead(t)
        /\ \A p \in Runner : IsReady(t, p) <=> IsReady(s, p)
    BY <1>1, Sched
  <2> HIDE DEF t
  <2>2. KernelOK(t)
    BY <1>2, <2>1
  <2> QED
    BY <2>2 DEF t
<1> QED
  BY <1>3, <1>4

\* Who is a process, a system process and a user.
LEMMA Slots ==
  /\ HARDWARE \in Slot /\ HARDWARE \notin Runner /\ IDLE \notin Runner
  /\ CLOCK \in Runner /\ CLOCK \in System /\ Task \subseteq Runner /\ User \subseteq Runner
  /\ System \subseteq Runner /\ Server \subseteq Slot /\ Runner \subseteq Slot
  /\ ANY \notin Slot /\ Drivers \subseteq Runner
  /\ \A u \in User : u >= LOW_USER
  BY NrTasksAssumption, NrProcsAssumption, DriversAssumption
  DEF HARDWARE, Slot, Runner, IDLE, CLOCK, Task, User, System, Server, ANY, LOW_USER,
      MM_PROC_NR, FS_PROC_NR

\* Every call of the running process, with the arguments the processes use.
LEMMA CallOK ==
  ASSUME IInv, NEW p \in Runner, k.cur_proc = p, NEW function, NEW src_dest,
         "SEND" \in function => src_dest # ANY \/ p >= LOW_USER,
         NEW body \in {REQ, REP, PUSH}, NEW addr_ok \in BOOLEAN
  PROVE  LET called == sys_call(k, function, p, src_dest, body, addr_ok)
         IN  /\ KernelOK(called.k)
             /\ p >= LOW_USER /\ called.n = "OK" => src_dest \in Server
<1>1. SENDING \notin k.p_flags[p]
  BY RunningUnblocked DEF IInv
<1>2. body \in Body
  BY BodyAssumption
<1> QED
  BY <1>1, <1>2, SysCallOK DEF IInv

\* The send of interrupt() keeps the invariant: a task it makes ready is put
\* behind whoever has the CPU.
LEMMA InterruptOK ==
  ASSUME IInv, NEW task \in Drivers \cup {CLOCK}
  PROVE  KernelOK(mini_send(k, HARDWARE, task, INT, TRUE).k)
<1>1. INT \in Body
  BY BodyAssumption
<1> QED
  BY <1>1, Slots, MiniSendOK DEF IInv

\* Init establishes the invariant.
LEMMA InitOK == Init => IInv
<1> SUFFICES ASSUME Init PROVE IInv
  OBVIOUS
<1>1. KernelOK(k)
  BY BootOK, UsersAssumption DEF Init
<1>2. TypeOK
  BY <1>1, Slots, MaxLostAssumption DEF Init, TypeOK, KernelOK, ReadyOK, Nobody
<1> QED
  BY <1>1, <1>2 DEF IInv

\* Every step keeps it: the kernel half by the lemmas on the routine that the
\* step calls.
LEMMA NextKernelOK ==
  ASSUME IInv, Next PROVE KernelOK(k')
<1>0. KernelOK(k)
  BY DEF IInv
<1>1. ASSUME NEW task \in Drivers \cup {CLOCK}, interrupt(task) PROVE KernelOK(k')
  BY <1>1, InterruptOK DEF interrupt
<1>2. CASE interrupt_retry
  BY <1>2, InterruptOK DEF interrupt_retry
<1>3. CASE interrupt_end
  BY <1>0, <1>3, RescheduleOK DEF interrupt_end
<1>4. ASSUME NEW p \in Runner, Consume(p) PROVE KernelOK(k')
  BY <1>0, <1>4, ConsumeOK DEF Consume, Running
<1>5. ASSUME NEW u \in User, NEW function, NEW dest, NEW addr_ok \in BOOLEAN,
             UserCall(u, function, dest, addr_ok)
      PROVE  KernelOK(k')
  <2>1. k.cur_proc = u /\ u \in Runner /\ u >= LOW_USER
    BY <1>5, Slots DEF UserCall, MayCall, Running
  <2>2. KernelOK(sys_call(k, function, u, dest, REQ, addr_ok).k)
    BY <2>1, CallOK
  <2> QED
    BY <1>5, <2>2 DEF UserCall
<1>6. ASSUME NEW s \in System, Receive(s) PROVE KernelOK(k')
  <2>1. k.cur_proc = s /\ s \in Runner /\ "SEND" \notin {"RECEIVE"}
    BY <1>6, Slots DEF Receive, MayCall, Running
  <2>2. KernelOK(sys_call(k, {"RECEIVE"}, s, ANY, REQ, TRUE).k)
    BY <2>1, CallOK
  <2> QED
    BY <1>6, <2>2 DEF Receive
<1>7. ASSUME NEW t \in Drivers, ReceiveInterrupt(t) PROVE KernelOK(k')
  <2>1. k.cur_proc = t /\ t \in Runner /\ "SEND" \notin {"RECEIVE"}
    BY <1>7, Slots DEF ReceiveInterrupt, MayCall, Running
  <2>2. KernelOK(sys_call(k, {"RECEIVE"}, t, HARDWARE, REQ, TRUE).k)
    BY <2>1, CallOK
  <2> QED
    BY <1>7, <2>2 DEF ReceiveInterrupt
<1>8. ASSUME NEW c \in Calls, Call(c[1], c[2]) PROVE KernelOK(k')
  <2>1. c[1] \in System /\ c[2] \in System
    BY CallsAssumption
  <2>2. k.cur_proc = c[1] /\ c[1] \in Runner /\ c[2] # ANY
    BY <1>8, <2>1, Slots DEF Call, MayCall, Running
  <2>3. KernelOK(sys_call(k, {"SEND", "RECEIVE"}, c[1], c[2], REQ, TRUE).k)
    BY <2>2, CallOK
  <2> QED
    BY <1>8, <2>3 DEF Call
<1>9. ASSUME NEW s \in System, NEW c \in Runner, Reply(s, c) PROVE KernelOK(k')
  <2>1. k.cur_proc = s /\ s \in Runner /\ c # ANY
    BY <1>9, Slots DEF Reply, MayCall, Running
  <2>2. KernelOK(sys_call(k, {"SEND"}, s, c, REP, TRUE).k)
    BY <2>1, CallOK
  <2> QED
    BY <1>9, <2>2 DEF Reply
<1>10. ASSUME NEW c \in Pushes, Push(c[1], c[2]) PROVE KernelOK(k')
  <2>1. c[1] \in System /\ c[2] \in System
    BY PushesAssumption
  <2>2. k.cur_proc = c[1] /\ c[1] \in Runner /\ c[2] # ANY
    BY <1>10, <2>1, Slots DEF Push, MayCall, Running
  <2>3. KernelOK(sys_call(k, {"SEND"}, c[1], c[2], PUSH, TRUE).k)
    BY <2>2, CallOK
  <2> QED
    BY <1>10, <2>3 DEF Push
<1>11. ASSUME NEW t, NEW rp \in User, NEW sig \in Signals, CauseSig(t, rp, sig)
       PROVE  KernelOK(k')
  BY <1>0, <1>11, Slots, CauseSigOK DEF CauseSig
<1>12. CASE EndQuantum
  BY <1>0, <1>12, RescheduleOK DEF EndQuantum
<1> QED
  BY <1>1, <1>2, <1>3, <1>4, <1>5, <1>6, <1>7, <1>8, <1>9, <1>10, <1>11, <1>12
  DEF Next, UserAny

\* Every step keeps the types of the bookkeeping beside the kernel state.
LEMMA NextTypeOK ==
  ASSUME IInv, Next, k' \in KState PROVE TypeOK'
<1> USE DEF TypeOK
<1>0. TypeOK
  BY DEF IInv
<1>1. ASSUME NEW task \in Drivers \cup {CLOCK}, interrupt(task) PROVE TypeOK'
  <2>1. busy_map \in SUBSET Drivers
    BY <1>0
  <2>2. /\ owed' = owed /\ awaiting' = awaiting
        /\ lost_ticks' = lost_ticks \/ (lost_ticks < MaxLost /\ lost_ticks' = lost_ticks + 1)
    <3> HIDE DEF TypeOK
    <3> QED
      BY <1>1 DEF interrupt
  <2>4. lost_ticks \in 0 .. MaxLost /\ MaxLost \in Nat
    BY <1>0, MaxLostAssumption
  <2>5. lost_ticks' \in 0 .. MaxLost
    <3> HIDE DEF TypeOK
    <3> QED
      BY <2>2, <2>4
  <2>3. /\ \/ busy_map' = busy_map
           \/ busy_map' = busy_map \ {task}
           \/ task # CLOCK /\ busy_map' = busy_map \cup {task}
        /\ scan' = busy_map \/ scan' = busy_map \ {task}
        /\ pushed' = pushed
    <3> HIDE DEF TypeOK
    <3> DEFINE sent == mini_send(k, HARDWARE, task, INT, TRUE)
    <3>1. /\ \/ /\ scan' = busy_map
                /\ UNCHANGED busy_map
             \/ /\ task # CLOCK
                /\ busy_map' = busy_map \cup {task}
                /\ scan' = busy_map
             \/ /\ busy_map' = busy_map \ {task}
                /\ scan' = busy_map \ {task}
          /\ UNCHANGED pushed
      BY <1>1, Zenon DEF interrupt
    <3> QED
      BY <3>1
  <2>6. busy_map' \in SUBSET Drivers /\ scan' \in SUBSET Drivers
    <3> HIDE DEF TypeOK
    <3> QED
      BY <2>1, <2>3
  <2> QED
    BY <1>0, <2>2, <2>3, <2>5, <2>6
<1>2. CASE interrupt_retry
  <2>1. scan \in SUBSET Drivers /\ busy_map \in SUBSET Drivers
    BY <1>0, <1>2 DEF interrupt_retry, InKernel
  <2>2. scan' \in SUBSET Drivers /\ busy_map' \in SUBSET Drivers
    BY <1>2, <2>1 DEF interrupt_retry
  <2> QED
    BY <1>0, <1>2, <2>2 DEF interrupt_retry
<1>3. CASE interrupt_end
  BY <1>0, <1>3 DEF interrupt_end
<1>4. ASSUME NEW p \in Runner, Consume(p) PROVE TypeOK'
  <2>1. k.p_mess[p] \in Message /\ k.p_mess[p].m_source \in Slot
    BY <1>0, <1>4, Slots DEF Consume, HasMessage, KState, NilMess, Message
  <2>2. owed' \in [System -> SUBSET Slot]
    BY <1>0, <1>4, <2>1 DEF Consume
  <2>3. awaiting' \in [Runner -> Slot \cup {Nobody}]
    BY <1>0, <1>4 DEF Consume
  <2>4. lost_ticks' \in 0 .. MaxLost
    BY <1>0, <1>4, MaxLostAssumption DEF Consume
  <2> QED
    BY <1>0, <1>4, <2>2, <2>3, <2>4 DEF Consume
<1>5. ASSUME NEW u \in User, NEW function, NEW dest, NEW addr_ok \in BOOLEAN,
             UserCall(u, function, dest, addr_ok)
      PROVE  TypeOK'
  <2>1. k.cur_proc = u /\ u \in Runner /\ u >= LOW_USER
    BY <1>5, Slots DEF UserCall, MayCall, Running
  <2>2. sys_call(k, function, u, dest, REQ, addr_ok).n = "OK" => dest \in Slot
    BY <2>1, CallOK, Slots
  <2>3. awaiting' \in [Runner -> Slot \cup {Nobody}]
    BY <1>0, <1>5, <2>1, <2>2 DEF UserCall
  <2> QED
    BY <1>0, <1>5, <2>3 DEF UserCall
<1>6. ASSUME NEW s \in System, Receive(s) PROVE TypeOK'
  BY <1>0, <1>6 DEF Receive
<1>7. ASSUME NEW t \in Drivers, ReceiveInterrupt(t) PROVE TypeOK'
  BY <1>0, <1>7 DEF ReceiveInterrupt
<1>8. ASSUME NEW c \in Calls, Call(c[1], c[2]) PROVE TypeOK'
  <2>1. c[1] \in Runner /\ c[2] \in Slot
    BY CallsAssumption, Slots
  <2>2. awaiting' \in [Runner -> Slot \cup {Nobody}]
    BY <1>0, <1>8, <2>1 DEF Call
  <2> QED
    BY <1>0, <1>8, <2>2 DEF Call
<1>9. ASSUME NEW s \in System, NEW c \in Runner, Reply(s, c) PROVE TypeOK'
  BY <1>0, <1>9 DEF Reply
<1>10. ASSUME NEW c \in Pushes, Push(c[1], c[2]) PROVE TypeOK'
  BY <1>0, <1>10 DEF Push
<1>11. ASSUME NEW t, NEW rp, NEW sig, CauseSig(t, rp, sig) PROVE TypeOK'
  BY <1>0, <1>11 DEF CauseSig
<1>12. CASE EndQuantum
  BY <1>0, <1>12 DEF EndQuantum
<1> QED
  BY <1>1, <1>2, <1>3, <1>4, <1>5, <1>6, <1>7, <1>8, <1>9, <1>10, <1>11, <1>12
  DEF Next, UserAny

\* The invariant holds in every state of every run.
THEOREM Invariant == Spec => []IInv
<1>1. ASSUME IInv, [Next]_vars PROVE IInv'
  <2>1. CASE Next
    <3>1. KernelOK(k')
      BY <1>1, <2>1, NextKernelOK
    <3>2. k' \in KState
      BY <3>1 DEF KernelOK, ReadyOK
    <3>3. TypeOK'
      BY <1>1, <2>1, <3>2, NextTypeOK
    <3> QED
      BY <3>1, <3>3 DEF IInv
  <2>2. CASE UNCHANGED vars
    BY <1>1, <2>2 DEF IInv, TypeOK, vars
  <2> QED
    BY <1>1, <2>1, <2>2
<1> QED
  BY InitOK, <1>1, PTL DEF Spec

\* Every variable keeps its type: no routine of kernel/proc.c puts HARDWARE, or a
\* process of the table's other end, on a list, nor reads an empty list's head.
THEOREM TypeInvariant == Spec => []TypeOK
<1>1. IInv => TypeOK
  BY DEF IInv
<1> QED
  BY Invariant, <1>1, PTL

\* ready(), unready() and sched() keep each ready list exact: it holds every
\* process of its class that no flag blocks, once, and no other.
THEOREM ReadyInvariant == Spec => []ReadyIffRunnable
<1>1. IInv => ReadyIffRunnable
  BY DEF IInv, KernelOK, ReadyOK, ReadyIffRunnable
<1> QED
  BY Invariant, <1>1, PTL

\* mini_send() and mini_rec() keep the caller lists exact: a process is SENDING
\* exactly when one list holds it, once.
THEOREM QueueInvariant == Spec => []QueuedIffSending
<1>1. IInv => QueuedIffSending
  BY DEF IInv, KernelOK, QueuedIffSending
<1> QED
  BY Invariant, <1>1, PTL

\* No receiver waits while a message it would take is queued for it, whatever
\* the order in which interrupts, tasks, servers and users call the kernel.
THEOREM RendezvousInvariant == Spec => []NoMissedRendezvous
<1>1. IInv => NoMissedRendezvous
  BY DEF IInv, KernelOK, NoMissedRendezvous
<1> QED
  BY Invariant, <1>1, PTL

\* Whoever has the CPU heads its ready list, where unready() looks for it when its
\* call blocks, and no flag blocks it: whatever interrupts, signals and quanta came
\* between, restart() never resumes a process that waits for a message.
THEOREM RunningInvariant ==
  Spec => [](CurrentIsHead(k) /\ (k.cur_proc # IDLE => k.p_flags[k.cur_proc] = {}))
<1>1. ASSUME IInv PROVE CurrentIsHead(k) /\ (k.cur_proc # IDLE => k.p_flags[k.cur_proc] = {})
  <2>1. CurrentIsHead(k) /\ k.cur_proc \in Runner \cup {IDLE}
    BY <1>1 DEF IInv, KernelOK, ReadyOK, KState
  <2>2. KernelOK(k)
    BY <1>1 DEF IInv
  <2> QED
    BY <2>1, <2>2, RunningUnblocked
<1> QED
  BY Invariant, <1>1, PTL
===============================================================================
