-------------------------------- MODULE IPC ---------------------------------
(***************************************************************************)
(* The kernel of module Proc with the processes that use it.  Users call   *)
(* the kernel with any arguments.  Tasks and servers follow the protocol   *)
(* of their main loops (mm/main.c, fs/main.c, the *_task routines): they   *)
(* receive work from ANY, call the processes below them with sendrec() and *)
(* answer a request with send().  Interrupts come at any moment at which   *)
(* the kernel itself is not running.                                       *)
(*                                                                         *)
(* Which system process calls which one is the constant Calls.  Pushes are *)
(* the sends that answer nothing: a REVIVE from the terminal task to FS    *)
(* (kernel/tty.c) and a KSIG from FS to MM (fs/pipe.c).                     *)
(***************************************************************************)
EXTENDS Proc

CONSTANTS NrUsers,       \* live user processes
          Calls,         \* <<p, d>>: system process p calls d with sendrec()
          Pushes,        \* <<p, d>>: p sends to d unasked
          Drivers,       \* tasks, not CLOCK, that a device interrupts
          MaxLost        \* bound on lost_ticks

System == Task \cup Server

REQ  == [m_type |-> "REQ"]
REP  == [m_type |-> "REP"]
PUSH == [m_type |-> "PUSH"]
INT  == [m_type |-> "INT"]

ASSUME UsersAssumption  == NrUsers \in 1 .. NR_PROCS - LOW_USER
ASSUME CallsAssumption  == Calls \subseteq System \X System
ASSUME PushesAssumption == Pushes \subseteq System \X System
ASSUME DriversAssumption == Drivers \subseteq Task \ {CLOCK}
ASSUME MaxLostAssumption == MaxLost \in Nat
ASSUME BodyAssumption == {REQ, REP, PUSH, INT} \subseteq Body

VARIABLES k,          \* the kernel state
          owed,       \* owed[s]: whose request s has read and not answered
          awaiting,   \* awaiting[p]: whose answer the sendrec() of p is for
          busy_map,   \* drivers with an interrupt that was not delivered
          lost_ticks, \* clock interrupts that were not delivered
          scan,       \* pending drivers interrupt() has still to look at
          pushed      \* servers that sent unasked for the request they work on

vars == <<k, owed, awaiting, busy_map, lost_ticks, scan, pushed>>

Nobody == IDLE
NotScanning == {HARDWARE}
InKernel == scan # NotScanning

TypeOK ==
  /\ k \in KState
  /\ owed \in [System -> SUBSET Slot]
  /\ awaiting \in [Runner -> Slot \cup {Nobody}]
  /\ busy_map \in SUBSET Drivers
  /\ lost_ticks \in 0 .. MaxLost
  /\ scan \in (SUBSET Drivers) \cup {NotScanning}
  /\ pushed \in SUBSET Server

Init ==
  /\ k = Boot(NrUsers)
  /\ owed = [s \in System |-> {}]
  /\ awaiting = [p \in Runner |-> Nobody]
  /\ busy_map = {}
  /\ lost_ticks = 0
  /\ scan = NotScanning
  /\ pushed = {}
-----------------------------------------------------------------------------
(* Interrupts: the routine interrupt() of kernel/proc.c.  The kernel runs  *)
(* with interrupts off, so nothing else moves while scan is in use.        *)

interrupt(task) ==
  LET sent == mini_send(k, HARDWARE, task, INT, TRUE)
  IN  /\ ~ InKernel
      /\ k' = sent.k
      /\ \/ /\ sent.n # "OK"
            /\ task = CLOCK
            /\ lost_ticks < MaxLost
            /\ lost_ticks' = lost_ticks + 1
            /\ scan' = busy_map
            /\ UNCHANGED busy_map
         \/ /\ sent.n # "OK"
            /\ task # CLOCK
            /\ busy_map' = busy_map \cup {task}
            /\ scan' = busy_map
            /\ UNCHANGED lost_ticks
         \/ /\ sent.n = "OK"
            /\ busy_map' = busy_map \ {task}
            /\ scan' = busy_map \ {task}
            /\ UNCHANGED lost_ticks
      /\ UNCHANGED <<owed, awaiting, pushed>>

\* One round of the loop over the tasks that were busy, -2 first.
interrupt_retry ==
  \E task \in Drivers :
    LET sent == mini_send(k, HARDWARE, task, INT, TRUE)
    IN  /\ InKernel
        /\ task \in scan
        /\ \A t \in scan : t <= task
        /\ k' = sent.k
        /\ busy_map' = IF sent.n = "OK" THEN busy_map \ {task} ELSE busy_map
        /\ scan' = scan \ {task}
        /\ UNCHANGED <<owed, awaiting, lost_ticks, pushed>>

interrupt_end ==
  /\ scan = {}
  /\ k' = IF k.rdy[TASK_Q] # <<>> /\ (k.cur_proc >= 0 \/ k.cur_proc = IDLE)
          THEN pick_proc(k) ELSE k
  /\ scan' = NotScanning
  /\ UNCHANGED <<owed, awaiting, busy_map, lost_ticks, pushed>>
-----------------------------------------------------------------------------
(* What the running process does.                                          *)

Running(p) == ~ InKernel /\ k.cur_proc = p

\* The buffer of p holds a message from another process that p has not read.
HasMessage(p) == k.p_mess[p].m_source \notin {IDLE, p}

Consume(p) ==
  LET m == k.p_mess[p]
  IN  /\ Running(p)
      /\ HasMessage(p)
      /\ k' = [k EXCEPT !.p_mess[p] = NilMess]
      /\ owed' = IF m.body = REQ /\ p \in System
                 THEN [owed EXCEPT ![p] = @ \cup {m.m_source}] ELSE owed
      /\ awaiting' = [awaiting EXCEPT ![p] = Nobody]
      /\ lost_ticks' = IF p = CLOCK /\ m.body = INT THEN 0 ELSE lost_ticks
      /\ pushed' = IF m.body = REQ THEN pushed \ {p} ELSE pushed
      /\ UNCHANGED <<busy_map, scan>>

MayCall(p) == Running(p) /\ ~ HasMessage(p)

\* A user traps to the kernel with whatever it likes in the registers.
UserCall(u, function, dest, addr_ok) ==
  /\ MayCall(u)
  /\ LET called == sys_call(k, function, u, dest, REQ, addr_ok)
     IN  /\ k' = called.k
         /\ awaiting' = IF called.n = "OK" THEN [awaiting EXCEPT ![u] = dest] ELSE awaiting
  /\ UNCHANGED <<owed, busy_map, lost_ticks, scan, pushed>>

\* receive(ANY, &m) at the top of a main loop.  The only requests that are put
\* aside unanswered are those of users (WAIT and PAUSE, reads and writes that have
\* to wait for a terminal or a pipe).
Receive(s) ==
  /\ MayCall(s)
  /\ owed[s] \subseteq User
  /\ k' = sys_call(k, {"RECEIVE"}, s, ANY, REQ, TRUE).k
  /\ UNCHANGED <<owed, awaiting, busy_map, lost_ticks, scan, pushed>>

\* receive(HARDWARE, &m): a driver waits for its device.
ReceiveInterrupt(t) ==
  /\ MayCall(t)
  /\ k' = sys_call(k, {"RECEIVE"}, t, HARDWARE, REQ, TRUE).k
  /\ UNCHANGED <<owed, awaiting, busy_map, lost_ticks, scan, pushed>>

Call(p, d) ==
  /\ MayCall(p)
  /\ k' = sys_call(k, {"SEND", "RECEIVE"}, p, d, REQ, TRUE).k
  /\ awaiting' = [awaiting EXCEPT ![p] = d]
  /\ UNCHANGED <<owed, busy_map, lost_ticks, scan, pushed>>

Reply(s, c) ==
  /\ MayCall(s)
  /\ c \in owed[s]
  /\ k' = sys_call(k, {"SEND"}, s, c, REP, TRUE).k
  /\ owed' = [owed EXCEPT ![s] = @ \ {c}]
  /\ UNCHANGED <<awaiting, busy_map, lost_ticks, scan, pushed>>

\* A send that answers nothing.  FS does it at most once in the write() of a user.
Push(p, d) ==
  /\ MayCall(p)
  /\ p \in Server => p \notin pushed /\ owed[p] \cap User # {}
  /\ k' = sys_call(k, {"SEND"}, p, d, PUSH, TRUE).k
  /\ pushed' = pushed \cup ({p} \cap Server)
  /\ UNCHANGED <<owed, awaiting, busy_map, lost_ticks, scan>>

\* A task causes a signal; the clock task ends a quantum.
CauseSig(t, rp, sig) ==
  /\ MayCall(t)
  /\ sig \notin k.p_pending[rp]
  /\ k' = cause_sig(k, rp, sig)
  /\ UNCHANGED <<owed, awaiting, busy_map, lost_ticks, scan, pushed>>

EndQuantum ==
  /\ MayCall(CLOCK)
  /\ k' = sched(k)
  /\ UNCHANGED <<owed, awaiting, busy_map, lost_ticks, scan, pushed>>

UserAny ==
  \E u \in User, function \in {{"SEND"}, {"RECEIVE"}, {"SEND", "RECEIVE"}},
     dest \in Slot \cup {ANY, NR_PROCS}, addr_ok \in BOOLEAN :
       UserCall(u, function, dest, addr_ok)

Next ==
  \/ \E task \in Drivers \cup {CLOCK} : interrupt(task)
  \/ interrupt_retry
  \/ interrupt_end
  \/ \E p \in Runner : Consume(p)
  \/ UserAny
  \/ \E s \in System : Receive(s)
  \/ \E t \in Drivers : ReceiveInterrupt(t)
  \/ \E c \in Calls : Call(c[1], c[2])
  \/ \E s \in System, c \in Runner : Reply(s, c)
  \/ \E c \in Pushes : Push(c[1], c[2])
  \/ \E t \in Drivers \cup {CLOCK}, rp \in User, sig \in Signals : CauseSig(t, rp, sig)
  \/ EndQuantum

Spec == Init /\ [][Next]_vars
-----------------------------------------------------------------------------
(* Properties.                                                             *)

\* proc.h: "A process is runnable iff p_flags == 0".  The ready lists that
\* ready(), unready() and sched() keep agree with the flags that the message
\* calls set and clear.
ReadyIffRunnable == ReadyListsExact(k)

\* The process with the CPU is runnable and heads its ready list, so that it
\* loses the CPU when it blocks (unready() only picks a new process when it
\* removes a head).  When the CPU idles every list is empty, but for MM: it is
\* readied again by inform() after mini_rec() gave the CPU away.
RunningIsHead ==
  /\ CurrentIsHead(k)
  /\ k.cur_proc = IDLE /\ ~ InKernel =>
       /\ k.rdy[TASK_Q] = <<>>
       /\ k.rdy[USER_Q] = <<>>
       /\ k.rdy[SERVER_Q] \in {<<>>, <<MM_PROC_NR>>}

\* A process is SENDING exactly when it is in the queue of one process: no
\* sender is lost from a queue, and none is left behind in one.
QueuedIffSending == CallerListsExact(k)

\* No rendezvous is missed, whatever the order of send() and receive().
NoMissedRendezvous == RendezvousMade(k)

\* The message of a queued sender stays what it was when send() was called.
RequestIntact ==
  \A d \in Slot : \A p \in Range(k.p_callerq[d]) : k.p_mess[p].m_source = p

\* Whoever a system process owes an answer is blocked waiting for just that
\* answer, so that answering never blocks a server or a task.
ReplyNeverBlocks ==
  \A s \in System : \A c \in owed[s] : Awaits(k, c, s) /\ SENDING \notin k.p_flags[c]

\* A user only ever gets a message it asked for: the answer of the process it
\* called.
UsersGetReplies ==
  \A u \in User : HasMessage(u) /\ SENDING \notin k.p_flags[u] =>
     k.p_mess[u] = cp_mess(awaiting[u], REP)

\* MM never waits for work while there is a signal it was not told of.
SignalsTold ==
  RECEIVING \in k.p_flags[MM_PROC_NR] /\ k.p_getfrom[MM_PROC_NR] = ANY =>
     \A p \in Slot : k.p_pending[p] = {}

\* The order of the system processes: in every group of them somebody calls nobody in it.
\* Users call servers, MM calls FS and tasks, FS calls tasks, and a task the clock task.
CallsDescend ==
  \A S \in SUBSET System : S # {} => \E p \in S : \A d \in S : <<p, d>> \notin Calls

\* d is one of those p needs a step of before it can go on.
WaitsFor(p, d) ==
  \/ Contains(k.p_callerq[d], p)
  \/ RECEIVING \in k.p_flags[p] /\ k.p_getfrom[p] = d

\* No deadlock among processes: in every set of blocked processes somebody
\* waits for nobody in the set, so that no group of them is blocked on itself.  mini_send()
\* has no check for this; it rests on CallsDescend.
NoCircularWait ==
  \A S \in SUBSET {p \in Runner : k.p_flags[p] # {}} :
    S # {} => \E p \in S : \A d \in S : ~ WaitsFor(p, d)

\* Nobody who takes part in sendrec() is left behind: a request waits unchanged until it
\* is received, replies find their callers waiting, no group of processes is blocked on
\* itself, and whoever runs is at the head of its list, where unready() looks for it when
\* its call blocks, after every interrupt and signal (sys_call(), mini_send(), mini_rec()).
CallsGoOn == RequestIntact /\ ReplyNeverBlocks /\ NoCircularWait /\ RunningIsHead

\* A KSIG reaches MM "as soon as MM is awaiting new work" (mm/signal.c): FS is
\* never blocked on sending one while MM is blocked on sending to FS.
KsigWaitsForMM ==
  ~ ( /\ Contains(k.p_callerq[MM_PROC_NR], FS_PROC_NR)
      /\ Contains(k.p_callerq[FS_PROC_NR], MM_PROC_NR) )

\* mpx88.asm jumps to the idle loop because "no user is runnable": when the
\* CPU idles, nobody is ready.
IdleMeansNobodyRunnable ==
  k.cur_proc = IDLE /\ ~ InKernel => \A q \in Queue : k.rdy[q] = <<>>
=============================================================================
