-------------------------------- MODULE Proc --------------------------------
(***************************************************************************)
(* The message and process handling of the kernel, kernel/proc.c, with     *)
(* cause_sig() and inform() of kernel/system.c, which mini_rec() calls.    *)
(*                                                                         *)
(* All of it works on one kernel state: the process table proc[] and the   *)
(* globals beside it.  Here that state is one record k, and every C        *)
(* routine is an operator from a kernel state to the kernel state it       *)
(* leaves behind, so that a routine calling another one is written as it   *)
(* is in C.  The linked lists of the C code (ready lists, caller lists)    *)
(* are sequences.                                                          *)
(***************************************************************************)
EXTENDS Integers, Sequences, SequencesExt

CONSTANTS NR_TASKS,      \* slots -NR_TASKS .. -1 are tasks
          NR_PROCS,      \* slots 0 .. NR_PROCS-1 are servers and users
          Body,          \* what a message can hold besides its source
          Signals        \* the signals a task can cause

ASSUME NrTasksAssumption == NR_TASKS \in 3 .. 900
ASSUME NrProcsAssumption == NR_PROCS \in Nat /\ NR_PROCS > 2

HARDWARE == -1           \* source of interrupt messages; never runs
SYSTASK  == -2
CLOCK    == -3
MM_PROC_NR == 0
FS_PROC_NR == 1
LOW_USER == 2            \* first slot that is not part of the system
IDLE     == -999         \* cur_proc when nobody is runnable
ANY      == NR_PROCS + 100

Slot  == -NR_TASKS .. NR_PROCS - 1
Task  == -NR_TASKS .. -2         \* the tasks that run
Server == {MM_PROC_NR, FS_PROC_NR}
User  == LOW_USER .. NR_PROCS - 1
Runner == Slot \ {HARDWARE}

TASK_Q   == 0
SERVER_Q == 1
USER_Q   == 2
Queue    == {TASK_Q, SERVER_Q, USER_Q}

P_SLOT_FREE == "P_SLOT_FREE"
NO_MAP      == "NO_MAP"
SENDING     == "SENDING"
RECEIVING   == "RECEIVING"
Flag        == {P_SLOT_FREE, NO_MAP, SENDING, RECEIVING}

ErrorCode == {"E_BAD_DEST", "E_BAD_SRC", "E_NO_PERM", "E_BAD_ADDR", "E_OVERRUN"}
ReturnCode == {"OK"} \cup ErrorCode

(***************************************************************************)
(* A message buffer is empty, or holds a source and a body.  The body of   *)
(* the KSIG message names the signalled process and its pending signals.   *)
(***************************************************************************)
NilMess == [m_source |-> IDLE]
Message == [m_source : Slot, body : Body]
ksig_mess(rp, map) == [m_type |-> "KSIG", PROC1 |-> rp, SIG_MAP |-> map]

ASSUME KsigAssumption ==
         \A rp \in Slot : \A map \in SUBSET Signals : ksig_mess(rp, map) \in Body

KState ==
  [p_flags   : [Slot -> SUBSET Flag],     \* runnable iff empty
   p_getfrom : [Slot -> Slot \cup {ANY}], \* whom a receiver waits for
   p_callerq : [Slot -> Seq(Runner)],     \* processes queued to send to it
   p_mess    : [Slot -> Message \cup {NilMess}],  \* what p_messbuf points at
   p_pending : [Slot -> SUBSET Signals],  \* signals MM was not told of yet
   sig_procs : Int,                       \* how many p_pending are not empty
   rdy       : [Queue -> Seq(Runner)],    \* the three ready lists
   cur_proc  : Runner \cup {IDLE},
   prev_proc : Runner \cup {IDLE},
   bill_ptr  : Slot]                      \* who pays for the CPU
-----------------------------------------------------------------------------
(* Scheduling.                                                             *)

queue(r) == IF r < 0 THEN TASK_Q ELSE IF r < LOW_USER THEN SERVER_Q ELSE USER_Q

\* Someone is runnable iff some list is not empty; the first such list wins.
BestQueue(k) ==
  IF k.rdy[TASK_Q] # <<>> THEN TASK_Q
  ELSE IF k.rdy[SERVER_Q] # <<>> THEN SERVER_Q ELSE USER_Q

pick_proc(k) ==
  LET head == k.rdy[BestQueue(k)]
      next == Head(head)
  IN  IF head # <<>>
      THEN [k EXCEPT !.prev_proc = k.cur_proc,
                     !.cur_proc  = next,
                     !.bill_ptr  = IF next >= LOW_USER THEN next ELSE @]
      ELSE [k EXCEPT !.prev_proc = k.cur_proc,
                     !.cur_proc  = IDLE,
                     !.bill_ptr  = HARDWARE]

ready(k, rp) == [k EXCEPT !.rdy[queue(rp)] = Append(@, rp)]

unready(k, rp) ==
  LET q == queue(rp)
      s == k.rdy[q]
  IN  IF s = <<>> THEN k
      ELSE IF Head(s) = rp
           THEN pick_proc([k EXCEPT !.rdy[q] = Tail(s)])
           ELSE [k EXCEPT !.rdy[q] = RemoveFirst(s, rp)]

\* unready() disables interrupts and returns without restoring them when the
\* process is on no ready list.
UnreadyLeavesLocked(k, rp) == ~ Contains(k.rdy[queue(rp)], rp)

sched(k) ==
  LET s == k.rdy[USER_Q]
  IN  IF s = <<>> THEN k
      ELSE pick_proc([k EXCEPT !.rdy[USER_Q] = Append(Tail(s), Head(s))])
-----------------------------------------------------------------------------
(* Messages.  mini_send and mini_rec return a code n and the new state k.  *)

cp_mess(src, body) == [m_source |-> src, body |-> body]

\* Mutant: p_getfrom is not looked at.
Awaits_any_source(k, dest, caller) == RECEIVING \in k.p_flags[dest]

\* Mutant: a receiver that named its source is not found waiting.
Awaits_any_only(k, dest, caller) ==
  RECEIVING \in k.p_flags[dest] /\ k.p_getfrom[dest] = ANY

\* dest is blocked waiting for a message that caller may send.
Awaits(k, dest, caller) ==
  /\ RECEIVING \in k.p_flags[dest]
  /\ k.p_getfrom[dest] \in {ANY, caller}

\* Mutant: rp is made ready whatever else blocks it.
Deblock_always_readies(k, rp, flag) ==
  ready([k EXCEPT !.p_flags[rp] = @ \ {flag}], rp)

\* Take a blocking flag off rp; if it was the last one rp is runnable again.
Deblock(k, rp, flag) ==
  LET k1 == [k EXCEPT !.p_flags[rp] = @ \ {flag}]
  IN  IF k1.p_flags[rp] = {} THEN ready(k1, rp) ELSE k1

Block(k, rp, flag) ==
  unready([k EXCEPT !.p_flags[rp] = @ \cup {flag}], rp)

Deliver(k, src, dest, body) ==
  Deblock([k EXCEPT !.p_mess[dest] = cp_mess(src, body)],
          dest, RECEIVING)

Enqueue(k, caller, dest, body) ==
  LET k1 == Block([k EXCEPT !.p_mess[caller] = cp_mess(caller, body)],
                  caller, SENDING)
  IN  [k1 EXCEPT !.p_callerq[dest] = Append(@, caller)]

\* Mutant: an interrupt that finds its task busy is queued like a process.
mini_send_no_overrun(k, caller, dest, body, addr_ok) ==
  IF Awaits(k, dest, caller)
  THEN [n |-> "OK", k |-> Deliver(k, caller, dest, body)]
  ELSE [n |-> "OK", k |-> Enqueue(k, caller, dest, body)]

\* Mutant: a user may send to any process.
mini_send_any_dest(k, caller, dest, body, addr_ok) ==
  IF dest \notin Slot \/ ~ addr_ok THEN [n |-> "E_BAD_DEST", k |-> k]
  ELSE IF P_SLOT_FREE \in k.p_flags[dest] THEN [n |-> "E_BAD_DEST", k |-> k]
  ELSE IF Awaits(k, dest, caller) THEN [n |-> "OK", k |-> Deliver(k, caller, dest, body)]
  ELSE IF caller = HARDWARE THEN [n |-> "E_OVERRUN", k |-> k]
  ELSE [n |-> "OK", k |-> Enqueue(k, caller, dest, body)]

\* addr_ok: the caller's message buffer lies inside its data segment.
mini_send(k, caller, dest, body, addr_ok) ==
  LET fail(n) == [n |-> n, k |-> k]
  IN  IF caller >= LOW_USER /\ dest \notin Server THEN fail("E_BAD_DEST")
      ELSE IF P_SLOT_FREE \in k.p_flags[dest] THEN fail("E_BAD_DEST")
      ELSE IF ~ addr_ok THEN fail("E_BAD_ADDR")
      ELSE IF Awaits(k, dest, caller)
           THEN [n |-> "OK", k |-> Deliver(k, caller, dest, body)]
      ELSE IF caller = HARDWARE THEN fail("E_OVERRUN")
      ELSE [n |-> "OK", k |-> Enqueue(k, caller, dest, body)]

\* Tell MM of the first process with pending signals, if MM awaits work.
LowestPending(k) ==
  CHOOSE rp \in 0 .. NR_PROCS - 1 :
    /\ k.p_pending[rp] # {}
    /\ \A r \in 0 .. NR_PROCS - 1 : k.p_pending[r] # {} => rp <= r

inform(k) ==
  LET rp == LowestPending(k)
      sent == mini_send([k EXCEPT !.sig_procs = @ - 1], HARDWARE, MM_PROC_NR,
                        ksig_mess(rp, k.p_pending[rp]), TRUE)
  IN  IF /\ RECEIVING \in k.p_flags[MM_PROC_NR]
         /\ k.p_getfrom[MM_PROC_NR] = ANY
         /\ \E r \in 0 .. NR_PROCS - 1 : k.p_pending[r] # {}
      THEN [sent.k EXCEPT !.p_pending[rp] = {}]
      ELSE k

cause_sig(k, rp, sig) ==
  inform([k EXCEPT !.sig_procs = IF k.p_pending[rp] = {} THEN @ + 1 ELSE @,
                   !.p_pending[rp] = @ \cup {sig}])

\* Mutant: only the first queued sender is considered.
Acceptable_head_only(k, caller, src) ==
  /\ k.p_callerq[caller] # <<>>
  /\ src \in {ANY, Head(k.p_callerq[caller])}

\* Mutant: the walk ends before the last sender.
Acceptable_but_last(k, caller, src) ==
  \E i \in 1 .. Len(k.p_callerq[caller]) - 1 : src \in {ANY, k.p_callerq[caller][i]}

Acceptable(k, caller, src) ==
  \E i \in 1 .. Len(k.p_callerq[caller]) : src \in {ANY, k.p_callerq[caller][i]}

\* The place in the queue of caller of the first sender it accepts.
FirstAcceptable(k, caller, src) ==
  SelectInSeq(k.p_callerq[caller], LAMBDA s : src \in {ANY, s})

\* Mutant: the sender is deblocked and stays in the caller's queue.
mini_rec_keeps_sender(k, caller, src) ==
  LET q == k.p_callerq[caller]
      sender == q[FirstAcceptable(k, caller, src)]
  IN  IF Acceptable(k, caller, src)
      THEN Deblock([k EXCEPT !.p_mess[caller] = cp_mess(sender, k.p_mess[sender].body)], sender, SENDING)
      ELSE Block([k EXCEPT !.p_getfrom[caller] = src], caller, RECEIVING)

\* Mutant: MM blocks without being told of the pending signals.
mini_rec_no_inform(k, caller, src) ==
  LET q == k.p_callerq[caller]
      i == FirstAcceptable(k, caller, src)
  IN  IF Acceptable(k, caller, src)
      THEN Deblock([k EXCEPT
                      !.p_mess[caller] = cp_mess(q[i], k.p_mess[q[i]].body),
                      !.p_callerq[caller] = RemoveAt(q, i)], q[i], SENDING)
      ELSE Block([k EXCEPT !.p_getfrom[caller] = src], caller, RECEIVING)

mini_rec(k, caller, src) ==
  LET q      == k.p_callerq[caller]
      i      == FirstAcceptable(k, caller, src)
      sender == q[i]
      taken  == [k EXCEPT
                   !.p_mess[caller] = cp_mess(sender, k.p_mess[sender].body),
                   !.p_callerq[caller] = RemoveAt(q, i)]
      blocked == Block([k EXCEPT !.p_getfrom[caller] = src],
                       caller, RECEIVING)
  IN  IF Acceptable(k, caller, src) THEN Deblock(taken, sender, SENDING)
      ELSE IF k.sig_procs > 0 /\ caller = MM_PROC_NR /\ src = ANY
           THEN inform(blocked)
           ELSE blocked

\* function is a subset of {"SEND", "RECEIVE"}; both together are BOTH.  The n
\* of the result is what the caller finds in RET_REG.
sys_call(k, function, caller, src_dest, body, addr_ok) ==
  LET sent == mini_send(k, caller, src_dest, body, addr_ok)
      k1   == IF "SEND" \in function THEN sent.k ELSE k
      done(n, k2) == [n |-> n, k |-> k2]
  IN  IF src_dest \notin Slot \cup {ANY} THEN done("E_BAD_SRC", k)
      ELSE IF function # {"SEND", "RECEIVE"} /\ caller >= LOW_USER
           THEN done("E_NO_PERM", k)
      ELSE IF "SEND" \in function /\ sent.n # "OK" THEN done(sent.n, k)
      ELSE done("OK", IF "RECEIVE" \in function
                      THEN mini_rec(k1, caller, src_dest) ELSE k1)
-----------------------------------------------------------------------------
(* What the tables and lists of a kernel state promise to each other.      *)

\* Each ready list holds processes of its own class, each of them once.
ReadyListsSorted(k) ==
  \A q \in Queue : /\ IsInjective(k.rdy[q])
                   /\ \A p \in Runner : Contains(k.rdy[q], p) => queue(p) = q

IsReady(k, p) == Contains(k.rdy[queue(p)], p)

\* A process is on its ready list exactly when no flag blocks it.
ReadyListsExact(k) ==
  /\ ReadyListsSorted(k)
  /\ \A p \in Runner : IsReady(k, p) <=> k.p_flags[p] = {}

\* A process is SENDING exactly when it is queued, once, at one process.
CallerListsExact(k) ==
  /\ \A d \in Slot : IsInjective(k.p_callerq[d])
  /\ \A p \in Runner, d \in Slot : Contains(k.p_callerq[d], p) =>
       \A e \in Slot : Contains(k.p_callerq[e], p) => d = e
  /\ \A p \in Runner :
       SENDING \in k.p_flags[p] <=> \E d \in Slot : Contains(k.p_callerq[d], p)

\* Nobody waits to receive while a message it would accept is queued for it.
RendezvousMade(k) ==
  \A p \in Runner, d \in Slot : Contains(k.p_callerq[d], p) => ~ Awaits(k, d, p)

\* The process with the CPU heads its ready list.
CurrentIsHead(k) ==
  k.cur_proc # IDLE =>
    /\ k.rdy[queue(k.cur_proc)] # <<>>
    /\ Head(k.rdy[queue(k.cur_proc)]) = k.cur_proc
-----------------------------------------------------------------------------
(* kernel/main.c: every task, MM, FS and INIT is ready, in slot order; the *)
(* other slots are free.  HARDWARE has a slot but nothing to run.  With    *)
(* users > 1 the slots after INIT are live too, for specifications that    *)
(* leave out how processes are created.                                    *)

Ascending(lo, n) == [i \in 1 .. n |-> lo + i - 1]

Boot(users) ==
  pick_proc(
    [p_flags   |-> [p \in Slot |-> IF p >= LOW_USER + users THEN {P_SLOT_FREE} ELSE {}],
     p_getfrom |-> [p \in Slot |-> MM_PROC_NR],
     p_callerq |-> [p \in Slot |-> <<>>],
     p_mess    |-> [p \in Slot |-> NilMess],
     p_pending |-> [p \in Slot |-> {}],
     sig_procs |-> 0,
     rdy       |-> [q \in Queue |->
                      IF q = TASK_Q THEN Ascending(-NR_TASKS, NR_TASKS - 1)
                      ELSE IF q = SERVER_Q THEN Ascending(MM_PROC_NR, 2)
                      ELSE Ascending(LOW_USER, users)],
     cur_proc  |-> MM_PROC_NR,     \* 0, from the bss
     prev_proc |-> MM_PROC_NR,
     bill_ptr  |-> HARDWARE])
=============================================================================
