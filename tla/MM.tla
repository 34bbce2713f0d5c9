--------------------------------- MODULE MM ---------------------------------
(***************************************************************************)
(* The memory manager's process table and signals: mm/main.c,              *)
(* mm/forkexit.c, mm/signal.c, and the parts of the kernel and of FS whose *)
(* state they share: the process slots, the pending signals and timers     *)
(* (kernel/system.c, kernel/clock.c) and the references FS holds for a     *)
(* process (fs/misc.c).                                                    *)
(*                                                                         *)
(* As in module Proc the tables are one record, mm, and a C routine is an  *)
(* operator from tables to tables.  MM is one process that handles one     *)
(* message at a time; work says what it is doing.  Its handlers are steps, *)
(* but for the loop of check_sig(), which signals one process per step:    *)
(* users, terminals and timers go on between two rounds of it.             *)
(***************************************************************************)
EXTENDS Integers, FiniteSets, FiniteSetsExt

CONSTANTS NR_PROCS,      \* slots of the process table
          LAST_FEW,      \* slots that are kept for the superuser
          MaxPid,        \* pids are INIT_PROC_NR+1 .. MaxPid
          Signals,       \* the signal numbers in use
          Uids,          \* user ids besides SUPER_USER
          SetuidFiles,   \* owners of the set-uid programs there are
          Ttys,          \* slots that terminals send signals to
          Calls,         \* the calls that processes make, INIT excepted
          MaxDrift,      \* bound on the error of sig_procs
          RootKillsAll   \* does the superuser call kill(-1)?

MM_PROC_NR   == 0
FS_PROC_NR   == 1
INIT_PROC_NR == 2
HARDWARE     == -1
SUPER_USER   == 0

SIGINT  == 2
SIGQUIT == 3
SIGKILL == 9
SIGPIPE == 13
SIGALRM == 14

Slot == 0 .. NR_PROCS - 1
User == INIT_PROC_NR .. NR_PROCS - 1
Pid  == INIT_PROC_NR + 1 .. MaxPid

\* There are more pids than processes that have one, INIT has a slot, and programs belong
\* to the users there are.  Calls are of FORK, EXIT, WAIT, PAUSE, ALARM, SIGNAL, SETUID,
\* EXEC, KILL and FS.
ASSUME SlotsAssumption == NR_PROCS \in Nat /\ NR_PROCS > INIT_PROC_NR
ASSUME PidsAssumption  == MaxPid \in Nat /\ MaxPid > INIT_PROC_NR /\ MaxPid >= NR_PROCS - 1
ASSUME SignalsAssumption == Signals \subseteq Nat /\ Ttys \subseteq Slot
ASSUME UidsAssumption  == SetuidFiles \subseteq Uids \cup {SUPER_USER}

IN_USE   == "IN_USE"
WAITING  == "WAITING"
HANGING  == "HANGING"
PAUSED   == "PAUSED"
ALARM_ON == "ALARM_ON"
Flag     == {IN_USE, WAITING, HANGING, PAUSED, ALARM_ON}

(***************************************************************************)
(* Where a user process is, as the kernel knows it: it runs, it has called *)
(* MM, MM has received its call and not answered, it is in a call to FS,   *)
(* or its slot is free.  "unasked" is a process that MM answered although  *)
(* it was not blocked on MM.                                               *)
(***************************************************************************)
UserState == {"running", "calling", "served", "in_fs", "free", "unasked"}

AnyUid == Uids \cup {SUPER_USER}

Tables ==
  [mp_flags  : [Slot -> SUBSET Flag],
   mp_parent : [Slot -> Slot],
   mp_pid    : [Slot -> Pid \cup {0}],
   mp_realuid : [Slot -> AnyUid],
   mp_effuid : [Slot -> AnyUid],
   mp_ignore : [Slot -> SUBSET Signals],
   mp_catch  : [Slot -> SUBSET Signals],
   procs_in_use : Int,
   next_pid  : Pid,
   user      : [User -> UserState],       \* the kernel's process table
   p_pending : [Slot -> SUBSET Signals],  \* signals caused, MM not told
   sig_procs : Int,                       \* how many p_pending are not empty
   p_alarm   : [Slot -> BOOLEAN],         \* the clock task runs a timer
   fp_refs   : [User -> Int],             \* references FS holds for the process
   mm_dir    : Slot]                      \* whose directory and uid FS uses for MM

\* What MM is doing.
Main    == [at |-> "main"]      \* at the top of its loop
Blocked == [at |-> "receive"]   \* in receive(ANY), no message yet
Stuck   == [at |-> "stuck"]     \* in send(HARDWARE): for ever
Serving(p) == [at |-> "call", who |-> p]
Ksig(from, proc, map) == [at |-> "ksig", who |-> from, PROC1 |-> proc, SIG_MAP |-> map]
\* In check_sig() at slot rmp; map holds the later signals of a KSIG.
Check(from, id, sig, send_uid, rmp, map, proc_id) ==
  [at |-> "check", who |-> from, proc_id |-> id, sig_nr |-> sig,
   send_uid |-> send_uid, rmp |-> rmp, sig_map |-> map, ksig_id |-> proc_id]

Caller == {HARDWARE, FS_PROC_NR} \cup User
PidArg == Pid \cup {0, -1}

Work ==
  {Main, Blocked, Stuck}
    \cup [at : {"call"}, who : User]
    \cup [at : {"ksig"}, who : Caller, PROC1 : Slot, SIG_MAP : SUBSET Signals]
    \cup [at : {"check"}, who : Caller, proc_id : PidArg, sig_nr : Signals,
          send_uid : AnyUid, rmp : 0 .. NR_PROCS,
          sig_map : SUBSET Signals, ksig_id : PidArg]

VARIABLES mm,    \* the tables
          work   \* what MM is doing

vars == <<mm, work>>

TypeOK == mm \in Tables /\ work \in Work

\* mm_init() and the kernel's main(); mproc[] is zero but for the flags.
Init ==
  /\ mm = [mp_flags  |-> [p \in Slot |-> IF p <= INIT_PROC_NR THEN {IN_USE} ELSE {}],
           mp_parent |-> [p \in Slot |-> MM_PROC_NR],
           mp_pid    |-> [p \in Slot |-> 0],
           mp_realuid |-> [p \in Slot |-> SUPER_USER],
           mp_effuid |-> [p \in Slot |-> SUPER_USER],
           mp_ignore |-> [p \in Slot |-> {}],
           mp_catch  |-> [p \in Slot |-> {}],
           procs_in_use |-> 3,
           next_pid  |-> INIT_PROC_NR + 1,
           user      |-> [p \in User |-> IF p = INIT_PROC_NR THEN "running" ELSE "free"],
           p_pending |-> [p \in Slot |-> {}],
           sig_procs |-> 0,
           p_alarm   |-> [p \in Slot |-> FALSE],
           fp_refs   |-> [p \in User |-> IF p = INIT_PROC_NR THEN 1 ELSE 0],
           mm_dir    |-> MM_PROC_NR]
  /\ work = Blocked
-----------------------------------------------------------------------------
(* Routines.                                                               *)

InUse(m, p)  == IN_USE \in m.mp_flags[p]
Zombie(m, p) == {IN_USE, HANGING} \subseteq m.mp_flags[p]
Alive(m, p)  == InUse(m, p) /\ HANGING \notin m.mp_flags[p]
Waiting(m, p) == WAITING \in m.mp_flags[p]

\* A send() to a process that is not receiving from MM leaves a stale answer
\* for the next call of that process.
reply(m, p) ==
  IF Alive(m, p)
  THEN [m EXCEPT !.user[p] = IF m.user[p] = "served" THEN "running" ELSE "unasked"]
  ELSE m

\* The clock task looks for the process in CLOCK_PROC_NR (m6_i1), set_alarm()
\* leaves it in PROC_NR (m2_i2): m6_i1 is never set and stays 0.
AlarmSlot(p) == MM_PROC_NR

set_alarm(m, p, sec) ==
  [m EXCEPT !.mp_flags[p] = IF sec # 0 THEN @ \cup {ALARM_ON} ELSE @ \ {ALARM_ON},
            !.p_alarm[AlarmSlot(p)] = sec # 0]

\* do_fork() of the kernel copies all of proc[k1], p_pending and p_alarm too.
sys_fork(m, k1, k2) ==
  [m EXCEPT !.user[k2]      = m.user[k1],
            !.p_pending[k2] = m.p_pending[k1],
            !.p_alarm[k2]   = m.p_alarm[k1]]

\* do_xit(): p_pending is left as it is.
sys_xit(m, p) == [m EXCEPT !.user[p] = "free", !.p_alarm[p] = FALSE]

\* What FS does for FORK and EXIT: the directories of the process are shared
\* and released.
tell_fs_fork(m, p) == [m EXCEPT !.fp_refs[p] = @ + 1]
tell_fs_exit(m, p) == [m EXCEPT !.fp_refs[p] = @ - 1]

\* cleanup() up to its loop: the parent is told and the slot is free.
Release(m, child) ==
  LET parent  == m.mp_parent[child]
      replied == reply(m, parent)
      waked   == [replied EXCEPT !.mp_flags[parent] = @ \ {WAITING}]
  IN  [waked EXCEPT !.mp_flags[child] = @ \ {HANGING, PAUSED, IN_USE},
                    !.procs_in_use = @ - 1]

\* Mutant: only the dead children are passed on.
Disinherit_dead_only(m, child) ==
  [m EXCEPT !.mp_parent =
     [p \in Slot |-> IF m.mp_parent[p] = child /\ HANGING \in m.mp_flags[p]
                     THEN INIT_PROC_NR ELSE m.mp_parent[p]]]

Disinherit(m, child) ==
  [m EXCEPT !.mp_parent =
     [p \in Slot |-> IF m.mp_parent[p] = child THEN INIT_PROC_NR ELSE m.mp_parent[p]]]

\* The children of the released process are passed on to INIT.  If INIT waits,
\* the first dead one of them is released too: the recursive call, at most one.
cleanup(m, child) ==
  LET released == Release(m, child)
      dead     == {p \in Slot : m.mp_parent[p] = child /\ HANGING \in m.mp_flags[p]}
      passed   == Disinherit(released, child)
  IN  IF Waiting(released, INIT_PROC_NR) /\ dead # {}
      THEN Disinherit(Release(passed, Min(dead)), Min(dead))
      ELSE passed

\* Mutant: FS is only told of a process whose parent waits.
mm_exit_untold(m, p) ==
  IF Waiting(m, m.mp_parent[p]) THEN tell_fs_exit(sys_xit(cleanup(m, p), p), p)
  ELSE sys_xit([m EXCEPT !.mp_flags[p] = @ \cup {HANGING}], p)

\* Mutant: a dead process is always left to a later WAIT.
mm_exit_hangs(m, p) ==
  tell_fs_exit(sys_xit([m EXCEPT !.mp_flags[p] = @ \cup {HANGING}], p), p)

\* Mutant: the slot is free at once, whether the parent waits or not.
mm_exit_at_once(m, p) ==
  tell_fs_exit(sys_xit(cleanup(m, p), p), p)

mm_exit(m, p) ==
  LET gone   == IF Waiting(m, m.mp_parent[p])
                THEN cleanup(m, p)
                ELSE [m EXCEPT !.mp_flags[p] = @ \cup {HANGING}]
      silent == IF ALARM_ON \in gone.mp_flags[p] THEN set_alarm(gone, p, 0) ELSE gone
  IN  tell_fs_exit(sys_xit(silent, p), p)

\* dump_core(): MM works in the directory of the process while it writes the
\* core file, unless the process runs with another's uid.
dump_core(m, p) ==
  IF m.mp_realuid[p] # m.mp_effuid[p] THEN [m EXCEPT !.mm_dir = p]
  ELSE [m EXCEPT !.mm_dir = MM_PROC_NR]

\* Signals that are not caught end the process, some with a core dump.
CoreSignals == (3 .. 8) \cup (10 .. 12)

DefaultAction(m, p, sig_nr) ==
  mm_exit(IF sig_nr \in CoreSignals THEN dump_core(m, p) ELSE m, p)

\* A signal is caught if the stack of the process can grow for it.
sig_proc(m, p, sig_nr, grown) ==
  IF ~ InUse(m, p) THEN m
  ELSE IF sig_nr \in m.mp_catch[p]
  THEN LET caught == [m EXCEPT !.mp_catch[p] = @ \ {sig_nr}]
       IN  IF grown THEN caught ELSE DefaultAction(caught, p, sig_nr)
  ELSE DefaultAction(m, p, sig_nr)

\* Mutant: the WAITING bit stays.
unpause_still_waiting(m, p, released) ==
  IF m.mp_flags[p] \cap {PAUSED, WAITING} # {} /\ HANGING \notin m.mp_flags[p]
  THEN reply([m EXCEPT !.mp_flags[p] = @ \ {PAUSED}], p)
  ELSE m

\* released: does FS find the process suspended and abort its call?
unpause(m, p, released) ==
  IF PAUSED \in m.mp_flags[p] /\ HANGING \notin m.mp_flags[p]
  THEN reply([m EXCEPT !.mp_flags[p] = @ \ {PAUSED}], p)
  ELSE IF WAITING \in m.mp_flags[p] /\ HANGING \notin m.mp_flags[p]
  THEN reply([m EXCEPT !.mp_flags[p] = @ \ {WAITING}], p)
  ELSE IF m.user[p] = "in_fs" /\ released
  THEN [m EXCEPT !.user[p] = "running"]
  ELSE m
-----------------------------------------------------------------------------
(* The main loop.                                                          *)

Callers == {p \in User : mm.user[p] = "calling"}
Pending(m) == {p \in Slot : m.p_pending[p] # {}}

\* inform(): MM blocks in receive(ANY) and the kernel has a signal for it.
Informed(m) == [m EXCEPT !.p_pending[Min(Pending(m))] = {}, !.sig_procs = @ - 1]
InformWork(m) == Ksig(HARDWARE, Min(Pending(m)), m.p_pending[Min(Pending(m))])

\* receive(): a queued caller is taken first; mini_rec() calls inform() only
\* when there is none.
get_work ==
  /\ work = Main
  /\ \/ \E p \in Callers :
          /\ mm' = [mm EXCEPT !.user[p] = "served"]
          /\ work' = Serving(p)
     \/ /\ Callers = {}
        /\ mm.sig_procs > 0
        /\ Pending(mm) # {}
        /\ mm' = Informed(mm)
        /\ work' = InformWork(mm)
     \/ /\ Callers = {}
        /\ ~ (mm.sig_procs > 0 /\ Pending(mm) # {})
        /\ work' = Blocked
        /\ UNCHANGED mm

\* The end of a call that is answered.
Answer(p, m) == mm' = reply(m, p) /\ work' = Main

NoAnswer(m) == mm' = m /\ work' = Main

\* A call that leaves the tables as they are: GETPID and the like, a call with
\* bad arguments, a FORK without memory.
do_nothing(p) == work = Serving(p) /\ Answer(p, mm)

UsedPids(m) == {m.mp_pid[q] : q \in Slot}

\* The pids in the order in which do_fork() tries them, from next_pid on.
Candidate(m, i) ==
  INIT_PROC_NR + 1 + ((m.next_pid - INIT_PROC_NR - 1 + i) % (MaxPid - INIT_PROC_NR))

Drift(m) == Cardinality(Pending(m)) - m.sig_procs

do_fork(p) ==
  /\ work = Serving(p)
  /\ mm.procs_in_use < NR_PROCS
  /\ mm.procs_in_use < NR_PROCS - LAST_FEW \/ mm.mp_effuid[p] = SUPER_USER
  /\ LET child == Min({q \in Slot : ~ InUse(mm, q)})
         copy  == [mm EXCEPT !.procs_in_use = @ + 1,
                             !.mp_flags[child]  = mm.mp_flags[p],
                             !.mp_realuid[child] = mm.mp_realuid[p],
                             !.mp_effuid[child] = mm.mp_effuid[p],
                             !.mp_ignore[child] = mm.mp_ignore[p],
                             !.mp_catch[child]  = mm.mp_catch[p],
                             !.mp_pid[child]    = mm.mp_pid[p],
                             !.mp_parent[child] = p]
         free  == {i \in 1 .. MaxPid - INIT_PROC_NR : Candidate(copy, i) \notin UsedPids(copy)}
         pid   == Candidate(copy, Min(free))
         named == [copy EXCEPT !.next_pid = pid, !.mp_pid[child] = pid]
         told  == tell_fs_fork(sys_fork(named, p, child), child)
     IN  /\ Drift(told) \in - MaxDrift .. MaxDrift   \* the bound
         /\ Answer(p, reply(told, child))

do_mm_exit(p) ==
  /\ work = Serving(p)
  /\ NoAnswer(mm_exit(mm, p))

do_wait(p) ==
  LET children == {q \in Slot : InUse(mm, q) /\ mm.mp_parent[q] = p}
      dead     == {q \in children : HANGING \in mm.mp_flags[q]}
  IN  /\ work = Serving(p)
      /\ \/ /\ dead # {}
            /\ NoAnswer(cleanup(mm, Min(dead)))
         \/ /\ dead = {}
            /\ children # {}
            /\ NoAnswer([mm EXCEPT !.mp_flags[p] = @ \cup {WAITING}])
         \/ /\ children = {}
            /\ Answer(p, mm)

do_pause(p) ==
  /\ work = Serving(p)
  /\ NoAnswer([mm EXCEPT !.mp_flags[p] = @ \cup {PAUSED}])

do_alarm(p, seconds) ==
  /\ work = Serving(p)
  /\ Answer(p, set_alarm(mm, p, seconds))

do_signal(p, sig, func) ==
  /\ work = Serving(p)
  /\ sig # SIGKILL
  /\ LET ignored == IF func = "SIG_IGN" THEN mm.mp_ignore[p] \cup {sig}
                    ELSE mm.mp_ignore[p] \ {sig}
         caught  == IF func = "SIG_CATCH" THEN mm.mp_catch[p] \cup {sig}
                    ELSE mm.mp_catch[p] \ {sig}
     IN  Answer(p, [mm EXCEPT !.mp_ignore[p] = ignored, !.mp_catch[p] = caught])

do_setuid(p, usr_id) ==
  /\ work = Serving(p)
  /\ mm.mp_realuid[p] = usr_id \/ mm.mp_effuid[p] = SUPER_USER
  /\ Answer(p, [mm EXCEPT !.mp_realuid[p] = usr_id, !.mp_effuid[p] = usr_id])

\* A successful EXEC is not answered: sys_exec() makes the process ready, and
\* clears its timer.  A set-uid program runs with the uid of its owner.
do_exec(p, owner) ==
  /\ work = Serving(p)
  /\ owner \in SetuidFiles \cup {mm.mp_effuid[p]}
  /\ NoAnswer([mm EXCEPT !.mp_effuid[p] = owner, !.mp_catch[p] = {},
                         !.user[p] = "running", !.p_alarm[p] = FALSE,
                         !.mm_dir = MM_PROC_NR])

do_kill(p, pid, kill_sig) ==
  /\ work = Serving(p)
  /\ pid = -1 /\ mm.mp_effuid[p] = SUPER_USER => RootKillsAll
  /\ work' = Check(p, pid, kill_sig, mm.mp_effuid[p], INIT_PROC_NR + 1, {}, 0)
  /\ UNCHANGED mm
-----------------------------------------------------------------------------
(* Signals.                                                                *)

\* What a KSIG makes of its next signal: DEL and quit go to the process group.
KsigId(sig, proc_id) == IF sig \in {SIGINT, SIGQUIT} THEN 0 ELSE proc_id

CheckNext(from, map, proc_id) ==
  Check(from, KsigId(Min(map), proc_id), Min(map), SUPER_USER, INIT_PROC_NR + 1,
        map \ {Min(map)}, proc_id)

\* For a process that is gone do_ksig() returns without dont_reply, and the main
\* loop answers the kernel: reply() looks at mproc[-1] and may call send().
do_ksig ==
  /\ work.at = "ksig"
  /\ UNCHANGED mm
  /\ \/ /\ Alive(mm, work.PROC1)
        /\ work' = CheckNext(work.who, work.SIG_MAP, mm.mp_pid[work.PROC1])
     \/ /\ ~ Alive(mm, work.PROC1)
        /\ work' \in {Main, Stuck}

\* The tests of check_sig().  mp_procgrp is 0 in every process.
SendSig(p) ==
  \/ /\ work.send_uid \in {mm.mp_effuid[p], SUPER_USER}
     /\ work.proc_id > 0 => work.proc_id = mm.mp_pid[p]
     /\ HANGING \notin mm.mp_flags[p]
  \/ work.send_uid = SUPER_USER /\ work.proc_id = -1

\* One round of the loop of check_sig().
check_sig(grown, released) ==
  LET p == work.rmp
      alarmed == IF work.sig_nr = SIGALRM
                 THEN [mm EXCEPT !.mp_flags[p] = @ \ {ALARM_ON}] ELSE mm
      signalled == unpause(sig_proc(alarmed, p, work.sig_nr, grown), p, released)
      next == [work EXCEPT !.rmp = p + 1]
  IN  /\ work.at = "check"
      /\ p < NR_PROCS
      /\ \/ /\ ~ InUse(mm, p) \/ (work.sig_nr = SIGALRM /\ ALARM_ON \notin mm.mp_flags[p])
            /\ work' = next
            /\ UNCHANGED mm
         \/ /\ InUse(mm, p)
            /\ work.sig_nr = SIGALRM => ALARM_ON \in mm.mp_flags[p]
            /\ ~ SendSig(p) \/ work.sig_nr \in mm.mp_ignore[p]
            /\ work' = next
            /\ mm' = alarmed
         \/ /\ InUse(mm, p)
            /\ work.sig_nr = SIGALRM => ALARM_ON \in mm.mp_flags[p]
            /\ SendSig(p)
            /\ work.sig_nr \notin mm.mp_ignore[p]
            /\ work' = IF work.proc_id > 0 THEN [work EXCEPT !.rmp = NR_PROCS] ELSE next
            /\ mm' = signalled

\* The caller of kill() is answered unless it has killed itself; the kernel and
\* FS never are.
check_sig_end ==
  /\ work.at = "check"
  /\ work.rmp = NR_PROCS
  /\ \/ /\ work.sig_map # {}
        /\ work' = CheckNext(work.who, work.sig_map, work.ksig_id)
        /\ UNCHANGED mm
     \/ /\ work.sig_map = {}
        /\ work' = Main
        /\ mm' = IF work.who \in User /\ Alive(mm, work.who) THEN reply(mm, work.who) ELSE mm
-----------------------------------------------------------------------------
(* The others: users, FS, terminals, the clock.                            *)

\* sendrec(MM, ...).  If MM is in receive() it has the message at once.
user_call(p) ==
  /\ mm.user[p] = "running"
  /\ \/ /\ work = Blocked
        /\ mm' = [mm EXCEPT !.user[p] = "served"]
        /\ work' = Serving(p)
     \/ /\ work # Blocked
        /\ mm' = [mm EXCEPT !.user[p] = "calling"]
        /\ UNCHANGED work

fs_call(p) ==
  /\ "FS" \in Calls
  /\ mm.user[p] = "running"
  /\ mm' = [mm EXCEPT !.user[p] = "in_fs"]
  /\ UNCHANGED work

fs_reply(p) ==
  /\ mm.user[p] = "in_fs"
  /\ mm' = [mm EXCEPT !.user[p] = "running"]
  /\ UNCHANGED work

\* FS finds a pipe without readers in the write() of p and sends KSIG to MM.
\* (That MM has to be receiving is the subject of IPC!KsigWaitsForMM.)
fs_sigpipe(p) ==
  /\ SIGPIPE \in Signals
  /\ mm.user[p] = "in_fs"
  /\ work = Blocked
  /\ work' = Ksig(FS_PROC_NR, p, {SIGPIPE})
  /\ UNCHANGED mm

\* cause_sig(), with the call of inform() at its end.
cause_sig(m, p, sig) ==
  LET caused == [m EXCEPT !.p_pending[p] = @ \cup {sig},
                          !.sig_procs = IF m.p_pending[p] = {} THEN @ + 1 ELSE @]
  IN  \/ /\ work = Blocked
         /\ mm' = Informed(caused)
         /\ work' = InformWork(caused)
      \/ /\ work # Blocked
         /\ mm' = caused
         /\ UNCHANGED work

tty_signal(p, sig) ==
  /\ sig \in Signals \cap {SIGINT, SIGQUIT}
  /\ cause_sig(mm, p, sig)

timer_expires(p) ==
  /\ SIGALRM \in Signals
  /\ mm.p_alarm[p]
  /\ cause_sig([mm EXCEPT !.p_alarm[p] = FALSE], p, SIGALRM)
-----------------------------------------------------------------------------
\* INIT (tools/init.c) forks and waits for ever; it neither ends nor changes.
InitCall ==
  \/ do_nothing(INIT_PROC_NR)
  \/ do_fork(INIT_PROC_NR)
  \/ do_wait(INIT_PROC_NR)

Call(p) ==
  \/ do_nothing(p)
  \/ "FORK" \in Calls /\ do_fork(p)
  \/ "EXIT" \in Calls /\ do_mm_exit(p)
  \/ "WAIT" \in Calls /\ do_wait(p)
  \/ "PAUSE" \in Calls /\ do_pause(p)
  \/ "ALARM" \in Calls /\ \E seconds \in {0, 1} : do_alarm(p, seconds)
  \/ "SIGNAL" \in Calls /\
       \E sig \in Signals, func \in {"SIG_IGN", "SIG_DFL", "SIG_CATCH"} : do_signal(p, sig, func)
  \/ "SETUID" \in Calls /\ \E usr_id \in AnyUid : do_setuid(p, usr_id)
  \/ "EXEC" \in Calls /\ \E owner \in AnyUid : do_exec(p, owner)
  \/ "KILL" \in Calls /\ \E pid \in PidArg, kill_sig \in Signals : do_kill(p, pid, kill_sig)

MMStep ==
  \/ get_work
  \/ InitCall
  \/ \E p \in User \ {INIT_PROC_NR} : Call(p)
  \/ do_ksig
  \/ \E grown, released \in BOOLEAN : check_sig(grown, released)
  \/ check_sig_end

Next ==
  \/ MMStep
  \/ \E p \in User : user_call(p) \/ fs_call(p) \/ fs_reply(p)
  \/ \E p \in User \ {INIT_PROC_NR} : fs_sigpipe(p)
  \/ \E p \in Ttys, sig \in Signals : tty_signal(p, sig)
  \/ \E p \in Slot : timer_expires(p)

Spec == Init /\ [][Next]_vars

\* MM runs before any user and answers its callers in the order in which they
\* are queued; FS answers; INIT keeps calling, and one of its calls is a WAIT.
Fairness ==
  /\ WF_vars(MMStep)
  /\ SF_vars(get_work /\ work' = Serving(INIT_PROC_NR))
  /\ WF_vars(user_call(INIT_PROC_NR))
  /\ WF_vars(fs_reply(INIT_PROC_NR))
  /\ SF_vars(do_wait(INIT_PROC_NR))

FairSpec == Spec /\ Fairness
-----------------------------------------------------------------------------
(* Properties.                                                             *)

\* The slots that the tables have.
Slots == DOMAIN mm.mp_flags
Users == DOMAIN mm.user

\* A process is blocked in a call to MM exactly as long as MM works on its call
\* or has noted that it waits or pauses: no caller is forgotten by the replies
\* that main(), cleanup() and unpause() share out, and no note is left behind.
BlockedIffOwed ==
  \A p \in Users :
    /\ mm.user[p] # "unasked"
    /\ Alive(mm, p) =>
         ( mm.user[p] = "served"
             <=> \/ mm.mp_flags[p] \cap {WAITING, PAUSED} # {}
                 \/ work.at \in {"call", "check"} /\ work.who = p )

\* mproc.h: "the contents of corresponding slots referring to the same process
\* in all three" tables.  A slot is alive in MM exactly when the kernel can run
\* it and FS holds its directories, once.
TablesAgree ==
  \A p \in Users :
    /\ Alive(mm, p) <=> mm.user[p] # "free"
    /\ mm.fp_refs[p] = IF Alive(mm, p) THEN 1 ELSE 0

\* procs_in_use, which do_fork() trusts to find a free slot, is right through
\* exits, waits, kills and the recursion of cleanup().
SlotsCounted == mm.procs_in_use = Cardinality({p \in Slots : InUse(mm, p)})

\* No two processes have the same pid, when pids are used again too.
PidsUnique ==
  \A p, q \in Users : InUse(mm, p) /\ InUse(mm, q) /\ mm.mp_pid[p] = mm.mp_pid[q] => p = q

\* Every process descends from INIT: following the parents never leads in a
\* circle or to a slot that was given up, whatever the order of exits and waits.
DescendsFromInit ==
  \A S \in SUBSET {p \in Users \ {INIT_PROC_NR} : InUse(mm, p)} :
    S # {} => \E p \in S : InUse(mm, mm.mp_parent[p]) /\ mm.mp_parent[p] \notin S

\* A process in WAIT has children, none of them dead: it will be woken.
WaitWillEnd ==
  \A p \in Users : Alive(mm, p) /\ Waiting(mm, p) =>
    LET children == {q \in Slots : InUse(mm, q) /\ mm.mp_parent[q] = p}
    IN  children # {} /\ \A q \in children : ~ Zombie(mm, q)

\* The family of INIT is a tree, and nobody in it waits in vain, through the recursion of
\* cleanup() too.
FamilyWhole == DescendsFromInit /\ WaitWillEnd

\* Who is told of the death of p when p leaves the table.
Reaper(p) == IF InUse(mm, mm.mp_parent[p]) /\ ~ InUse(mm', mm.mp_parent[p]) THEN INIT_PROC_NR
             ELSE mm.mp_parent[p]

\* A dead process only leaves the table when its parent, or INIT if the parent
\* leaves with it, gets the answer to a WAIT for it, one process per answer,
\* unless that parent is dead itself.
OneIsTold ==
  LET gone == {p \in Users : InUse(mm, p) /\ ~ InUse(mm', p)}
  IN  /\ \A p \in gone : Alive(mm, Reaper(p)) =>
           mm.user[Reaper(p)] = "served" /\ mm'.user[Reaper(p)] = "running"
      /\ \A p, q \in gone : Reaper(p) = Reaper(q) => p = q

DeathsReported == [][OneIsTold]_vars

\* Once forks stop, every dead child of INIT is collected: INIT waits for ever
\* and each WAIT collects one.  (do_wait() takes the lowest slot first, so forks
\* that never stop may keep a dead process in a higher slot.)
Orphaned(p) == Zombie(mm, p) /\ mm.mp_parent[p] = INIT_PROC_NR

OrphansCollected ==
  \/ []<><<\E p \in User : do_fork(p)>>_vars
  \/ \A p \in User \ {INIT_PROC_NR} : Orphaned(p) ~> ~ Zombie(mm, p)
-----------------------------------------------------------------------------
(* What comments of the code say and the code does not do.                 *)

\* signal.c, do_ksig(): "don't reply to the kernel".
KernelNotAnswered == work # Stuck

\* glo.h: sig_procs is the "number of procs with p_pending != 0"; MM is told of
\* pending signals only while it is positive.
SigProcsCounted == mm.sig_procs = Cardinality(Pending(mm))

\* mproc.h: ALARM_ON is "set when SIGALRM timer started"; signal.c turns it off
\* "when timer goes off to keep it accurate".  A process with ALARM_ON has a
\* timer running, or the signal of its timer is under way.
AlarmOnAccurate ==
  \A p \in User : Alive(mm, p) /\ ALARM_ON \in mm.mp_flags[p] =>
     \/ mm.p_alarm[p]
     \/ SIGALRM \in mm.p_pending[p]
     \/ work.at = "ksig" /\ work.PROC1 = p
     \/ work.at = "check" /\ work.sig_nr = SIGALRM /\ work.ksig_id = mm.mp_pid[p]

\* signal.c: "if specific process requested ... check for match".  A SIGALRM for
\* one process does nothing to the others.
AlarmOnlyForTarget ==
  [][ \A p \in User :
        work.at = "check" /\ work.proc_id > 0 /\ work.proc_id # mm.mp_pid[p] =>
          (ALARM_ON \in mm.mp_flags[p] /\ Alive(mm', p) => ALARM_ON \in mm'.mp_flags[p]) ]_vars

\* signal.c: after a core dump MM goes "back to MM's own dir", so that it looks
\* at other files with its own directory and uid.
OwnDirectory == work \in {Main, Blocked} => mm.mm_dir = MM_PROC_NR
=============================================================================
