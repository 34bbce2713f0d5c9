-------------------------------- MODULE Clock -------------------------------
(***************************************************************************)
(* The clock task (kernel/clock.c), the part of interrupt() and of the     *)
(* scheduler (kernel/proc.c) that belongs to it, and what the system task  *)
(* does to alarms (kernel/system.c).  do_clocktick() is taken apart where  *)
(* an interrupt makes a difference: around its use of lost_ticks.          *)
(***************************************************************************)
EXTENDS Integers, Sequences, FiniteSets, FiniteSetsExt

CONSTANTS User, Driver,     \* who has alarms: processes, and tasks with a watch dog
          SCHED_RATE,       \* ticks of a quantum
          Deltas, MaxDelta, \* bound: the times alarms are set for, 0 to turn them off
          MaxTicks, MaxLost \* bounds: clock interrupts, and those not yet seen by the task

ASSUME BoundsAssumption ==
  /\ SCHED_RATE \in Nat \ {0} /\ {MaxTicks, MaxLost, MaxDelta} \subseteq Nat
  /\ Deltas \subseteq 0 .. MaxDelta

IDLE == "IDLE"
MAX_P_LONG == 2 * MaxTicks + MaxDelta    \* later than every alarm
Timed == User \cup Driver

VARIABLE c    \* realtime, lost_ticks, alarms, quantum; the task and its local t; the ready
              \* users, who is billed, whether a server runs; how many interrupts there were,
              \* and for how many ticks the same user has been ahead of others

TypeOK ==
  /\ c.pc \in {"receive", "tick", "add", "subtract", "alarms", "quantum"}
  /\ c.realtime \in 0 .. MaxTicks /\ c.lost \in 0 .. MaxLost /\ c.t \in 0 .. MaxLost
  /\ \A p \in Timed : c.alarm[p] \in 0 .. MAX_P_LONG
  /\ c.next_alarm \in 0 .. MAX_P_LONG /\ c.sched_ticks \in 1 .. SCHED_RATE
  /\ Range(c.rdy) \subseteq User /\ {c.bill, c.prev} \subseteq User \cup {IDLE}

Init ==
  c = [pc |-> "receive", realtime |-> 0, lost |-> 0, t |-> 0, alarm |-> [p \in Timed |-> 0],
       next_alarm |-> 0, sched_ticks |-> SCHED_RATE, rdy |-> <<>>, bill |-> IDLE, prev |-> IDLE,
       server |-> TRUE, ticks |-> 0, ran |-> 0]

To(pc) == [c EXCEPT !.pc = pc]

\* Between two messages the task does not run; others do.
Waits == c.pc = "receive"
-----------------------------------------------------------------------------
(* Ticks.                                                                  *)

\* The clock interrupt, at any time.
interrupt ==
  /\ c.ticks < MaxTicks
  /\ IF Waits THEN c' = [To("tick") EXCEPT !.ticks = @ + 1]
     ELSE c.lost < MaxLost /\ c' = [c EXCEPT !.ticks = @ + 1, !.lost = @ + 1]

\* "To guard against race conditions, first copy 'lost_ticks' to a local variable, add this
\* to 'realtime', and then subtract it."
CopyLost == c.pc = "tick" /\ c' = [To("add") EXCEPT !.t = c.lost]

AddTicks == c.pc = "add" /\ c' = [To("subtract") EXCEPT !.realtime = @ + c.t + 1]

\* Mutant: the copy was not needed.
Seen_all(s) == [s EXCEPT !.lost = 0, !.t = 0]

Seen(s) == [s EXCEPT !.lost = @ - s.t, !.t = 0]

SubtractLost == c.pc = "subtract" /\ c' = [Seen(c) EXCEPT !.pc = "alarms"]

Earliest(alarm) == Min({MAX_P_LONG} \cup {alarm[p] : p \in {q \in Timed : alarm[q] # 0}})

\* Signals for processes, watch dogs for tasks.
Alarms ==
  LET due   == {p \in Timed : c.alarm[p] # 0 /\ c.alarm[p] <= c.realtime}
      alarm == [p \in Timed |-> IF p \in due THEN 0 ELSE c.alarm[p]]
  IN  /\ c.pc = "alarms"
      /\ c' = IF c.next_alarm > c.realtime THEN To("quantum")
              ELSE [To("quantum") EXCEPT !.alarm = alarm, !.next_alarm = Earliest(alarm)]

\* sched() moves the first of the ready users behind the others, if the same process has
\* been billed at the end of two quanta.
Quantum(s) ==
  LET over   == s.sched_ticks = 1
      rotate == over /\ s.bill = s.prev /\ s.rdy # <<>>
  IN  [s EXCEPT !.sched_ticks = IF over THEN SCHED_RATE ELSE @ - 1,
                !.prev = IF over THEN s.bill ELSE @,
                !.rdy = IF rotate THEN Append(Tail(@), Head(@)) ELSE @]

\* The user at the head is picked, unless a server is ready.
Pick(s) ==
  [s EXCEPT !.bill = IF s.server THEN @ ELSE IF s.rdy = <<>> THEN IDLE ELSE Head(s.rdy)]

EndOfTick ==
  LET u     == Pick(Quantum(c))
      alone == Len(c.rdy) < 2 \/ c.server
      stays == c.rdy # <<>> /\ u.rdy # <<>> /\ Head(c.rdy) = Head(u.rdy)
  IN  /\ c.pc = "quantum"
      /\ c' = [u EXCEPT !.pc = "receive",
                        !.ran = IF ~stays THEN 0 ELSE IF alone THEN @ ELSE @ + 1]
-----------------------------------------------------------------------------
(* Messages to the task, and what the system task does to alarms.          *)

do_setalarm ==
  \E p \in Timed, delta \in Deltas :
    LET at    == IF delta = 0 THEN 0 ELSE c.realtime + delta
        alarm == [c.alarm EXCEPT ![p] = at]
    IN  Waits /\ c' = [c EXCEPT !.alarm = alarm, !.next_alarm = Earliest(alarm)]

\* sys_fork() copies the whole entry of the process table, its alarm too.
Fork ==
  \E p, child \in User : Waits /\ p # child /\ c' = [c EXCEPT !.alarm[child] = c.alarm[p]]

\* sys_xit() and sys_exec() turn the alarm off; next_alarm stays.
TurnOff == \E p \in User : Waits /\ c.alarm[p] # 0 /\ c' = [c EXCEPT !.alarm[p] = 0]
-----------------------------------------------------------------------------
(* Users and servers.                                                      *)

\* The user that runs calls a server.
Call ==
  /\ Waits /\ ~c.server /\ c.rdy # <<>>
  /\ c' = [c EXCEPT !.rdy = Tail(@), !.server = TRUE, !.ran = 0]

\* A server has a message.
ServerRuns == Waits /\ ~c.server /\ c' = [c EXCEPT !.server = TRUE]

\* It makes a user ready that is not, or waits.
Answer ==
  \E p \in User \ Range(c.rdy) : Waits /\ c.server /\ c' = [c EXCEPT !.rdy = Append(@, p)]

ServerWaits == Waits /\ c.server /\ c' = Pick([c EXCEPT !.server = FALSE])

Next ==
  \/ interrupt \/ CopyLost \/ AddTicks \/ SubtractLost \/ Alarms \/ EndOfTick
  \/ do_setalarm \/ Fork \/ TurnOff \/ Call \/ ServerRuns \/ Answer \/ ServerWaits

Spec == Init /\ [][Next]_c
-----------------------------------------------------------------------------
\* No clock interrupt is counted twice or not at all, wherever in do_clocktick() others come:
\* realtime, lost_ticks, t and the tick that is worked on make them all.
TicksCounted ==
  c.realtime + c.lost + (CASE c.pc \in {"tick", "add"} -> 1 [] c.pc = "subtract" -> -c.t [] OTHER -> 0)
    = c.ticks

\* When the task waits no alarm is overdue, and none comes before next_alarm, whoever forks,
\* exits or changes his mind in between (do_setalarm(), do_clocktick()).
NoneOverdue ==
  Waits => \A p \in Timed : c.alarm[p] # 0 => c.alarm[p] > c.realtime /\ c.next_alarm <= c.alarm[p]

\* A user does not run on and on while another one is ready: two quanta at most
\* (sched_ticks, prev_ptr, sched()).
TimeShared == c.ran <= 2 * SCHED_RATE

\* Time goes on without loss, alarms go off in time, and users share the CPU, wherever in
\* do_clocktick() the next interrupt comes.
TimeKept == TypeOK /\ TicksCounted /\ NoneOverdue /\ TimeShared
=============================================================================
