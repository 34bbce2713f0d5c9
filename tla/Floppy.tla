------------------------------- MODULE Floppy -------------------------------
(***************************************************************************)
(* The floppy disk task (kernel/floppy.c): a request is tried again until  *)
(* it works, with resets, recalibrations and other densities in between,   *)
(* while the clock's watch dog may turn the motors off.  Drives, motors    *)
(* and what the controller answers are chosen freely; what goes to its     *)
(* ports is left out.                                                      *)
(***************************************************************************)
EXTENDS Integers, FiniteSets

CONSTANTS Drive,       \* drives with a diskette
          Blocks,      \* bound: the sectors that are asked for
          Kinds,       \* bound: the kinds of diskette that are put in
          MAX_ERRORS

NT == 4
Density == 0 .. NT - 1
nr_sectors == [k \in Density |-> IF k = 3 THEN 15 ELSE 9]
nr_blocks == [k \in Density |-> IF k = 3 THEN 2400 ELSE 720]
HC_SIZE == 2400

VARIABLE f    \* the task: where it is, the request, the tables of the drives, its motor
              \* variables; the motors that turn (dor), the diskettes (kind), the clock's
              \* watch dog for the task, and the last block that was moved

\* It runs, or it waits: for a request, the controller, or the clock.
Running == {"loop", "seek", "seek_cmd", "recalibrate", "recal_cmd", "transfer", "end"}
OnController == {"wait_reset", "wait_seek", "wait_recal", "wait_transfer"}
OnClock == {"wait_motor", "wait_alarm"}
Waiting == {"idle"} \cup OnController \cup OnClock

Geometry(block, k) ==
  [cylinder |-> block \div (2 * nr_sectors[k]), sector |-> (block % nr_sectors[k]) + 1,
   head |-> (block % (2 * nr_sectors[k])) \div nr_sectors[k]]

TypeOK ==
  /\ f.pc \in Running \cup Waiting /\ f.drive \in Drive /\ f.errors \in 0 .. MAX_ERRORS + 1
  /\ {f.d, f.first} \subseteq Density /\ \A k \in Drive : f.density[k] \in Density /\ f.kind[k] \in Kinds
  /\ f.motor_status \subseteq Drive /\ f.motor_goal \subseteq Drive /\ f.dor \subseteq Drive
  /\ f.calibrated \subseteq Drive /\ f.watch_dog \in {"none", "stop_motor", "send_mess"}

Init ==
  \E kind \in [Drive -> Kinds], drive \in Drive :
    f = [pc |-> "idle", drive |-> drive, block |-> 0, first |-> 0, errors |-> 0, d |-> 0,
         ok |-> FALSE, moved |-> 0, next |-> "seek", after |-> "seek",
         density |-> [k \in Drive |-> 0], calibrated |-> {}, need_reset |-> FALSE,
         motor_status |-> {}, motor_goal |-> {}, prev_motor |-> {}, dor |-> {},
         kind |-> kind, watch_dog |-> "none"]

To(pc) == [f EXCEPT !.pc = pc]

\* fdc_out(): the controller takes a command, or it must be reset.
Listens == IF f.need_reset THEN {FALSE} ELSE BOOLEAN
-----------------------------------------------------------------------------
\* A request: the position on the diskette is that for the density of last time, and it
\* stays when another density is tried.
do_rdwt ==
  \E drive \in Drive, block \in Blocks :
    LET k == f.density[drive]
    IN  /\ f.pc = "idle" /\ block < HC_SIZE
        /\ f' = [To("loop") EXCEPT !.drive = drive, !.block = block, !.d = k, !.first = k,
                                   !.errors = 0, !.ok = FALSE]

\* start_motor(): on its own and the last drive's, if that turns; wait if it did not turn.
start_motor(s, next) ==
  LET goal == {s.drive} \cup (s.motor_status \cap s.prev_motor)
      u    == [s EXCEPT !.motor_goal = goal, !.dor = goal, !.motor_status = goal,
                        !.prev_motor = {s.drive}]
  IN  IF s.drive \in s.motor_status THEN [u EXCEPT !.pc = next]
      ELSE [u EXCEPT !.pc = "wait_motor", !.next = next, !.watch_dog = "send_mess"]

\* All motors stop, and no drive is calibrated.
reset(s) ==
  [s EXCEPT !.pc = "wait_reset", !.need_reset = FALSE, !.motor_status = {}, !.motor_goal = {},
            !.dor = {}]

Errors(s) == s.errors + 1

\* Mutant: the density that is tried is not kept for the next request.
OtherDensity_forgotten(s) == [s EXCEPT !.d = (@ + 1) % NT, !.need_reset = TRUE]

OtherDensity(s) ==
  LET d == (s.d + 1) % NT
  IN  [s EXCEPT !.d = d, !.density[s.drive] = d, !.need_reset = TRUE]

\* An attempt; every now and then with another density.
Attempt ==
  LET t == [f EXCEPT !.errors = Errors(f)]
      u == IF t.errors % (MAX_ERRORS \div NT) = 0 THEN OtherDensity(t) ELSE t
  IN  /\ f.pc = "loop"
      /\ f' = IF f.errors > MAX_ERRORS THEN To("end")
              ELSE IF f.block >= nr_blocks[u.d] THEN u
              ELSE IF u.need_reset THEN reset(u)
              ELSE start_motor(u, "seek")

\* The interrupt after a reset.
ResetDone ==
  /\ f.pc = "wait_reset"
  /\ \E heard \in BOOLEAN :
       f' = start_motor([f EXCEPT !.calibrated = {}, !.need_reset = ~heard], "seek")

seek ==
  /\ f.pc = "seek"
  /\ f' = IF f.drive \in f.calibrated THEN To("seek_cmd")
          ELSE [To("recalibrate") EXCEPT !.after = "seek_cmd"]

\* fl_curcyl is -1 after a recalibration and never the cylinder: there is always a SEEK.
SeekCommand ==
  /\ f.pc = "seek_cmd"
  /\ \E listens \in Listens :
       f' = IF listens THEN To("wait_seek") ELSE [To("loop") EXCEPT !.need_reset = TRUE]

\* A failed seek leads to a recalibration and another attempt.
SeekDone ==
  /\ f.pc = "wait_seek"
  /\ \E r \in {"OK", "bad", "deaf"} :
       f' = IF r = "OK" THEN To("transfer")
            ELSE [To("recalibrate") EXCEPT !.after = "loop", !.need_reset = (r = "deaf")]

recalibrate == f.pc = "recalibrate" /\ f' = start_motor(f, "recal_cmd")

RecalibrateCommand ==
  /\ f.pc = "recal_cmd"
  /\ \E listens \in Listens :
       f' = IF listens THEN To("wait_recal") ELSE [To("loop") EXCEPT !.need_reset = TRUE]

RecalibrateDone ==
  /\ f.pc = "wait_recal"
  /\ \/ f' = [To(f.after) EXCEPT !.after = "seek", !.calibrated = @ \cup {f.drive}]
     \/ f' = [To("loop") EXCEPT !.after = "seek", !.calibrated = @ \ {f.drive},
                                !.need_reset = TRUE]

transfer ==
  /\ f.pc = "transfer"
  /\ IF f.drive \notin f.calibrated \/ f.drive \notin f.motor_status THEN f' = To("loop")
     ELSE \E listens \in Listens :
            f' = IF listens THEN To("wait_transfer") ELSE [To("loop") EXCEPT !.need_reset = TRUE]

\* Only the right density works, at the place that the controller was told.
TransferDone ==
  LET kind == f.kind[f.drive]
      n    == nr_sectors[kind]
      at   == Geometry(f.block, f.first)
  IN  /\ f.pc = "wait_transfer"
      /\ \/ /\ f.d = kind /\ at.sector <= n /\ at.cylinder < nr_blocks[kind] \div (2 * n)
            /\ f' = [To("end") EXCEPT !.ok = TRUE,
                       !.moved = (at.cylinder * 2 + at.head) * n + at.sector - 1]
         \/ f' = To("end")                                     \* write protected
         \/ f' = [To("loop") EXCEPT !.calibrated = @ \ {f.drive}]
         \/ f' = To("loop")
         \/ f' = [To("loop") EXCEPT !.need_reset = TRUE]        \* too many results

\* The end of do_rdwt(): from here on the motors may be stopped.
Finish == f.pc = "end" /\ f' = [To("wait_alarm") EXCEPT !.motor_goal = {}]

\* What the next request sets anew is forgotten.
AlarmSet ==
  /\ f.pc = "wait_alarm"
  /\ f' = [To("idle") EXCEPT !.watch_dog = "stop_motor", !.errors = 0, !.block = 0, !.moved = 0,
                             !.ok = FALSE, !.first = 0, !.d = 0]
-----------------------------------------------------------------------------
(* The clock task calls these while the floppy task waits.                 *)

\* Mutant: no look at what the motors are needed for.
stop_motor_always(s) == [s EXCEPT !.dor = {}, !.motor_status = {}, !.watch_dog = "none"]

stop_motor(s) ==
  [s EXCEPT !.dor = IF s.motor_goal # s.motor_status THEN s.motor_goal ELSE @,
            !.motor_status = s.motor_goal, !.watch_dog = "none"]

StopMotor == f.watch_dog = "stop_motor" /\ f.pc \in Waiting /\ f' = stop_motor(f)

\* Its message is what start_motor() waits for.
send_mess ==
  /\ f.watch_dog = "send_mess" /\ f.pc = "wait_motor"
  /\ f' = [To(f.next) EXCEPT !.watch_dog = "none", !.next = "seek"]

\* Another diskette is put in while nothing goes on.
Swap ==
  \E drive \in Drive, kind \in Kinds :
    f.pc = "idle" /\ f' = [f EXCEPT !.kind[drive] = kind]

Steps ==
  \/ Attempt \/ ResetDone \/ seek \/ SeekCommand \/ SeekDone \/ recalibrate
  \/ RecalibrateCommand \/ RecalibrateDone \/ transfer \/ TransferDone \/ Finish \/ AlarmSet
  \/ send_mess

Next == do_rdwt \/ Steps \/ StopMotor \/ Swap

\* The controller interrupts after every command, and the clock's ticks go on.
Spec == Init /\ [][Next]_f /\ WF_f(Steps)
-----------------------------------------------------------------------------
\* A request that begins with the density of the diskette moves the block that was asked for
\* or fails, whatever densities are tried in between; and whatever a request began with, if it
\* works then the density that worked is remembered, with which the next one begins (do_rdwt(),
\* transfer()).  A request that begins with another density is the known fault.
RightBlock ==
  f.pc \in {"end", "wait_alarm"} /\ f.ok =>
    /\ f.first = f.kind[f.drive] => f.moved = f.block
    /\ f.density[f.drive] = f.kind[f.drive]

\* The stronger promise, which the code breaks: a request that goes over to another density
\* moves the right block too (do_rdwt() does not compute its position again).
AlwaysRightBlock == f.pc \in {"end", "wait_alarm"} /\ f.ok => f.moved = f.block

\* A drive is used only while its motor turns, although a watch dog of an earlier request
\* may go off at any time (start_motor(), stop_motor()).
MotorTurns == f.pc \in OnController \ {"wait_reset"} => f.drive \in f.dor

\* Nobody forgets a motor: when the task is idle a watch dog will stop those that turn, and
\* when it waits for one to get up to speed a message will come.
WatchDogSet ==
  /\ f.pc = "idle" /\ f.dor # {} => f.watch_dog = "stop_motor"
  /\ f.pc = "wait_motor" => f.watch_dog = "send_mess"

\* A request is given up some time (MAX_ERRORS).
Answered == f.pc # "idle" ~> f.pc = "idle"
=============================================================================
