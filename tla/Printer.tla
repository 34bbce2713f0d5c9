------------------------------- MODULE Printer ------------------------------
(***************************************************************************)
(* The printer task with FS before it and the interrupts behind it         *)
(* (kernel/printer.c, and the part of kernel/clock.c that gets a printer   *)
(* going whose interrupt was lost).  What the printer's status register    *)
(* says is chosen freely, and an interrupt may come at any time: the 8259A *)
(* makes some up.                                                          *)
(***************************************************************************)
EXTENDS Integers, FiniteSets

CONSTANTS Proc, None,
          Counts,      \* bound: how many characters are printed at once
          Careful      \* TRUE keeps a disk's interrupt from spoiling a message that is needed

CANCELED == "CANCELED"
OK == "OK"
EIO == "EIO"

VARIABLE pr    \* the task's variables; what it does; the O_DONE message that it has taken and the
               \* one that is pending; whether the clock is in pr_char(); FS; who is suspended
               \* on the printer; the characters printed for the last write, and the last REVIVE

\* An O_DONE is about this write, one that was answered or canceled, or one before this: the
\* code cannot tell them apart, the properties do.
About == {"this", "answered", "canceled", "earlier"}
ODone(status) == [status |-> status, about |-> "this"]

\* Nobody is revived yet.
Nothing == [stray |-> FALSE, mess |-> ODone(EIO), asked |-> 0, printed |-> 0, pcount |-> 0]

TypeOK ==
  /\ pr.pr_busy \in BOOLEAN /\ pr.pcount \in -1 .. pr.orig_count
  /\ pr.proc_nr \in Proc \cup {None, CANCELED}
  /\ pr.task \in {"receive", "done", "reviving", "cancel"}
  /\ {pr.mess, pr.pending} \subseteq [status : {OK, EIO}, about : About] \cup {None}
  /\ pr.fs \in {"main", "busy", "wait"}
  /\ pr.suspended \subseteq Proc /\ pr.restarting \in BOOLEAN /\ pr.moved \in BOOLEAN

Init ==
  pr = [pr_busy |-> FALSE, pcount |-> 0, orig_count |-> 0, proc_nr |-> None, printed |-> 0,
        moved |-> FALSE, restarting |-> FALSE, task |-> "receive", mess |-> None,
        pending |-> None, fs |-> "main", suspended |-> {}, last |-> Nothing]
-----------------------------------------------------------------------------
(* Interrupts.                                                             *)

\* interrupt(): the message, kept when the task does not receive.
interrupt(s, mess) ==
  IF s.task = "receive" THEN [s EXCEPT !.task = "done", !.mess = mess, !.pending = None]
  ELSE [s EXCEPT !.pending = mess]

Ended(s, status) == interrupt(s, ODone(status))

\* A message that is still pending is about something else from now on.
Pending(s, was, about) ==
  IF s.pending # None /\ s.pending.about \in was THEN [s EXCEPT !.pending.about = about] ELSE s

\* n characters go out.
Output(s, n) ==
  [s EXCEPT !.pcount = @ - n, !.printed = @ + n, !.moved = (n > 0 \/ @)]

\* As many characters as the printer takes; then it is busy, or broken, or all is done.
pr_char(s) ==
  IF ~s.pr_busy THEN {s}
  ELSE IF s.pcount <= 0 THEN {Ended(s, IF s.pcount = 0 THEN OK ELSE EIO)}
  ELSE {Ended(Output(s, s.pcount), OK)}
       \cup {Output(s, n) : n \in 0 .. s.pcount - 1}
       \cup {Ended(Output(s, n), EIO) : n \in 0 .. s.pcount - 1}

\* At any time, whatever the task, FS or the clock are doing.
PrinterInterrupt == pr' \in pr_char(pr)

\* The clock's interrupt offers the pending message again.
Offer == pr.pending # None /\ pr.task = "receive" /\ pr' = interrupt(pr, pr.pending)

\* So does a disk's, but first it puts its own type (not CLOCK_TICK, which is the same
\* number as TTY_O_DONE) into int_mess, which all of them share: the task ignores it.
OfferSpoiled ==
  /\ pr.pending # None /\ pr.task = "receive"
  /\ Careful => pr.pending.about # "this"
  /\ pr' = [pr EXCEPT !.pending = None]

\* Mutant: the clock looks at whether something moved the wrong way around.
Hung_moving(s) == s.pr_busy /\ s.pcount > 0 /\ s.moved

Hung(s) == s.pr_busy /\ s.pcount > 0 /\ ~s.moved

\* Every SCHED_RATE ticks the clock task looks for a printer that has stopped.  It calls
\* pr_char() as any interrupt does, but it can be interrupted in it.  A message that waited
\* has been offered by this tick.
ClockLooks ==
  /\ ~pr.restarting /\ (pr.pending = None \/ pr.task # "receive")
  /\ \/ ~Hung(pr) /\ pr.moved /\ pr' = [pr EXCEPT !.moved = FALSE]
     \/ Hung(pr) /\ pr' = [pr EXCEPT !.restarting = TRUE]

\* It has found the printer ready and puts out a character, whatever has happened since.
ClockPrints ==
  /\ pr.restarting
  /\ \E u \in pr_char([Output(pr, 1) EXCEPT !.restarting = FALSE]) :
       pr' = [u EXCEPT !.moved = FALSE]
-----------------------------------------------------------------------------
(* The task and FS.                                                        *)

\* No task is interrupted by another, or by FS.
Uninterrupted == ~pr.restarting

\* FS answers a process that is suspended; a stray REVIVE may end another wait of it.
revive(s) ==
  [s EXCEPT !.suspended = @ \ {s.proc_nr},
            !.last = [stray |-> s.proc_nr \notin s.suspended, mess |-> s.mess,
                      asked |-> s.orig_count, printed |-> s.printed, pcount |-> s.pcount]]

Idle(s) ==
  [Pending(s, {"this"}, "answered") EXCEPT !.task = "receive", !.pr_busy = FALSE, !.mess = None]

\* The task takes TTY_O_DONE; its REVIVE waits while FS is busy.
do_done ==
  /\ pr.task = "done" /\ Uninterrupted
  /\ pr' = IF pr.proc_nr = CANCELED THEN Idle(pr)
           ELSE IF pr.fs # "busy" THEN Idle(revive(pr))
           ELSE [pr EXCEPT !.task = "reviving"]

do_revive ==
  /\ pr.task = "reviving" /\ Uninterrupted /\ pr.fs # "busy"
  /\ pr' = Idle(revive(pr))

\* FS calls the task when that waits; otherwise the call is lost, see IPC.
CanCall == Uninterrupted /\ pr.fs = "main" /\ pr.task = "receive"

\* Interrupts are off until the task waits again, so that its first characters and its
\* reply are one step.  EAGAIN and EINVAL change nothing.
do_write ==
  \E proc \in Proc \ pr.suspended, n \in Counts :
    LET s == [Pending(pr, About, "earlier") EXCEPT
                !.proc_nr = proc, !.pcount = n, !.orig_count = n, !.printed = 0]
    IN  /\ CanCall /\ ~pr.pr_busy
        /\ \/ pr' = s                                   \* EIO, or EAGAIN as it is busy
           \/ \E u \in pr_char([s EXCEPT !.pr_busy = TRUE, !.task = "write"]) :
                pr' = [u EXCEPT !.task = "receive", !.suspended = @ \cup {proc}]

\* do_unpause(): a process that is suspended gets a signal, or is killed.
Signal ==
  \E proc \in pr.suspended :
    /\ CanCall /\ proc = pr.proc_nr
    /\ pr' = [pr EXCEPT !.fs = "wait", !.task = "cancel"]

\* Mutant: nothing says that the process does not wait any more.
do_cancel_unmarked(s) ==
  IF ~s.pr_busy THEN [s EXCEPT !.task = "receive"]
  ELSE [Pending(s, {"this"}, "canceled") EXCEPT
          !.pr_busy = FALSE, !.pcount = 0, !.task = "receive", !.fs = "main",
          !.suspended = @ \ {s.proc_nr}]

\* No reply when nothing is printed.
do_cancel(s) ==
  IF ~s.pr_busy THEN [s EXCEPT !.task = "receive"]
  ELSE [Pending(s, {"this"}, "canceled") EXCEPT
          !.pr_busy = FALSE, !.pcount = 0, !.proc_nr = CANCELED, !.task = "receive",
          !.fs = "main", !.suspended = @ \ {s.proc_nr}]

Cancel == Uninterrupted /\ pr.task = "cancel" /\ pr' = do_cancel(pr)

FSWorks == Uninterrupted /\ pr.fs = "main" /\ pr' = [pr EXCEPT !.fs = "busy"]

FSDone == Uninterrupted /\ pr.fs = "busy" /\ pr' = [pr EXCEPT !.fs = "main"]

Steps == do_done \/ do_revive \/ Cancel \/ FSDone \/ Offer \/ ClockLooks \/ ClockPrints

Next == Steps \/ OfferSpoiled \/ PrinterInterrupt \/ do_write \/ Signal \/ FSWorks

\* The clock ticks, every task and FS get on, FS takes its messages in the order they came,
\* and a printer does not stay busy for ever.
Spec ==
  /\ Init /\ [][Next]_pr
  /\ WF_pr(do_done) /\ SF_pr(do_revive) /\ WF_pr(Cancel) /\ WF_pr(FSDone) /\ WF_pr(Offer)
  /\ WF_pr(ClockLooks) /\ WF_pr(ClockPrints)
-----------------------------------------------------------------------------
\* "Printing is finished.  Reply to caller (FS)" (do_done()): a REVIVE for the O_DONE of its
\* own write that says that all was printed is true, to the character; but for the one that
\* the clock may add when it has looked at the printer before an interrupt printed the rest.
AllPrinted ==
  pr.last.mess = ODone(OK) =>
    pr.last.printed = pr.last.asked + (IF pr.last.pcount < 0 THEN 1 ELSE 0)

\* The O_DONE of a write ends it once, whatever is left of it when it is canceled: a process that
\* does not wait is revived only by a second O_DONE of an answered write, or an earlier one.
AnsweredOnce == pr.last.stray => pr.last.mess.about \in {"answered", "earlier"}

RightlyRevived == AllPrinted /\ AnsweredOnce

\* The stronger promise, which the code breaks: an O_DONE that comes late ends no other write,
\* and revives nobody.
NoneLate == pr.last.mess.about = "this"

\* A process that is suspended on the printer is the one whose characters are printed, and
\* FS, waiting for CANCEL, gets its answer: the task is busy.
SuspendedIsPrinting ==
  /\ pr.suspended \subseteq {pr.proc_nr} /\ (pr.suspended # {} => pr.pr_busy)
  /\ pr.fs = "wait" <=> pr.task = "cancel"

\* Whatever interrupts are lost, a write comes to an end (do_clocktick(), pr_char()).
Printed == pr.suspended # {} ~> pr.suspended = {}
=============================================================================
