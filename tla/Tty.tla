-------------------------------- MODULE Tty ---------------------------------
(***************************************************************************)
(* The terminal task and the file system (kernel/tty.c, fs/device.c and    *)
(* the terminal's part of fs/pipe.c): keys that come at interrupt level,   *)
(* the input queue and line editing, readers that hang, writers that are   *)
(* stopped with CTRL-S, and the REVIVEs and CANCELs between TTY and FS.    *)
(* What is printed is only counted here; Screen says what is seen.         *)
(***************************************************************************)
EXTENDS Integers, Sequences, FiniteSets, SequencesExt, FiniteSetsExt

CONSTANTS Proc, None,      \* processes that use the terminal
          TTY_IN_BYTES, MAX_OVERRUN,
          Keys(_),         \* bound: the scan codes that are typed, TRUE with control down
          Modes(_), Reads(_), Writes(_), \* bounds: the modes that a process sets with
                           \* ioctl(2), and the bytes that it reads or writes
          MaxKeys,         \* bound: keys that are struck or released
          Careful          \* TRUE keeps out the known faults

COOKED == "COOKED"
CBREAK == "CBREAK"
RAW == "RAW"

LF == "lf"
MARKER == "marker"
BACKSLASH == "\\"
Shift == {"CTRL", "ctrl"}      \* the control key goes down, or up
Key == Keys(TRUE) \cup Keys(FALSE)
Char == (Key \ Shift) \cup {MARKER, "xon", "xoff", "eof", "quit", "other", BACKSLASH}

MainLoop == "main"        \* FS waits for any message
BusyElsewhere == "busy"   \* FS works, or waits for another task

Off == "no"               \* TTY is not in console(), or in it for a write or CTRL-Q
ForWrite == "write"
ForXon == "xon"

(* TTY_IN_BYTES > 1, MAX_OVERRUN > 0, and nobody reads no characters.      *)

VARIABLES t,      \* the terminal (tty_struct), TTY (what it does, and whose REVIVE it is
                  \* sending), FS (a process: it waits for TTY on its behalf), who is
                  \* suspended on the terminal, who read last and what
          keys    \* how many keys have been struck or released

vars == <<t, keys>>

Ring == 0 .. TTY_IN_BYTES - 1

TypeOK ==
  /\ t.inhead \in Ring /\ t.intail \in Ring /\ t.incount \in 0 .. TTY_IN_BYTES
  /\ t.lfct \in 0 .. TTY_IN_BYTES /\ \A k \in Ring : t.inqueue[k] \in Char
  /\ t.inhead = (t.intail + t.incount) % TTY_IN_BYTES
  /\ t.inproc \in Proc \cup {None} /\ t.inleft >= 0 /\ t.outleft >= 0
  /\ Len(t.driver_buf) <= MAX_OVERRUN /\ Len(t.copy_buf) <= MAX_OVERRUN
  /\ t.printing \in {Off, ForWrite, ForXon}
  /\ t.fs \in {MainLoop, BusyElsewhere} \cup Proc /\ t.suspended \subseteq Proc
  /\ t.sending \in Proc \cup {None} /\ keys \in 0 .. MaxKeys

Init ==
  /\ keys = 0
  /\ t = [inqueue |-> [k \in Ring |-> "other"], inhead |-> 0, intail |-> 0, incount |-> 0,
          lfct |-> 0, mode |-> COOKED, escaped |-> FALSE, inhibited |-> FALSE, control |-> FALSE,
          inproc |-> None, inleft |-> 0, bad |-> FALSE, outleft |-> 0,
          waiting |-> FALSE, driver_buf |-> <<>>, copy_buf |-> <<>>, printing |-> Off,
          sending |-> None, fs |-> MainLoop, suspended |-> {}, got |-> <<>>]

\* The places of the queue that hold a character; what is left in others is never read again,
\* and not kept.
InUse(s) == {(s.intail + k) % TTY_IN_BYTES : k \in 0 .. s.incount - 1}

Does(new) ==
  /\ t' = [new EXCEPT !.inqueue = [k \in Ring |-> IF k \in InUse(new) THEN @[k] ELSE "other"]]
  /\ UNCHANGED keys

\* The queue from tail to head.
Input(s) == [k \in 1 .. s.incount |-> s.inqueue[(s.intail + k - 1) % TTY_IN_BYTES]]

\* When TTY has nothing to do it receives.
Receives(s) == s.copy_buf = <<>> /\ s.printing = Off /\ s.sending = None
-----------------------------------------------------------------------------
(* The file system's side.                                                 *)

\* p's call is not over.
suspend(s, p) == [s EXCEPT !.suspended = @ \cup {p}]

\* FS takes a message about p from TTY; p's call is over.
revive(s, p) == [s EXCEPT !.suspended = @ \ {p}]

\* A blocking send to FS: at once when FS receives, in the main loop or in rw_dev().
SendRevive(s, p) ==
  IF s.fs = BusyElsewhere THEN [s EXCEPT !.sending = p] ELSE revive(s, p)

\* The answer to the call that FS waits for.
TaskReply(s) == [s EXCEPT !.fs = MainLoop]
-----------------------------------------------------------------------------
(* Input: editing the queue and reading from it.                           *)

Put(s, ch) ==
  [s EXCEPT !.inqueue[s.inhead] = ch, !.inhead = (@ + 1) % TTY_IN_BYTES, !.incount = @ + 1]

\* The last character, if there is one and it does not end a line.
Chuckable(s) == s.incount > 0 /\ s.inqueue[(s.inhead - 1) % TTY_IN_BYTES] # LF

chuck(s) ==
  IF Chuckable(s) THEN [s EXCEPT !.inhead = (@ - 1) % TTY_IN_BYTES, !.incount = @ - 1] ELSE s

LineEnds(s) == {k \in 1 .. s.incount : Input(s)[k] = LF}

\* chuck() until it fails.
ChuckAll(s) ==
  LET n == s.incount - Max({0} \cup LineEnds(s))
  IN  [s EXCEPT !.inhead = (@ - n) % TTY_IN_BYTES, !.incount = @ - n]

Enough(s) == s.incount > 0 /\ (s.mode = COOKED => s.lfct > 0)

\* Mutant: the line that was read still counts.
rd_chars_uncounted(s) ==
  LET ct == Min({s.inleft, s.incount})
  IN  [s EXCEPT !.intail = (@ + ct) % TTY_IN_BYTES, !.incount = @ - ct, !.inleft = 0,
                !.got = <<s.inproc, SubSeq(Input(s), 1, ct)>>]

\* An address outside the process is found out only now, and the request stays.
rd_chars(s) ==
  LET in   == Input(s)
      all  == Min({s.inleft, s.incount})
      ends == {k \in 1 .. all : in[k] \in {LF, MARKER}}
      ct   == IF s.mode = COOKED /\ ends # {} THEN Min(ends) ELSE all
      eot  == s.mode = COOKED /\ in[ct] = MARKER
  IN  IF s.bad THEN s
      ELSE [s EXCEPT !.intail = (@ + ct) % TTY_IN_BYTES, !.incount = @ - ct, !.inleft = 0,
                     !.lfct = @ - Cardinality({k \in ends : k <= ct}),
                     !.got = <<s.inproc, SubSeq(in, 1, IF eot THEN ct - 1 ELSE ct)>>]

\* Mutant: only a full line is looked for, whatever the mode.
Serve_lines(s) ==
  IF s.inleft > 0 /\ s.lfct > 0 THEN SendRevive(rd_chars(s), s.inproc) ELSE s

\* The end of do_charint()'s loop: can a hanging reader go on?
Serve(s) ==
  IF s.inleft > 0 /\ (s.lfct > 0 \/ (s.mode # COOKED /\ s.incount > 0))
  THEN SendRevive(rd_chars(s), s.inproc) ELSE s

\* Mutant: the writer is forgotten without an answer.
finish_silently(s) == [s EXCEPT !.outleft = 0, !.waiting = FALSE]

finish(s) ==
  LET u == [s EXCEPT !.outleft = 0]
  IN  IF s.waiting THEN [TaskReply(u) EXCEPT !.waiting = FALSE] ELSE u

Discard(s) == [s EXCEPT !.inhead = 0, !.intail = 0, !.incount = 0, !.lfct = 0]

Store(s, ch) ==
  Put([s EXCEPT !.lfct = IF ch \in {LF, MARKER} THEN @ + 1 ELSE @], ch)

\* COOKED and CBREAK: interrupts, and CTRL-S and CTRL-Q.
Special(s, ch) ==
  CASE ch \in {"intr", "quit"} -> Discard(finish([s EXCEPT !.inhibited = FALSE]))
    [] ch = "xoff" -> [s EXCEPT !.inhibited = TRUE]
    [] ch = "xon" -> [s EXCEPT !.inhibited = FALSE, !.printing = ForXon]
    [] OTHER -> Store(s, ch)

\* COOKED: erase and kill unless a backslash comes before, and end of file.
Cooked(s, ch) ==
  LET u == [s EXCEPT !.escaped = FALSE]
  IN  CASE s.escaped /\ ch \in {"bs", "kill", "eof"} -> Special(u, ch)
        [] s.escaped -> Special(Put(u, BACKSLASH), ch)
        [] ch = "bs" -> chuck(s)
        [] ch = "kill" -> ChuckAll(s)
        [] ch = BACKSLASH -> [s EXCEPT !.escaped = TRUE]
        [] ch = "eof" -> Special(s, MARKER)
        [] OTHER -> Special(s, ch)

make_break(key, control) ==
  CASE ~control -> key
    [] key = "s" -> "xoff"
    [] key = "q" -> "xon"
    [] key = "d" -> "eof"
    [] key = BACKSLASH -> "quit"
    [] key \in {LF, "bs"} -> key
    [] OTHER -> "other"

\* A full queue takes no key, not even the release of the control key.
in_char(s, key) ==
  IF s.incount >= TTY_IN_BYTES THEN s
  ELSE IF key \in Shift THEN [s EXCEPT !.control = (key = "CTRL")]
  ELSE LET ch == make_break(key, s.control)
       IN  CASE s.mode = RAW -> Store(s, ch)
             [] s.mode = CBREAK -> Special(s, ch)
             [] s.mode = COOKED -> Cooked(s, ch)

\* An erased end of file goes on counting as a line, and an escaped character
\* takes two places where one was looked for.
Faulty(s, key) ==
  LET ch   == make_break(key, s.control)
      last == {k \in 1 .. s.incount : Input(s)[k] = MARKER}
  IN  /\ s.mode = COOKED /\ s.incount < TTY_IN_BYTES /\ key \notin Shift
      /\ \/ ~s.escaped /\ ch = "bs" /\ s.incount \in last
         \/ ~s.escaped /\ ch = "kill" /\ last # {} /\ Max({0} \cup LineEnds(s)) < Max(last)
         \/ s.escaped /\ s.incount = TTY_IN_BYTES - 1
-----------------------------------------------------------------------------
(* Interrupts and the terminal task.                                       *)

\* CTRL-S stops at once, if the control key has been seen; other keys wait in the driver.
keyboard(key) ==
  /\ keys < MaxKeys /\ keys' = keys + 1
  /\ IF t.mode # RAW /\ t.control /\ key = "s" THEN t' = [t EXCEPT !.inhibited = TRUE]
     ELSE IF Len(t.driver_buf) < MAX_OVERRUN THEN t' = [t EXCEPT !.driver_buf = Append(@, key)]
     ELSE UNCHANGED t

do_charint ==
  /\ Receives(t) /\ t.driver_buf # <<>>
  /\ Does([t EXCEPT !.copy_buf = t.driver_buf, !.driver_buf = <<>>])

NextChar ==
  LET key == Head(t.copy_buf)
      u   == in_char([t EXCEPT !.copy_buf = Tail(@)], key)
  IN  /\ t.copy_buf # <<>> /\ t.printing = Off /\ t.sending = None
      /\ ~(Careful /\ Faulty(t, key))
      /\ Does(IF u.printing = Off THEN Serve(u) ELSE u)

\* A character in console()'s loop.
OutChar ==
  /\ t.printing # Off /\ t.outleft > 0 /\ ~t.inhibited
  /\ Does([t EXCEPT !.outleft = @ - 1])

\* Its end; after CTRL-Q do_charint() goes on.
Flushed ==
  LET u == [t EXCEPT !.printing = Off]
      v == IF t.outleft = 0 THEN finish(u) ELSE u
  IN  /\ t.printing # Off /\ (t.outleft = 0 \/ t.inhibited)
      /\ Does(IF t.printing = ForXon THEN Serve(v) ELSE v)
-----------------------------------------------------------------------------
(* System calls.  While TTY waits to send a REVIVE FS does not call it: a  *)
(* request would be lost, see IPC.                                         *)

CanCall(p) == t.fs = MainLoop /\ Receives(t) /\ p \notin t.suspended

do_read(p) ==
  \E n \in Reads(p), bad \in IF Careful THEN {FALSE} ELSE BOOLEAN :
    LET s == [t EXCEPT !.inproc = p, !.inleft = n, !.bad = bad]
    IN  /\ CanCall(p) /\ t.inleft = 0      \* otherwise E_TRY_AGAIN
        /\ Does(IF Enough(s) THEN rd_chars(s) ELSE suspend(s, p))

\* With no bytes: an address outside the process.
do_write(p) ==
  \E n \in Writes(p) :
    /\ CanCall(p)
    /\ Does([t EXCEPT !.outleft = n, !.waiting = TRUE, !.printing = ForWrite,
                      !.fs = p])

\* A reader that the new mode could satisfy goes on waiting.
do_ioctl(p) ==
  \E mode \in Modes(p) :
    /\ CanCall(p)
    /\ Careful => t.inleft = 0 \/ t.incount = 0 \/ mode = COOKED
    /\ Does([t EXCEPT !.mode = mode])

\* A reply only if someone hangs.
do_cancel(s) ==
  IF s.inleft = 0 /\ s.outleft = 0 THEN s
  ELSE TaskReply([Discard(s) EXCEPT !.inleft = 0, !.outleft = 0, !.waiting = FALSE,
                                    !.inhibited = FALSE])

\* A signal for a process that hangs, or its end.
do_unpause(p) ==
  LET u == do_cancel([t EXCEPT !.fs = p])
  IN  /\ t.fs = MainLoop /\ Receives(t) /\ p \in t.suspended
      /\ Does(IF u.fs = MainLoop THEN revive(u, p) ELSE u)

\* FS works for others, and comes back for its messages.
FSWorks == t.fs = MainLoop /\ Does([t EXCEPT !.fs = BusyElsewhere])

FSDone == t.fs = BusyElsewhere /\ Does([t EXCEPT !.fs = MainLoop])

do_revive ==
  /\ t.fs = MainLoop /\ t.sending # None
  /\ Does([revive(t, t.sending) EXCEPT !.sending = None])

Next ==
  \/ \E key \in Keys(t.control) : keyboard(key)
  \/ do_charint \/ NextChar \/ OutChar \/ Flushed
  \/ \E p \in Proc : do_read(p) \/ do_write(p) \/ do_ioctl(p) \/ do_unpause(p)
  \/ FSWorks \/ FSDone \/ do_revive

Spec == Init /\ [][Next]_vars
-----------------------------------------------------------------------------
(* Properties.                                                             *)

\* A process is suspended on the terminal exactly as long as TTY has its request or is
\* about to tell FS of its end (do_read(), do_charint(), do_cancel(), revive()).
HangersMatch ==
  \A p \in Proc :
    p \in t.suspended <=> (t.inleft > 0 /\ t.inproc = p) \/ t.sending = p

\* No reader hangs when what it waits for is in the queue: after every key, line, erasure,
\* interrupt and change of mode tty_lfct and tty_incount say when to wake it.
NoReaderForgotten ==
  t.inleft > 0 =>
    Input(t) = <<>> \/ (t.mode = COOKED /\ \A k \in 1 .. t.incount : Input(t)[k] \notin {LF, MARKER})

\* FS waits for TTY exactly while tty_waiting promises it an answer, and only for output
\* that goes on or that was stopped with CTRL-S.
WriterStopped ==
  /\ t.fs \in Proc <=> t.waiting
  /\ t.waiting => t.printing # Off \/ (t.outleft > 0 /\ t.inhibited)

LinesOf == INSTANCE Lines WITH
  input <- Input(t), got <- t.got, cooked <- (t.mode = COOKED), Size <- UNION {Reads(p) : p \in Proc}

\* The queue, its counts and the editing give readers what was typed, in order, once, and
\* lines as a whole.
ImplementsLines == LinesOf!Spec

\* "tty_xon: char used to start output": a CTRL-Q starts the output for which FS waits.
XonStarts ==
  t.fs \in Proc /\ Receives(t) => in_char([t EXCEPT !.control = TRUE], "q").printing = ForXon
=============================================================================
