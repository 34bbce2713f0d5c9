------------------------------ MODULE MCWaiting -----------------------------
(***************************************************************************)
(* Small instances of those who wait for each other in FS: Pipes, readers  *)
(* and writers of pipes, and Tty, those of a terminal.  Both use the same  *)
(* suspend() and revive(), but never for one process at a time, so that    *)
(* one run takes them one after the other: "on" says which one a behaviour *)
(* is about.                                                               *)
(***************************************************************************)
EXTENDS Pipes

VARIABLES on, t, keys

all == <<on, fs, user, answer, t, keys>>
-----------------------------------------------------------------------------
(* A process that reads the terminal, one that writes and sets modes, a    *)
(* queue of a few characters and the keys that matter.                     *)

Typed(down) ==
  IF down THEN {"s", "q", "d", "ctrl"} ELSE {"s", "lf", "bs", "\\", "kill", "intr", "CTRL"}

Asked(p) == IF p = "reader" THEN {2} ELSE {}
Printed(p) == IF p = "writer" THEN {1} ELSE {}
Chosen(p) == IF p = "writer" THEN {"COOKED", "CBREAK"} ELSE {}

Terminal == INSTANCE Tty WITH
  Proc <- {"reader", "writer"}, None <- "none", TTY_IN_BYTES <- 3, MAX_OVERRUN <- 2,
  Keys <- Typed, Modes <- Chosen, Reads <- Asked, Writes <- Printed, MaxKeys <- 4,
  Careful <- TRUE

\* A shorter queue, and time to fill it.
Full == INSTANCE Tty WITH
  Proc <- {"reader", "writer"}, None <- "none", TTY_IN_BYTES <- 2, MAX_OVERRUN <- 2,
  Keys <- Typed, Modes <- Chosen, Reads <- Asked, Writes <- Printed, MaxKeys <- 6,
  Careful <- TRUE
-----------------------------------------------------------------------------
NoTerminal == on = "pipes" /\ t = "off" /\ keys = 0
NoPipes == on = "terminal" /\ Init

OnPipes(A) == on = "pipes" /\ A /\ UNCHANGED <<on, t, keys>>
OnTerminal(A) == on = "terminal" /\ A /\ UNCHANGED <<on, fs, user, answer>>

InitAll == (Init /\ NoTerminal) \/ (Terminal!Init /\ NoPipes)
NextAll == OnPipes(TidyNext) \/ OnTerminal(Terminal!Next)

System == InitAll /\ [][NextAll]_all

\* Pipes with its faults, and the terminal with the short queue.
AnyPipes == Init /\ NoTerminal /\ [][OnPipes(Next)]_all
ShortQueue == Full!Init /\ NoPipes /\ [][OnTerminal(Full!Next)]_all
-----------------------------------------------------------------------------
\* get_work() never panics: where reviving says so there is somebody to revive.
ReviveFindsSomeone == on = "pipes" => NeverPanics

\* A process is suspended on the terminal exactly as long as TTY has its request or is about
\* to tell FS of its end, and not when what it waits for is in the queue: after every key,
\* line, erasure, interrupt and mode tty_lfct and tty_incount say when to wake it (do_read(),
\* do_charint(), do_cancel(), revive()).
ReadersMinded ==
  on = "terminal" => Terminal!TypeOK /\ Terminal!HangersMatch /\ Terminal!NoReaderForgotten

\* FS waits for TTY exactly while tty_waiting promises it an answer, and only for output
\* that goes on or that was stopped with CTRL-S (do_write(), finish(), do_cancel()).
WriterStopped == on = "terminal" => Terminal!WriterStopped

\* "tty_xon: char used to start output" (tty.c): a CTRL-Q starts the output for which FS
\* waits.
XonStarts == on = "terminal" => Full!XonStarts

\* The queue, its counts and the editing give readers what was typed, in order, once, and
\* lines as a whole (in_char(), chuck(), rd_chars() of tty.c).
LinesOf == INSTANCE Lines WITH
  Proc <- {"reader", "writer"}, Char <- Terminal!Char, Size <- {2},
  LF <- Terminal!LF, MARKER <- Terminal!MARKER, BACKSLASH <- Terminal!BACKSLASH,
  input <- IF on = "terminal" THEN Terminal!Input(t) ELSE <<>>,
  got <- IF on = "terminal" THEN t.got ELSE <<>>,
  cooked <- IF on = "terminal" THEN t.mode = "COOKED" ELSE TRUE

ImplementsLines == LinesOf!Spec
=============================================================================
