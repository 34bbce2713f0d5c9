------------------------------ MODULE MCDevices ------------------------------
(***************************************************************************)
(* Small instances of the device tasks.  They share no state, so that one  *)
(* run takes them one after the other: "on" says which one it is about.    *)
(* The clock task is Clock with the constants of the configuration.        *)
(***************************************************************************)
EXTENDS Clock

CONSTANTS p1, p2, None

VARIABLES on, v, printed, f, w, pr

vars == <<on, v, printed, f, w, pr, c>>
Off == "off"
-----------------------------------------------------------------------------
\* What is typed on the console: each control character, and each kind of escape sequence.
After(esc) ==
  CASE esc = <<>> -> {97, 10, 13, 8, 12, 11, 9, 7, 27}
    [] esc = <<27>> -> {126, 122, 33}
    [] OTHER -> IF esc[2] = 122 THEN {7, 112} ELSE {48, 49, 32, 33}

Console == INSTANCE Screen WITH
  LINE_WIDTH <- 3, SCR_LINES <- 2, VidWords <- 8, TTY_RAM_WORDS <- 2, vid_retrace <- 2,
  TAB_SIZE <- 3, Codes <- {32, 97}, Pens <- {7, 112}, Modes <- BOOLEAN, XTABS <- TRUE,
  Chars <- After, MaxChars <- 6, Careful <- TRUE

\* Two drives, diskettes of 360K and 1.2M, a block that both have and one that only the
\* larger one has.
Diskettes == INSTANCE Floppy WITH
  Drive <- {0, 1}, Blocks <- {1, 800}, Kinds <- {0, 3}, MAX_ERRORS <- 8

\* Partitions with odd starts, out of order, with holes between them.
P(low, size) == [low |-> low, size |-> size]
Tables == {<<P(0, 0), P(3, 4), P(2, 4), P(0, 0)>>, <<P(6, 4), P(1, 5), P(0, 0), P(8, 0)>>}

Winchester == INSTANCE Wini WITH
  NR_DRIVES <- 2, Heads <- 2, MaxSec <- 3, Cylinders <- 2, MAX_ERRORS <- 2,
  Tables <- Tables, Blocks <- {0, 1}

Lpr == INSTANCE Printer WITH
  Proc <- {p1, p2}, Counts <- {1, 3}, Careful <- TRUE
-----------------------------------------------------------------------------
InitAll ==
  \/ on = "console" /\ Console!Init /\ f = Off /\ w = Off /\ pr = Off /\ Init
  \/ on = "floppy" /\ Diskettes!Init /\ v = Off /\ printed = 0 /\ w = Off /\ pr = Off /\ Init
  \/ on = "winchester" /\ Winchester!Init /\ v = Off /\ printed = 0 /\ f = Off /\ pr = Off /\ Init
  \/ on = "printer" /\ Lpr!Init /\ v = Off /\ printed = 0 /\ f = Off /\ w = Off /\ Init
  \/ on = "clock" /\ Init /\ v = Off /\ printed = 0 /\ f = Off /\ w = Off /\ pr = Off

NextAll ==
  \/ on = "console" /\ Console!Next /\ UNCHANGED <<on, f, w, pr, c>>
  \/ on = "floppy" /\ Diskettes!Next /\ UNCHANGED <<on, v, printed, w, pr, c>>
  \/ on = "winchester" /\ Winchester!Next /\ UNCHANGED <<on, v, printed, f, pr, c>>
  \/ on = "printer" /\ Lpr!Next /\ UNCHANGED <<on, v, printed, f, w, c>>
  \/ on = "clock" /\ Next /\ UNCHANGED <<on, v, printed, f, w, pr>>

OfFloppy(A) == on = "floppy" /\ A /\ UNCHANGED <<on, v, printed, w, pr, c>>
OfWinchester(A) == on = "winchester" /\ A /\ UNCHANGED <<on, v, printed, f, pr, c>>
OfPrinter(A) == on = "printer" /\ A /\ UNCHANGED <<on, v, printed, f, w, c>>

\* The fairness of the modules.
SpecAll ==
  /\ InitAll /\ [][NextAll]_vars
  /\ WF_vars(OfFloppy(Diskettes!Steps)) /\ WF_vars(OfWinchester(Winchester!Steps))
  /\ WF_vars(OfPrinter(Lpr!do_done)) /\ SF_vars(OfPrinter(Lpr!do_revive))
  /\ WF_vars(OfPrinter(Lpr!Cancel)) /\ WF_vars(OfPrinter(Lpr!FSDone))
  /\ WF_vars(OfPrinter(Lpr!Offer)) /\ WF_vars(OfPrinter(Lpr!ClockLooks))
  /\ WF_vars(OfPrinter(Lpr!ClockPrints))
-----------------------------------------------------------------------------
\* What the user sees: the console against Grid.
Blank == [glyph |-> 0, pen |-> 7]
GridOf == INSTANCE Grid WITH
  LINE_WIDTH <- 3, SCR_LINES <- 2, TAB_SIZE <- 3, Glyph <- Console!Shown, BLANK <- Blank,
  cell <- IF on = "console" THEN Console!Seen ELSE [r \in 0 .. 1 |-> [k \in 0 .. 2 |-> Blank]],
  x <- IF on = "console" THEN v.column ELSE 0, y <- IF on = "console" THEN v.row ELSE 0,
  crmod <- IF on = "console" THEN v.crmod ELSE TRUE

\* tty_org, tty_vid, tty_ramqueue[] and the wrapping video RAM together are a screen: every
\* character lands under the cursor, and no line comes into sight with old text.
ImplementsGrid == GridOf!Spec

\* A diskette's block that is reported as done is the one that was asked for, if the request
\* began with the diskette's density, whatever densities were tried meanwhile; and the density
\* that worked is the one the next request begins with (do_rdwt(), transfer() of floppy.c).
\* The sectors that are moved on a disk whose drive was specified are the ones asked for and
\* lie in the partition that the device is, whatever failed before (copy_prt(), sort(),
\* w_do_rdwt() of wini.c).  The two conditions except known faults.  The console's characters stay in tty_ramqueue[] and in the
\* video RAM (out_char(), flush() of tty.c).
RightPlace ==
  /\ on = "console" => Console!TypeOK
  /\ on = "floppy" => Diskettes!TypeOK /\ Diskettes!RightBlock
  /\ on = "winchester" => Winchester!TypeOK /\ Winchester!RightSectors

\* A drive is used only while its motor turns, although an earlier request's watch dog may
\* go off at any time, and every motor that turns will be stopped (start_motor(),
\* stop_motor()).
MotorsMinded == on = "floppy" => Diskettes!MotorTurns /\ Diskettes!WatchDogSet

\* An O_DONE ends the write it is about once, also when that is canceled meanwhile, and its
\* "all printed" is true; whoever is suspended on the printer is printed for.  Interrupts are
\* lost, made up, or come in the middle of a CANCEL, of FS's answer and of the clock's
\* pr_char() (pr_char(), do_done(), do_cancel()).  The known fault is excepted by what the
\* message is about: an O_DONE of an earlier write, or a second one, may end another write.
RightlyRevived ==
  on = "printer" => Lpr!TypeOK /\ Lpr!RightlyRevived /\ Lpr!SuspendedIsPrinting

\* Every request is answered some time: a diskette or a disk that does not work is given up,
\* and a write to a printer whose interrupts are lost ends (MAX_ERRORS, do_clocktick()).
Answered ==
  /\ (on = "floppy" /\ f.pc # "idle") ~> (on = "floppy" /\ f.pc = "idle")
  /\ (on = "winchester" /\ w.pc # "idle") ~> (on = "winchester" /\ w.pc = "idle")
  /\ (on = "printer" /\ pr.suspended # {}) ~> (on = "printer" /\ pr.suspended = {})
=============================================================================
