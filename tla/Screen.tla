------------------------------- MODULE Screen -------------------------------
(***************************************************************************)
(* The console's output (kernel/tty.c from console() on, and vid_copy() in *)
(* klib88.asm): characters wait in tty_ramqueue[] and are copied to a      *)
(* video RAM that is larger than the screen and wraps around; scrolling    *)
(* moves the screen's origin in it.  Addresses count words, not bytes.     *)
(***************************************************************************)
EXTENDS Integers, Sequences, FiniteSets, FiniteSetsExt

CONSTANTS LINE_WIDTH, SCR_LINES, VidWords,    \* the screen; words of video RAM
          TTY_RAM_WORDS, vid_retrace,         \* words held back; words blanked at once
          TAB_SIZE,
          Codes, Pens,                        \* bound: characters and attributes on the screen
          Modes,                              \* bound: CRMOD in the terminal's mode, or not
          XTABS,                              \* the same for XTABS
          Chars(_),                           \* bound: what is printed after an ESC, or not
          MaxChars,                           \* bound: characters that are printed
          Careful                             \* TRUE keeps out the known faults

VARIABLES v,       \* the output section of tty_struct, the video RAM and the 6845
          printed  \* how many characters have been printed

vars == <<v, printed>>

Addr == 0 .. VidWords - 1
\* Characters are their codes.
BEL == 7  BS == 8  HT == 9  LF == 10  VT == 11  FF == 12  CR == 13  SO == 14  ESC == 27
SPACE == 32  TILDE == 126  LETTER_Z == 122  DIGIT_0 == 48  DIGIT_1 == 49

Shown == [glyph : Codes, pen : Pens]
BLANK == [glyph |-> 0, pen |-> 7]

Normal == <<>>             \* tty_esc_state, with what came after ESC
EscSeen == <<ESC>>

Min2(a, b) == IF a < b THEN a ELSE b

TypeOK ==
  /\ v.rwords \in Seq(Shown) /\ Len(v.rwords) <= TTY_RAM_WORDS
  /\ v.column \in 0 .. LINE_WIDTH /\ v.row \in 0 .. SCR_LINES - 1
  /\ v.org \in Addr /\ v.vid \in 0 .. 2 * VidWords /\ v.vid_org = v.org
  /\ v.esc = Normal \/ v.esc[1] = ESC
  /\ \A a \in Addr : v.ram[a] \in Shown \cup {BLANK}
  /\ v.pen \in Pens /\ v.crmod \in Modes /\ printed \in 0 .. MaxChars
-----------------------------------------------------------------------------
(* The video RAM.                                                          *)

\* Mutant: the copy runs off the end of the video RAM.
vid_copy_straight(ram, words, at) ==
  [a \in Addr |-> LET k == a - (at % VidWords) + 1 IN IF k \in 1 .. Len(words) THEN words[k] ELSE ram[a]]

\* words from address at on, wrapping around.
vid_copy(ram, words, at) ==
  [a \in Addr |->
     LET k == ((a - at) % VidWords) + 1
     IN  IF k <= Len(words) THEN words[k] ELSE ram[a]]

Blanks(n) == [k \in 1 .. n |-> BLANK]

\* The 6845's cursor register follows tty_vid and is not modelled.
flush(s) ==
  [s EXCEPT !.ram = vid_copy(@, s.rwords, s.vid), !.vid = @ + Len(s.rwords), !.rwords = <<>>]

Place(s, c, r) == s.org + (SCR_LINES - 1 - r) * LINE_WIDTH + c

move_to(s, c, r) ==
  LET u == flush(s)
  IN  IF c \notin 0 .. LINE_WIDTH - 1 \/ r \notin 0 .. SCR_LINES - 1 THEN u
      ELSE [u EXCEPT !.column = c, !.row = r, !.vid = Place(u, c, r)]

\* The origin moves; the line that comes into sight is blanked.  Forward: +1, back: -1.
scroll_screen(s, dir) ==
  LET org  == (s.org + dir * LINE_WIDTH) % VidWords
      line == IF dir = 1 THEN org + (SCR_LINES - 1) * LINE_WIDTH ELSE org
  IN  [s EXCEPT !.org = org, !.vid_org = org, !.ram = vid_copy(@, Blanks(LINE_WIDTH), line)]

\* From the cursor to the end, vid_retrace words at a time.
ClearBelow(s) ==
  LET n == LINE_WIDTH * (s.row + 1) - s.column
      f[k \in Nat] == IF k = 0 THEN s.ram
        ELSE vid_copy(f[k - 1], Blanks(Min2(vid_retrace, n - (k - 1) * vid_retrace)),
                      s.vid + (k - 1) * vid_retrace)
  IN  [s EXCEPT !.ram = f[(n + vid_retrace - 1) \div vid_retrace]]
-----------------------------------------------------------------------------
(* Characters.                                                             *)

\* A character and its attribute; a line that is full takes no more.
Printable(s, g) ==
  LET u == IF Len(s.rwords) = TTY_RAM_WORDS THEN flush(s) ELSE s
  IN  IF s.column >= LINE_WIDTH THEN s
      ELSE [u EXCEPT !.rwords = Append(@, [glyph |-> g, pen |-> u.pen]), !.column = @ + 1]

LineFeed(s) ==
  LET u == IF s.crmod THEN move_to(s, 0, s.row) ELSE s
      w == IF u.row = 0 THEN scroll_screen(u, 1) ELSE [u EXCEPT !.row = @ - 1]
  IN  move_to(w, w.column, w.row)

\* Spaces up to a multiple of TAB_SIZE.
Tab(s) ==
  LET n == Min2(TAB_SIZE - (s.column % TAB_SIZE), LINE_WIDTH - s.column)
      f[k \in 0 .. TAB_SIZE] == IF k = 0 THEN s ELSE Printable(f[k - 1], SPACE)
  IN  IF XTABS THEN f[n] ELSE s

\* ESC a b: an attribute, what follows a tilde, or a move to column a and row b.
escape(s, a, b) ==
  CASE a = LETTER_Z -> [s EXCEPT !.pen = b]
    [] a = TILDE /\ b = DIGIT_0 -> ClearBelow(s)
    [] a = TILDE /\ b = DIGIT_1 -> scroll_screen(s, -1)
    [] a = TILDE -> s
    [] OTHER -> move_to(s, a - SPACE, b - SPACE)

out_char(s, c) ==
  CASE s.esc = EscSeen -> [s EXCEPT !.esc = <<ESC, c>>]
    [] Len(s.esc) = 2 -> [escape(s, s.esc[2], c) EXCEPT !.esc = Normal]
    [] s.esc = Normal /\ c >= SPACE -> Printable(s, c)
    [] s.esc = Normal /\ c = BEL -> flush(s)
    [] s.esc = Normal /\ c = VT -> move_to(s, s.column, s.row + 1)
    [] s.esc = Normal /\ c \in {FF, SO} -> move_to(s, s.column + 1, s.row)
    [] s.esc = Normal /\ c = BS -> move_to(s, s.column - 1, s.row)
    [] s.esc = Normal /\ c = LF -> LineFeed(s)
    [] s.esc = Normal /\ c = HT -> Tab(s)
    [] s.esc = Normal /\ c = CR -> move_to(s, 0, s.row)
    [] s.esc = Normal /\ c = ESC -> [flush(s) EXCEPT !.esc = EscSeen]

\* The next character goes where the cursor is said to be.
InPlace(s) == (s.vid + Len(s.rwords) - Place(s, s.column, s.row)) % VidWords = 0

\* Writes to the screen at tty_vid, which a reverse scroll and a line feed on a full
\* line leave behind.
Writes(s, c) ==
  \/ s.esc = Normal /\ (c >= SPACE \/ c = HT) /\ s.column < LINE_WIDTH
  \/ s.esc = <<ESC, TILDE>> /\ c = DIGIT_0

\* tty_init().
Init ==
  /\ printed = 0
  /\ \E crmod \in Modes :
       v = move_to([crmod |-> crmod, rwords |-> <<>>, column |-> 0, row |-> 0, org |-> 0,
                    vid_org |-> 0, vid |-> 0, esc |-> Normal,
                    pen |-> CHOOSE pen \in Pens : TRUE, ram |-> [a \in Addr |-> BLANK]], 0, 0)

\* A character of a process, of echo() or of the kernel's putc().
Display ==
  \E c \in Chars(v.esc) :
    /\ printed < MaxChars /\ printed' = printed + 1
    /\ Careful => InPlace(v) \/ ~Writes(v, c)
    /\ v' = out_char(v, c)

\* The end of console() or echo().
Flush == v.rwords # <<>> /\ v' = flush(v) /\ UNCHANGED printed

Next == Display \/ Flush

Spec == Init /\ [][Next]_vars
-----------------------------------------------------------------------------
\* What the 6845 shows of the video RAM, with the words that are still held back.
Seen ==
  LET ram == vid_copy(v.ram, v.rwords, v.vid)
  IN  [r \in 0 .. SCR_LINES - 1 |-> [c \in 0 .. LINE_WIDTH - 1 |->
         ram[(v.vid_org + (SCR_LINES - 1 - r) * LINE_WIDTH + c) % VidWords]]]
=============================================================================
