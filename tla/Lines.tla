------------------------------- MODULE Lines --------------------------------
(***************************************************************************)
(* What the input of a terminal promises: what is typed is read in order   *)
(* and once, in COOKED mode a line at a time, and erasing reaches back to  *)
(* the start of the line.                                                  *)
(***************************************************************************)
EXTENDS Integers, Sequences, SequencesExt, FiniteSetsExt

CONSTANTS Proc, Char,      \* who reads; what can be typed
          Size,            \* how much is read at once
          LF, MARKER, BACKSLASH

VARIABLES input,   \* what was typed and not read yet
          got,     \* who read last and what
          cooked   \* TRUE when lines are read

vars == <<input, got, cooked>>

Init == input = <<>> /\ got = <<>> /\ cooked = TRUE

Ends == {LF, MARKER}

\* What a key may make of the input.
Typed(in, c) == Append(in, c)
Escaped(in, c) == in \o <<BACKSLASH, c>>
Erased(in) == IF in = <<>> \/ Last(in) = LF THEN in ELSE Front(in)
Killed(in) == SubSeq(in, 1, Max({0} \cup {k \in 1 .. Len(in) : in[k] = LF}))

Edits(in) ==
  {in, Erased(in), Killed(in), <<>>} \cup {Typed(in, c) : c \in Char} \cup {Escaped(in, c) : c \in Char}

\* At most n characters, of a line if there are lines; its MARKER is not passed on.
Taken(in, n) ==
  LET all  == Min({n, Len(in)})
      ends == {k \in 1 .. all : in[k] \in Ends}
  IN  IF cooked /\ ends # {} THEN Min(ends) ELSE all

Passed(in, k) == SubSeq(in, 1, IF cooked /\ in[k] = MARKER THEN k - 1 ELSE k)

Edit == UNCHANGED <<got, cooked>> /\ (UNCHANGED input \/ input' \in Edits(input))

\* A reader that waits gets its characters with the key that completes them.
Read ==
  /\ UNCHANGED cooked
  /\ \E mid \in Edits(input), p \in Proc, n \in Size :
       /\ mid # <<>> /\ (cooked => \E k \in 1 .. Len(mid) : mid[k] \in Ends)
       /\ input' = SubSeq(mid, Taken(mid, n) + 1, Len(mid))
       /\ got' = <<p, Passed(mid, Taken(mid, n))>>

SetMode == cooked' \in BOOLEAN /\ UNCHANGED <<input, got>>

Next == SetMode \/ Edit \/ Read

Spec == Init /\ [][Next]_vars
=============================================================================
