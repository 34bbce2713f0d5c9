-------------------------------- MODULE Grid --------------------------------
(***************************************************************************)
(* What the console promises: a screen of characters and a cursor.  Row 0  *)
(* is at the bottom; column LINE_WIDTH means that the line is full.        *)
(***************************************************************************)
EXTENDS Integers

CONSTANTS LINE_WIDTH, SCR_LINES, TAB_SIZE, Glyph, BLANK

VARIABLES cell,   \* for each row and column, what is seen
          x, y,   \* the cursor: column and row
          crmod   \* does a new line begin at its start?

vars == <<cell, x, y, crmod>>

Row == 0 .. SCR_LINES - 1
Col == 0 .. LINE_WIDTH - 1

Init == cell = [r \in Row |-> [c \in Col |-> BLANK]] /\ x = 0 /\ y = 0
        /\ crmod \in BOOLEAN

\* The same character n times, on this line; a line that is full takes no more.
Display(g, n) ==
  /\ x + n <= LINE_WIDTH /\ x' = x + n /\ UNCHANGED y
  /\ cell' = [cell EXCEPT ![y] = [k \in Col |-> IF k >= x /\ k < x + n THEN g ELSE @[k]]]

\* A move off the screen does nothing.
Move(c, r) ==
  /\ IF c \in Col /\ r \in Row THEN x' = c /\ y' = r ELSE UNCHANGED <<x, y>>
  /\ UNCHANGED cell

\* Down a line; at the bottom everything goes up.
LineFeed ==
  /\ x' = IF crmod THEN 0 ELSE x
  /\ IF y > 0 THEN y' = y - 1 /\ UNCHANGED cell
     ELSE /\ cell' = [r \in Row |-> [k \in Col |-> IF r = 0 THEN BLANK ELSE cell[r - 1][k]]]
          /\ UNCHANGED y

Clear ==
  /\ cell' = [r \in Row |-> [k \in Col |-> IF r < y \/ (r = y /\ k >= x) THEN BLANK ELSE cell[r][k]]]
  /\ UNCHANGED <<x, y>>

\* Everything goes down a line; the cursor stays.
Reverse ==
  /\ cell' = [r \in Row |->
               [k \in Col |-> IF r = SCR_LINES - 1 THEN BLANK ELSE cell[r + 1][k]]]
  /\ UNCHANGED <<x, y>>

Next ==
  /\ \/ \E g \in Glyph, n \in 1 .. TAB_SIZE : Display(g, n)
     \/ \E c \in Col, r \in Row : Move(c, r)
     \/ LineFeed \/ Clear \/ Reverse
  /\ UNCHANGED crmod

Spec == Init /\ [][Next]_vars
=============================================================================
