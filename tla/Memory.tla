------------------------------- MODULE Memory -------------------------------
(***************************************************************************)
(* What mm/alloc.c promises to the rest of MM: memory is a set of free     *)
(* clicks.  A request is granted exactly when so many free clicks lie in a *)
(* row, and a process that changes its core image never loses the old one  *)
(* without getting the new one.                                            *)
(***************************************************************************)
EXTENDS Clicks

VARIABLES free,     \* the free clicks
          blocks,   \* the pieces that are given out
          result    \* the answer to the last request: "OK" or "NO_MEM"

vars == <<free, blocks, result>>

Rows(clicks, n) == {b \in Piece : b.h_len = n /\ ClicksOf(b) \subseteq clicks}

Init ==
  /\ free = NrReserved .. NrClicks - 1
  /\ blocks = {Reserved}
  /\ result = "OK"

Give(clicks, others, n) ==
  \E b \in Rows(clicks, n) :
    /\ free' = clicks \ ClicksOf(b)
    /\ blocks' = others \cup {b}
    /\ result' = "OK"

Grant(n) == Give(free, blocks, n)

Refuse(n) ==
  /\ Rows(free, n) = {}
  /\ result' = "NO_MEM"
  /\ UNCHANGED <<free, blocks>>

Release(b) ==
  /\ free' = free \cup ClicksOf(b)
  /\ blocks' = blocks \ {b}
  /\ result' = "OK"

\* The old block may be part of the new one.
Exchange(b, n) ==
  /\ Rows(free, n) # {}
  /\ Give(free \cup ClicksOf(b), blocks \ {b}, n)

Next ==
  \/ \E n \in 1 .. NrClicks : Grant(n) \/ Refuse(n)
  \/ \E b \in blocks \ {Reserved} :
       Release(b) \/ \E n \in 1 .. NrClicks : Exchange(b, n)

Spec == Init /\ [][Next]_vars
=============================================================================
