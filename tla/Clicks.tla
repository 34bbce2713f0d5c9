------------------------------- MODULE Clicks -------------------------------
(* Physical memory in clicks, the unit in which MM gives it out.           *)
EXTENDS Integers

CONSTANTS NrClicks,    \* clicks of the machine (tot_mem)
          NrReserved   \* the lowest ones: vectors, kernel, MM, FS, INIT, RAM disk

ASSUME NrClicksAssumption   == NrClicks \in Nat
ASSUME NrReservedAssumption == NrReserved \in 1 .. NrClicks

\* A hole or a block: clicks without a gap.
Piece == [h_base : 0 .. NrClicks - 1, h_len : 1 .. NrClicks]

piece(base, clicks) == [h_base |-> base, h_len |-> clicks]

End(b) == b.h_base + b.h_len

ClicksOf(b) == b.h_base .. End(b) - 1

\* do_brk2() takes the lowest clicks and never frees them.
Reserved == piece(0, NrReserved)
=============================================================================
