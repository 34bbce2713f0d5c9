------------------------------ MODULE HoleSet -------------------------------
(***************************************************************************)
(* The hole list of mm/alloc.c without its pointers: a set of holes, first *)
(* fit by address, and merging with the neighbours when a block is freed.  *)
(* It implements Memory, and the pointers of Holes implement it.           *)
(***************************************************************************)
EXTENDS Clicks

VARIABLES holes,    \* the holes
          blocks,   \* the pieces that are given out
          result    \* the answer to the last request: "OK" or "NO_MEM"

vars == <<holes, blocks, result>>

TypeOK ==
  /\ holes \subseteq Piece
  /\ blocks \subseteq Piece
  /\ result \in {"OK", "NO_MEM"}

Init ==
  /\ holes = IF NrReserved = NrClicks THEN {} ELSE {piece(NrReserved, NrClicks - NrReserved)}
  /\ blocks = {Reserved}
  /\ result = "OK"

Fits(hs, n) == {h \in hs : h.h_len >= n}

\* The first hole of the list that is big enough.
IsFirstFit(hs, n, h) == h \in Fits(hs, n) /\ \A g \in Fits(hs, n) : h.h_base <= g.h_base

\* alloc_mem() bites the lower end off.
Bite(hs, n, h) ==
  (hs \ {h}) \cup (IF h.h_len = n THEN {} ELSE {piece(h.h_base + n, h.h_len - n)})

\* The holes that merge() joins with the block b: at most one on either side.
Touching(hs, b) == {h \in hs : End(h) = b.h_base \/ h.h_base = End(b)}

Joined(hs, b) ==
  LET base == IF \E h \in hs : End(h) = b.h_base
              THEN (CHOOSE h \in hs : End(h) = b.h_base).h_base ELSE b.h_base
      end  == IF \E h \in hs : h.h_base = End(b)
              THEN End(CHOOSE h \in hs : h.h_base = End(b)) ELSE End(b)
  IN  piece(base, end - base)

free_mem(hs, b) == (hs \ Touching(hs, b)) \cup {Joined(hs, b)}

Give(hs, others, n) ==
  \E h \in hs :
    /\ IsFirstFit(hs, n, h)
    /\ holes' = Bite(hs, n, h)
    /\ blocks' = others \cup {piece(h.h_base, n)}
    /\ result' = "OK"

Grant(n) == Give(holes, blocks, n)

Refuse(n) ==
  /\ Fits(holes, n) = {}
  /\ result' = "NO_MEM"
  /\ UNCHANGED <<holes, blocks>>

Release(b) ==
  /\ holes' = free_mem(holes, b)
  /\ blocks' = blocks \ {b}
  /\ result' = "OK"

\* new_mem(): max_hole() first, then free_mem(), then alloc_mem().
Exchange(b, n) ==
  /\ Fits(holes, n) # {}
  /\ Give(free_mem(holes, b), blocks \ {b}, n)

Next ==
  \/ \E n \in 1 .. NrClicks : Grant(n) \/ Refuse(n)
  \/ \E b \in blocks \ {Reserved} :
       Release(b) \/ \E n \in 1 .. NrClicks : Exchange(b, n)

Spec == Init /\ [][Next]_vars
-----------------------------------------------------------------------------
(* Properties.                                                             *)

\* Between two holes of the list there is at least one click in use.
Separated(hs) == \A g, h \in hs : g # h => End(g) < h.h_base \/ End(h) < g.h_base

Apart(b, c) == End(b) <= c.h_base \/ End(c) <= b.h_base

\* The clicks that a set of pieces covers.
Covered(bs) == UNION {ClicksOf(b) : b \in bs}

\* Holes are merged: whatever the order of requests and releases, no two holes
\* touch or overlap.  First fit depends on it: a request for more than one of two
\* touching holes has would be refused.
HolesSeparated == Separated(holes)

\* No click is given out twice, and none is both free and given out.
BlocksApart ==
  /\ \A b, c \in blocks : b # c => Apart(b, c)
  /\ \A b \in blocks, h \in holes : Apart(b, h)

\* alloc_mem() and free_mem() lose no click: each is in a hole or a block.
NoClickLost == Covered(holes \cup blocks) = 0 .. NrClicks - 1

\* new_mem() relies on it: when a hole is big enough before the old image is
\* released, alloc_mem() finds a first fit afterwards.
ExchangeSucceeds ==
  \A b \in blocks \ {Reserved}, n \in 1 .. NrClicks :
    Fits(holes, n) # {} =>
      \E h \in free_mem(holes, b) : IsFirstFit(free_mem(holes, b), n, h)

\* The clicks that the holes cover are what Memory calls free.
M == INSTANCE Memory WITH free <- Covered(holes)
ImplementsMemory == M!Spec
=============================================================================
