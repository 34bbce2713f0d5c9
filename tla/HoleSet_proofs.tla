--------------------------- MODULE HoleSet_proofs ---------------------------
(***************************************************************************)
(* Theorems about the hole list of MM: holes stay merged, no click is lost *)
(* or given out twice, EXEC finds its memory, and first fit on the list    *)
(* implements the set of free clicks of Memory.                            *)
(***************************************************************************)
EXTENDS HoleSet, WellFoundedInduction, TLAPS

-----------------------------------------------------------------------------
(* Pieces.                                                                 *)

LEMMA PieceFacts ==
  ASSUME NEW b \in Piece
  PROVE  /\ b.h_base \in Nat /\ b.h_len \in Nat /\ b.h_len > 0
         /\ End(b) \in Nat /\ End(b) = b.h_base + b.h_len /\ b.h_base < End(b)
         /\ b = piece(b.h_base, b.h_len)
BY NrClicksAssumption DEF Piece, End, piece

LEMMA NewPiece ==
  ASSUME NEW base \in Nat, NEW end \in Nat, base < end, end <= NrClicks
  PROVE  /\ piece(base, end - base) \in Piece
         /\ piece(base, end - base).h_base = base
         /\ piece(base, end - base).h_len = end - base
         /\ End(piece(base, end - base)) = end
BY NrClicksAssumption DEF Piece, End, piece

LEMMA InClicks ==
  ASSUME NEW b \in Piece, NEW c
  PROVE  c \in ClicksOf(b) <=> c \in Nat /\ b.h_base <= c /\ c < End(b)
BY PieceFacts DEF ClicksOf

LEMMA InCovered ==
  ASSUME NEW bs, NEW c
  PROVE  c \in Covered(bs) <=> \E b \in bs : c \in ClicksOf(b)
BY DEF Covered

\* What a list of holes is: merged and inside the memory.
GoodHoles(hs) ==
  /\ hs \subseteq Piece
  /\ \A h \in hs : End(h) <= NrClicks
  /\ Separated(hs)

\* Memory that is free in one row lies in one hole.
LEMMA OneHole ==
  ASSUME NEW hs, GoodHoles(hs), NEW b \in Piece, ClicksOf(b) \subseteq Covered(hs)
  PROVE  \E h \in hs : h.h_base <= b.h_base /\ End(b) <= End(h)
<1>1. b.h_base \in ClicksOf(b)
  BY PieceFacts, InClicks
<1>2. PICK h \in hs : b.h_base \in ClicksOf(h)
  BY <1>1, InCovered
<1>3. h \in Piece
  BY DEF GoodHoles
<1>4. h.h_base <= b.h_base /\ b.h_base < End(h)
  BY <1>2, <1>3, InClicks
<1>5. CASE End(h) < End(b)
  <2>1. End(h) \in ClicksOf(b)
    BY <1>3, <1>4, <1>5, PieceFacts, InClicks
  <2>2. PICK g \in hs : End(h) \in ClicksOf(g)
    BY <2>1, InCovered
  <2>3. g \in Piece /\ g.h_base <= End(h) /\ End(h) < End(g)
    BY <2>2, InClicks DEF GoodHoles
  <2>4. End(g) < h.h_base \/ End(h) < g.h_base
    BY <2>3, <1>3, PieceFacts DEF GoodHoles, Separated
  <2> QED
    BY <2>3, <2>4, <1>3, PieceFacts
<1> QED
  BY <1>3, <1>4, <1>5, PieceFacts

\* Memory and HoleSet mean the same pieces.
LEMMA SamePieces ==
  /\ M!Reserved = Reserved
  /\ \A b : M!ClicksOf(b) = ClicksOf(b)
  /\ \A cs, n : M!Rows(cs, n) = {b \in Piece : b.h_len = n /\ ClicksOf(b) \subseteq cs}
BY DEF M!Reserved, Reserved, M!piece, piece, M!ClicksOf, ClicksOf, M!End, End,
       M!Rows, M!Piece, Piece

\* So Memory refuses a request exactly when no hole is big enough.
LEMMA RowsAreFits ==
  ASSUME NEW hs, GoodHoles(hs), NEW n \in 1 .. NrClicks
  PROVE  M!Rows(Covered(hs), n) = {} <=> Fits(hs, n) = {}
<1>1. ASSUME NEW h \in Fits(hs, n) PROVE piece(h.h_base, n) \in M!Rows(Covered(hs), n)
  <2>1. h \in hs /\ h \in Piece /\ h.h_len >= n /\ End(h) <= NrClicks
    BY <1>1 DEF Fits, GoodHoles
  <2> DEFINE b == piece(h.h_base, n)
  <2>2. b \in Piece /\ b.h_base = h.h_base /\ b.h_len = n /\ End(b) <= End(h)
    BY <2>1, PieceFacts, NrClicksAssumption DEF Piece, piece, End
  <2>3. ClicksOf(b) \subseteq ClicksOf(h)
    BY <2>1, <2>2, InClicks, PieceFacts
  <2> QED
    BY <2>1, <2>2, <2>3, InCovered, SamePieces
<1>2. ASSUME NEW b \in M!Rows(Covered(hs), n) PROVE \E h \in hs : h \in Fits(hs, n)
  <2>1. b \in Piece /\ b.h_len = n /\ ClicksOf(b) \subseteq Covered(hs)
    BY <1>2, SamePieces
  <2>2. PICK h \in hs : h.h_base <= b.h_base /\ End(b) <= End(h)
    BY <2>1, OneHole
  <2>3. h.h_len >= n
    BY <2>1, <2>2, PieceFacts DEF GoodHoles
  <2> QED
    BY <2>3 DEF Fits
<1> QED
  BY <1>1, <1>2

\* If a hole is big enough there is a first one.
LEMMA FirstFitExists ==
  ASSUME NEW hs, hs \subseteq Piece, NEW n \in 1 .. NrClicks, Fits(hs, n) # {}
  PROVE  \E h \in hs : IsFirstFit(hs, n, h)
<1> DEFINE R == OpToRel(<, Nat)
           bases == {h.h_base : h \in Fits(hs, n)}
<1>1. \A i, j \in Nat : i < j => <<i, j>> \in R
  BY Zenon DEF OpToRel
<1>2. IsWellFoundedOn(R, Nat)
  BY NatLessThanWellFounded
<1>3. bases \subseteq Nat /\ bases # {}
  BY PieceFacts DEF Fits
<1> HIDE DEF R, bases
<1>4. PICK i \in bases : \A j \in bases : ~ (<<j, i>> \in R)
  BY <1>2, <1>3, WFMin
<1>5. PICK h \in Fits(hs, n) : h.h_base = i
  BY DEF bases
<1>6. ASSUME NEW g \in Fits(hs, n) PROVE h.h_base <= g.h_base
  <2>1. g.h_base \in bases
    BY DEF bases
  <2>2. ~ (g.h_base < i)
    BY <1>1, <1>3, <1>4, <2>1
  <2>3. h.h_base = i /\ i \in Nat /\ g.h_base \in Nat
    BY <1>3, <1>5, <2>1
  <2> QED
    BY <2>2, <2>3
<1> QED
  BY <1>5, <1>6 DEF IsFirstFit, Fits
-----------------------------------------------------------------------------
(* What a request and a release do to a list of holes.                     *)

\* The block bites the lower end off its hole.
LEMMA BiteLemma ==
  ASSUME NEW hs, GoodHoles(hs), NEW n \in 1 .. NrClicks,
         NEW h \in hs, h.h_len >= n
  PROVE  /\ GoodHoles(Bite(hs, n, h))
         /\ piece(h.h_base, n) \in Piece
         /\ End(piece(h.h_base, n)) <= End(h)
         /\ \A g \in Bite(hs, n, h) : Apart(piece(h.h_base, n), g)
         /\ \A g \in Bite(hs, n, h) :
              g \in hs \/ (h.h_base <= g.h_base /\ End(g) = End(h))
         /\ Covered(Bite(hs, n, h)) = Covered(hs) \ ClicksOf(piece(h.h_base, n))
         /\ ClicksOf(piece(h.h_base, n)) \subseteq Covered(hs)
<1> DEFINE b == piece(h.h_base, n)
           rest == piece(h.h_base + n, h.h_len - n)
<1>1. h \in Piece /\ End(h) <= NrClicks
  BY DEF GoodHoles
<1>2. /\ b \in Piece /\ b.h_base = h.h_base /\ End(b) = h.h_base + n
      /\ End(b) <= End(h)
  BY <1>1, PieceFacts, NrClicksAssumption DEF Piece, piece, End
<1>3. h.h_len # n => /\ rest \in Piece /\ rest.h_base = End(b)
                     /\ End(rest) = End(h) /\ End(b) < End(h)
  BY <1>1, <1>2, PieceFacts, NrClicksAssumption DEF Piece, piece, End
<1>4. h.h_len = n => End(b) = End(h)
  BY <1>1, <1>2, PieceFacts
<1>5. \A g : g \in Bite(hs, n, h) <=> (g \in hs /\ g # h) \/ (h.h_len # n /\ g = rest)
  BY DEF Bite
<1>6. \A g \in hs : g \in Piece /\ (g # h => End(g) < h.h_base \/ End(h) < g.h_base)
  BY DEF GoodHoles, Separated
<1> HIDE DEF b, rest
<1>7. GoodHoles(Bite(hs, n, h))
  <2>1. Bite(hs, n, h) \subseteq Piece
    BY <1>3, <1>5, <1>6
  <2>2. \A g \in Bite(hs, n, h) : End(g) <= NrClicks
    BY <1>1, <1>3, <1>5 DEF GoodHoles
  <2>3. ASSUME NEW f \in Bite(hs, n, h), NEW g \in Bite(hs, n, h), f # g
        PROVE  End(f) < g.h_base \/ End(g) < f.h_base
    <3>1. CASE f \in hs /\ g \in hs
      BY <2>3, <3>1 DEF GoodHoles, Separated
    <3>2. CASE f = rest /\ h.h_len # n /\ g \in hs /\ g # h
      BY <1>1, <1>2, <1>3, <1>6, <3>2, PieceFacts
    <3>3. CASE g = rest /\ h.h_len # n /\ f \in hs /\ f # h
      BY <1>1, <1>2, <1>3, <1>6, <3>3, PieceFacts
    <3> QED
      BY <1>5, <2>3, <3>1, <3>2, <3>3
  <2> QED
    BY <2>1, <2>2, <2>3 DEF GoodHoles, Separated
<1>8. ASSUME NEW g \in Bite(hs, n, h) PROVE Apart(b, g)
  <2>1. CASE g \in hs /\ g # h
    BY <1>1, <1>2, <1>6, <2>1, PieceFacts DEF Apart
  <2>2. CASE h.h_len # n /\ g = rest
    BY <1>2, <1>3, <2>2, PieceFacts DEF Apart
  <2> QED
    BY <1>5, <2>1, <2>2
<1>9. ASSUME NEW g \in Bite(hs, n, h)
      PROVE  g \in hs \/ (h.h_base <= g.h_base /\ End(g) = End(h))
  BY <1>1, <1>2, <1>3, <1>5, PieceFacts
<1>10. ASSUME NEW c PROVE c \in Covered(Bite(hs, n, h)) <=> c \in Covered(hs) \ ClicksOf(b)
  <2>1. c \in ClicksOf(h) <=> c \in ClicksOf(b) \/ (h.h_len # n /\ c \in ClicksOf(rest))
    BY <1>1, <1>2, <1>3, <1>4, InClicks, PieceFacts
  <2>2. c \in ClicksOf(b) => \A g \in Bite(hs, n, h) : ~ (c \in ClicksOf(g))
    BY <1>2, <1>7, <1>8, InClicks, PieceFacts DEF Apart, GoodHoles
  <2>3. c \in Covered(Bite(hs, n, h)) => c \in Covered(hs) /\ c \notin ClicksOf(b)
    BY <1>5, <2>1, <2>2, InCovered
  <2>4. c \in Covered(hs) /\ c \notin ClicksOf(b) => c \in Covered(Bite(hs, n, h))
    BY <1>5, <2>1, InCovered
  <2> QED
    BY <2>3, <2>4
<1>11. ClicksOf(b) \subseteq Covered(hs)
  BY <1>1, <1>2, InClicks, InCovered, PieceFacts
<1> QED
  BY <1>2, <1>7, <1>8, <1>9, <1>10, <1>11 DEF b

\* A released block, and the holes that touch it, become one hole.
LEMMA JoinLemma ==
  ASSUME NEW hs, GoodHoles(hs), NEW b \in Piece, End(b) <= NrClicks,
         \A h \in hs : Apart(b, h)
  PROVE  /\ GoodHoles(free_mem(hs, b))
         /\ Covered(free_mem(hs, b)) = Covered(hs) \cup ClicksOf(b)
         /\ \A h \in hs : \E g \in free_mem(hs, b) : g.h_base <= h.h_base /\ End(h) <= End(g)
         /\ \A d \in Piece : Apart(d, b) /\ (\A h \in hs : Apart(d, h))
              => \A g \in free_mem(hs, b) : Apart(d, g)
<1> DEFINE base == IF \E h \in hs : End(h) = b.h_base
                   THEN (CHOOSE h \in hs : End(h) = b.h_base).h_base ELSE b.h_base
           end  == IF \E h \in hs : h.h_base = End(b)
                   THEN End(CHOOSE h \in hs : h.h_base = End(b)) ELSE End(b)
           j    == piece(base, end - base)
<1>1. \A h \in hs : /\ h \in Piece /\ End(h) <= NrClicks
                    /\ h.h_base \in Nat /\ End(h) \in Nat /\ h.h_base < End(h)
  BY PieceFacts DEF GoodHoles
<1>2. b.h_base \in Nat /\ End(b) \in Nat /\ b.h_base < End(b)
  BY PieceFacts
<1>3. \A g, h \in hs : g # h => End(g) < h.h_base \/ End(h) < g.h_base
  BY DEF GoodHoles, Separated
<1>4. \A h \in hs : End(b) <= h.h_base \/ End(h) <= b.h_base
  BY DEF Apart
<1>5. \/ base = b.h_base /\ ~ \E h \in hs : End(h) = b.h_base
      \/ \E l \in hs : End(l) = b.h_base /\ base = l.h_base
  <2>1. CASE \E h \in hs : End(h) = b.h_base
    <3> DEFINE l == CHOOSE h \in hs : End(h) = b.h_base
    <3>1. l \in hs /\ End(l) = b.h_base
      BY <2>1
    <3>2. base = l.h_base
      BY <2>1
    <3> HIDE DEF base, l
    <3> QED
      BY <3>1, <3>2
  <2>2. CASE ~ \E h \in hs : End(h) = b.h_base
    BY <2>2
  <2> QED
    BY <2>1, <2>2
<1>6. \/ end = End(b) /\ ~ \E h \in hs : h.h_base = End(b)
      \/ \E r \in hs : r.h_base = End(b) /\ end = End(r)
  <2>1. CASE \E h \in hs : h.h_base = End(b)
    <3> DEFINE r == CHOOSE h \in hs : h.h_base = End(b)
    <3>1. r \in hs /\ r.h_base = End(b)
      BY <2>1
    <3>2. end = End(r)
      BY <2>1
    <3> HIDE DEF end, r
    <3> QED
      BY <3>1, <3>2
  <2>2. CASE ~ \E h \in hs : h.h_base = End(b)
    BY <2>2
  <2> QED
    BY <2>1, <2>2
<1>7. j = Joined(hs, b)
  BY DEF Joined
<1> HIDE DEF base, end
<1>8. /\ base \in Nat /\ base <= b.h_base
      /\ end \in Nat /\ End(b) <= end /\ end <= NrClicks
  BY <1>1, <1>2, <1>5, <1>6, NrClicksAssumption
<1>9. j \in Piece /\ j.h_base = base /\ End(j) = end
  BY <1>2, <1>8, NewPiece
<1> HIDE DEF j
<1>10. \A g : g \in free_mem(hs, b) <=> g = j \/ (g \in hs /\ End(g) # b.h_base /\ g.h_base # End(b))
  BY <1>7 DEF free_mem, Touching
<1>11. ASSUME NEW h \in hs, End(h) = b.h_base PROVE base = h.h_base
  BY <1>1, <1>2, <1>3, <1>5, <1>11
<1>12. ASSUME NEW h \in hs, h.h_base = End(b) PROVE end = End(h)
  BY <1>1, <1>2, <1>3, <1>6, <1>12
<1>13. ASSUME NEW g \in hs, End(g) # b.h_base, g.h_base # End(b)
       PROVE  End(g) < base \/ end < g.h_base
  <2>1. CASE End(g) < b.h_base
    BY <1>1, <1>2, <1>3, <1>5, <1>13, <2>1
  <2>2. CASE End(b) < g.h_base
    BY <1>1, <1>2, <1>3, <1>6, <1>13, <2>2
  <2> QED
    BY <1>1, <1>2, <1>4, <1>13, <2>1, <2>2
<1>14. GoodHoles(free_mem(hs, b))
  <2>1. \A g \in free_mem(hs, b) : g \in Piece /\ End(g) <= NrClicks
    BY <1>1, <1>8, <1>9, <1>10
  <2>2. ASSUME NEW f \in free_mem(hs, b), NEW g \in free_mem(hs, b), f # g
        PROVE  End(f) < g.h_base \/ End(g) < f.h_base
    BY <1>3, <1>9, <1>10, <1>13, <2>2
  <2> QED
    BY <2>1, <2>2 DEF GoodHoles, Separated
<1>15. ASSUME NEW c PROVE c \in Covered(free_mem(hs, b)) <=> c \in Covered(hs) \cup ClicksOf(b)
  <2>1. c \in ClicksOf(b) => c \in ClicksOf(j)
    BY <1>2, <1>8, <1>9, InClicks
  <2>2. ASSUME NEW h \in hs, c \in ClicksOf(h) PROVE c \in Covered(free_mem(hs, b))
    <3>1. CASE End(h) = b.h_base
      BY <1>1, <1>2, <1>8, <1>9, <1>10, <1>11, <2>2, <3>1, InClicks, InCovered
    <3>2. CASE h.h_base = End(b)
      BY <1>1, <1>2, <1>8, <1>9, <1>10, <1>12, <2>2, <3>2, InClicks, InCovered
    <3> QED
      BY <1>10, <2>2, <3>1, <3>2, InCovered
  <2>3. ASSUME c \in ClicksOf(j) PROVE c \in Covered(hs) \cup ClicksOf(b)
    <3>1. c \in Nat /\ base <= c /\ c < end
      BY <1>9, <2>3, InClicks
    <3>2. CASE c < b.h_base
      BY <1>1, <1>2, <1>5, <3>1, <3>2, InClicks, InCovered
    <3>3. CASE End(b) <= c
      BY <1>1, <1>2, <1>6, <3>1, <3>3, InClicks, InCovered
    <3> QED
      BY <1>2, <3>1, <3>2, <3>3, InClicks
  <2> QED
    BY <1>10, <2>1, <2>2, <2>3, InCovered
<1>16. ASSUME NEW h \in hs
       PROVE  \E g \in free_mem(hs, b) : g.h_base <= h.h_base /\ End(h) <= End(g)
  <2>1. CASE End(h) = b.h_base
    BY <1>1, <1>2, <1>8, <1>9, <1>10, <1>11, <2>1
  <2>2. CASE h.h_base = End(b)
    BY <1>1, <1>2, <1>8, <1>9, <1>10, <1>12, <2>2
  <2>3. CASE End(h) # b.h_base /\ h.h_base # End(b)
    BY <1>1, <1>10, <2>3
  <2> QED
    BY <2>1, <2>2, <2>3
<1>17. ASSUME NEW d \in Piece, Apart(d, b), \A h \in hs : Apart(d, h),
              NEW g \in free_mem(hs, b)
       PROVE  Apart(d, g)
  <2>1. d.h_base \in Nat /\ End(d) \in Nat /\ d.h_base < End(d)
    BY PieceFacts
  <2>2. CASE End(d) <= b.h_base
    <3>1. End(d) <= base
      BY <1>1, <1>2, <1>5, <1>17, <2>1, <2>2 DEF Apart
    <3> QED
      BY <1>9, <1>10, <1>17, <3>1 DEF Apart
  <2>3. CASE End(b) <= d.h_base
    <3>1. end <= d.h_base
      BY <1>1, <1>2, <1>6, <1>17, <2>1, <2>3 DEF Apart
    <3> QED
      BY <1>9, <1>10, <1>17, <3>1 DEF Apart
  <2> QED
    BY <1>17, <2>2, <2>3 DEF Apart
<1> QED
  BY <1>14, <1>15, <1>16, <1>17
-----------------------------------------------------------------------------
(* The inductive invariant.  That holes are merged is inductive alone, that *)
(* blocks stay apart only together with the holes being apart from them.   *)

Sound(hs, bs) ==
  /\ GoodHoles(hs)
  /\ bs \subseteq Piece
  /\ \A b \in bs : End(b) <= NrClicks
  /\ Reserved \in bs
  /\ \A b, c \in bs : b # c => Apart(b, c)
  /\ \A b \in bs, h \in hs : Apart(b, h)
  /\ Covered(hs \cup bs) = 0 .. NrClicks - 1

Inv == Sound(holes, blocks) /\ result \in {"OK", "NO_MEM"}

LEMMA CoveredBoth ==
  ASSUME NEW hs, NEW bs
  PROVE  Covered(hs \cup bs) = Covered(hs) \cup Covered(bs)
BY DEF Covered

LEMMA SoundFree ==
  ASSUME NEW hs, NEW bs, Sound(hs, bs), NEW b \in bs, b # Reserved
  PROVE  Sound(free_mem(hs, b), bs \ {b})
<1>1. b \in Piece /\ End(b) <= NrClicks /\ \A h \in hs : Apart(b, h)
  BY DEF Sound
<1>2. /\ GoodHoles(free_mem(hs, b))
      /\ Covered(free_mem(hs, b)) = Covered(hs) \cup ClicksOf(b)
      /\ \A d \in Piece : Apart(d, b) /\ (\A h \in hs : Apart(d, h))
           => \A g \in free_mem(hs, b) : Apart(d, g)
  BY <1>1, JoinLemma DEF Sound
<1>3. ASSUME NEW c \in bs \ {b}, NEW g \in free_mem(hs, b) PROVE Apart(c, g)
  BY <1>2 DEF Sound
<1>4. Covered(bs) = Covered(bs \ {b}) \cup ClicksOf(b)
  BY DEF Covered
<1>5. Covered(free_mem(hs, b) \cup (bs \ {b})) = Covered(hs \cup bs)
  BY <1>2, <1>4, CoveredBoth
<1> QED
  BY <1>2, <1>3, <1>5 DEF Sound

LEMMA SoundGive ==
  ASSUME NEW hs, NEW bs, Sound(hs, bs), NEW n \in 1 .. NrClicks,
         NEW h \in hs, h.h_len >= n
  PROVE  Sound(Bite(hs, n, h), bs \cup {piece(h.h_base, n)})
<1> DEFINE b == piece(h.h_base, n)
<1>1. /\ GoodHoles(Bite(hs, n, h))
      /\ b \in Piece
      /\ End(b) <= End(h)
      /\ \A g \in Bite(hs, n, h) : Apart(b, g)
      /\ \A g \in Bite(hs, n, h) :
           g \in hs \/ (h.h_base <= g.h_base /\ End(g) = End(h))
      /\ Covered(Bite(hs, n, h)) = Covered(hs) \ ClicksOf(b)
      /\ ClicksOf(b) \subseteq Covered(hs)
  BY BiteLemma DEF Sound
<1>2. b.h_base = h.h_base
  BY DEF piece
<1>3. h \in Piece /\ End(h) <= NrClicks
  BY DEF Sound, GoodHoles
<1> HIDE DEF b
<1>4. End(b) <= NrClicks
  BY <1>1, <1>3, PieceFacts, NrClicksAssumption
<1>5. ASSUME NEW c \in bs PROVE Apart(b, c) /\ Apart(c, b)
  <2>1. Apart(c, h) /\ c \in Piece
    BY DEF Sound
  <2> QED
    BY <1>1, <1>2, <1>3, <2>1, PieceFacts DEF Apart
<1>6. ASSUME NEW c \in bs, NEW g \in Bite(hs, n, h) PROVE Apart(c, g)
  <2>1. Apart(c, h) /\ c \in Piece /\ g \in Piece /\ (g \in hs => Apart(c, g))
    BY <1>1 DEF Sound, GoodHoles
  <2> QED
    BY <1>1, <1>3, <2>1, PieceFacts DEF Apart
<1>7. Covered(bs \cup {b}) = Covered(bs) \cup ClicksOf(b)
  BY DEF Covered
<1>8. Covered(Bite(hs, n, h) \cup (bs \cup {b})) = Covered(hs \cup bs)
  <2>1. (Covered(hs) \ ClicksOf(b)) \cup (Covered(bs) \cup ClicksOf(b))
          = Covered(hs) \cup Covered(bs)
    BY <1>1
  <2>2. /\ Covered(Bite(hs, n, h) \cup (bs \cup {b}))
             = Covered(Bite(hs, n, h)) \cup Covered(bs \cup {b})
        /\ Covered(hs \cup bs) = Covered(hs) \cup Covered(bs)
    BY CoveredBoth
  <2>3. Covered(Bite(hs, n, h)) = Covered(hs) \ ClicksOf(b)
    BY <1>1
  <2> QED
    BY <1>7, <2>1, <2>2, <2>3
<1>9. \A c, d \in bs \cup {b} : c # d => Apart(c, d)
  BY <1>5 DEF Sound
<1>10. \A c \in bs \cup {b}, g \in Bite(hs, n, h) : Apart(c, g)
  BY <1>1, <1>6
<1>11. Reserved \in bs \cup {b} /\ bs \cup {b} \subseteq Piece
       /\ \A c \in bs \cup {b} : End(c) <= NrClicks
  BY <1>1, <1>4 DEF Sound
<1>12. Covered(hs \cup bs) = 0 .. NrClicks - 1
  BY DEF Sound
<1>13. Sound(Bite(hs, n, h), bs \cup {b})
  BY <1>1, <1>8, <1>9, <1>10, <1>11, <1>12 DEF Sound
<1> QED
  BY <1>13 DEF b

LEMMA InitCovered ==
  ASSUME Init
  PROVE  /\ GoodHoles(holes)
         /\ Covered(holes) = NrReserved .. NrClicks - 1
         /\ \A h \in holes : NrReserved <= h.h_base
<1> DEFINE h == piece(NrReserved, NrClicks - NrReserved)
<1>1. CASE NrReserved = NrClicks
  <2>1. holes = {} /\ NrReserved .. NrClicks - 1 = {}
    BY <1>1, NrClicksAssumption, NrReservedAssumption DEF Init
  <2> QED
    BY <2>1 DEF GoodHoles, Covered, Separated
<1>2. CASE NrReserved # NrClicks
  <2>1. holes = {h}
    BY <1>2 DEF Init
  <2>2. /\ h \in Piece /\ h.h_base = NrReserved /\ End(h) = NrClicks
    BY <1>2, NewPiece, NrClicksAssumption, NrReservedAssumption
  <2> HIDE DEF h
  <2>3. ClicksOf(h) = NrReserved .. NrClicks - 1
    BY <2>2 DEF ClicksOf
  <2> QED
    BY <2>1, <2>2, <2>3, NrClicksAssumption, NrReservedAssumption
    DEF GoodHoles, Covered, Separated
<1> QED
  BY <1>1, <1>2

LEMMA InitInv == Init => Inv
<1> SUFFICES ASSUME Init PROVE Inv
  OBVIOUS
<1>1. blocks = {Reserved} /\ result = "OK"
  BY DEF Init
<1>2. /\ Reserved \in Piece /\ Reserved.h_base = 0 /\ End(Reserved) = NrReserved
      /\ ClicksOf(Reserved) = 0 .. NrReserved - 1
  BY NrClicksAssumption, NrReservedAssumption DEF Reserved, Piece, piece, End, ClicksOf
<1>3. Covered(blocks) = 0 .. NrReserved - 1
  BY <1>1, <1>2 DEF Covered
<1>4. Covered(holes \cup blocks) = 0 .. NrClicks - 1
  <2>1. Covered(holes \cup blocks) = Covered(holes) \cup Covered(blocks)
    BY CoveredBoth
  <2>2. (NrReserved .. NrClicks - 1) \cup (0 .. NrReserved - 1) = 0 .. NrClicks - 1
    BY NrClicksAssumption, NrReservedAssumption
  <2> QED
    BY <1>3, <2>1, <2>2, InitCovered
<1>5. \A h \in holes : Apart(Reserved, h)
  BY <1>2, InitCovered DEF Apart
<1> QED
  BY <1>1, <1>2, <1>4, <1>5, InitCovered, NrClicksAssumption, NrReservedAssumption
  DEF Inv, Sound

LEMMA StepInv == Inv /\ [Next]_vars => Inv'
<1> SUFFICES ASSUME Inv, [Next]_vars PROVE Inv'
  OBVIOUS
<1> USE DEF Inv
<1>1. ASSUME NEW n \in 1 .. NrClicks, Grant(n) PROVE Inv'
  <2>1. PICK h \in holes : /\ IsFirstFit(holes, n, h)
                           /\ holes' = Bite(holes, n, h)
                           /\ blocks' = blocks \cup {piece(h.h_base, n)}
                           /\ result' = "OK"
    BY <1>1 DEF Grant, Give
  <2>2. h.h_len >= n
    BY <2>1 DEF IsFirstFit, Fits
  <2>3. Sound(holes', blocks')
    BY <2>1, <2>2, SoundGive
  <2> QED
    BY <2>1, <2>3 DEF Sound
<1>2. ASSUME NEW n \in 1 .. NrClicks, Refuse(n) PROVE Inv'
  BY <1>2 DEF Refuse, Sound
<1>3. ASSUME NEW b \in blocks \ {Reserved}, Release(b) PROVE Inv'
  <2>1. Sound(holes', blocks')
    BY <1>3, SoundFree DEF Release
  <2> QED
    BY <1>3, <2>1 DEF Release, Sound
<1>4. ASSUME NEW b \in blocks \ {Reserved}, NEW n \in 1 .. NrClicks, Exchange(b, n) PROVE Inv'
  <2>1. Sound(free_mem(holes, b), blocks \ {b})
    BY SoundFree
  <2>2. PICK h \in free_mem(holes, b) :
              /\ IsFirstFit(free_mem(holes, b), n, h)
              /\ holes' = Bite(free_mem(holes, b), n, h)
              /\ blocks' = (blocks \ {b}) \cup {piece(h.h_base, n)}
              /\ result' = "OK"
    BY <1>4 DEF Exchange, Give
  <2>3. h.h_len >= n
    BY <2>2 DEF IsFirstFit, Fits
  <2>4. Sound(holes', blocks')
    BY <2>1, <2>2, <2>3, SoundGive
  <2> QED
    BY <2>2, <2>4 DEF Sound
<1>5. CASE UNCHANGED vars
  BY <1>5 DEF vars, Sound
<1> QED
  BY <1>1, <1>2, <1>3, <1>4, <1>5 DEF Next

\* In every reachable state holes and blocks are sound.
THEOREM Invariant == Spec => []Inv
<1>1. Init => Inv
  BY InitInv
<1>2. Inv /\ [Next]_vars => Inv'
  BY StepInv
<1> QED
  BY <1>1, <1>2, PTL DEF Spec
-----------------------------------------------------------------------------
(* Theorems.                                                               *)

\* The list holds pieces of memory, and so do the blocks.
THEOREM TypeInvariant == Spec => []TypeOK
<1>1. Inv => TypeOK
  BY DEF Inv, Sound, GoodHoles, TypeOK
<1> QED
  BY <1>1, Invariant, PTL

\* merge() is complete: no two holes of the list ever touch or overlap.
THEOREM SeparationInvariant == Spec => []HolesSeparated
<1>1. Inv => HolesSeparated
  BY DEF Inv, Sound, GoodHoles, HolesSeparated
<1> QED
  BY <1>1, Invariant, PTL

\* alloc_mem() never gives out a click twice.
THEOREM ApartInvariant == Spec => []BlocksApart
<1>1. Inv => BlocksApart
  BY DEF Inv, Sound, BlocksApart
<1> QED
  BY <1>1, Invariant, PTL

\* alloc_mem() and free_mem() never lose a click.
THEOREM NoClickLostInvariant == Spec => []NoClickLost
<1>1. Inv => NoClickLost
  BY DEF Inv, Sound, NoClickLost
<1> QED
  BY <1>1, Invariant, PTL

\* new_mem() cannot fail after it has released the old image: its panic is dead
\* code, whatever the holes look like.
THEOREM ExchangeSucceedsInvariant == Spec => []ExchangeSucceeds
<1>1. Inv => ExchangeSucceeds
  <2> SUFFICES ASSUME Inv, NEW b \in blocks \ {Reserved}, NEW n \in 1 .. NrClicks,
                      Fits(holes, n) # {}
               PROVE  \E h \in free_mem(holes, b) : IsFirstFit(free_mem(holes, b), n, h)
    BY DEF ExchangeSucceeds
  <2>1. GoodHoles(holes) /\ b \in Piece /\ End(b) <= NrClicks /\ \A h \in holes : Apart(b, h)
    BY DEF Inv, Sound
  <2>2. PICK h \in holes : h.h_len >= n
    BY DEF Fits
  <2>3. PICK g \in free_mem(holes, b) : g.h_base <= h.h_base /\ End(h) <= End(g)
    BY <2>1, JoinLemma
  <2>4. free_mem(holes, b) \subseteq Piece
    BY <2>1, JoinLemma DEF GoodHoles
  <2>5. g.h_len >= n
    BY <2>1, <2>2, <2>3, <2>4, PieceFacts DEF GoodHoles
  <2>6. Fits(free_mem(holes, b), n) # {}
    BY <2>3, <2>5 DEF Fits
  <2> QED
    BY <2>4, <2>6, FirstFitExists
<1> QED
  BY <1>1, Invariant, PTL

\* What Give does to the list is what Memory allows with the free clicks.
LEMMA GiveRefines ==
  ASSUME NEW hs, GoodHoles(hs), NEW others, NEW n \in 1 .. NrClicks, Give(hs, others, n)
  PROVE  M!Give(Covered(hs), others, n)
<1>1. PICK h \in hs : /\ IsFirstFit(hs, n, h)
                      /\ holes' = Bite(hs, n, h)
                      /\ blocks' = others \cup {piece(h.h_base, n)}
                      /\ result' = "OK"
  BY DEF Give
<1> DEFINE b == piece(h.h_base, n)
<1>2. /\ b \in Piece
      /\ Covered(holes') = Covered(hs) \ ClicksOf(b)
      /\ ClicksOf(b) \subseteq Covered(hs)
  BY <1>1, BiteLemma DEF IsFirstFit, Fits
<1>3. b.h_len = n
  BY DEF piece
<1> HIDE DEF b
<1>4. b \in M!Rows(Covered(hs), n)
  BY <1>2, <1>3, SamePieces
<1>5. Covered(holes)' = Covered(hs) \ M!ClicksOf(b)
  BY <1>2, SamePieces DEF Covered
<1>6. blocks' = others \cup {b} /\ result' = "OK"
  BY <1>1 DEF b
<1> QED
  BY <1>4, <1>5, <1>6 DEF M!Give

\* The hole list implements the set of free clicks: a request is refused only if
\* so many free clicks do not lie in a row, and a release makes all of the
\* block free again.
THEOREM Refinement == Spec => ImplementsMemory
<1>1. Init => M!Init
  <2> SUFFICES ASSUME Init PROVE M!Init
    OBVIOUS
  <2>1. Covered(holes) = NrReserved .. NrClicks - 1
    BY InitCovered
  <2> QED
    BY <2>1, SamePieces DEF M!Init, Init
<1>2. Inv /\ [Next]_vars => [M!Next]_(M!vars)
  <2> SUFFICES ASSUME Inv, [Next]_vars PROVE [M!Next]_(M!vars)
    OBVIOUS
  <2>0. GoodHoles(holes)
    BY DEF Inv, Sound
  <2>1. ASSUME NEW n \in 1 .. NrClicks, Grant(n) PROVE M!Grant(n)
    BY <2>0, <2>1, GiveRefines DEF Grant, M!Grant
  <2>2. ASSUME NEW n \in 1 .. NrClicks, Refuse(n) PROVE M!Refuse(n)
    BY <2>0, <2>2, RowsAreFits DEF Refuse, M!Refuse, Covered
  <2>3. ASSUME NEW b \in blocks \ {Reserved}
        PROVE  /\ GoodHoles(free_mem(holes, b))
               /\ Covered(free_mem(holes, b)) = Covered(holes) \cup M!ClicksOf(b)
    <3>1. b \in Piece /\ End(b) <= NrClicks /\ \A h \in holes : Apart(b, h)
      BY DEF Inv, Sound
    <3> QED
      BY <2>0, <3>1, JoinLemma, SamePieces
  <2>4. ASSUME NEW b \in blocks \ {Reserved}, Release(b) PROVE M!Release(b)
    <3>1. Covered(holes)' = Covered(free_mem(holes, b))
      BY <2>4 DEF Release, Covered
    <3> QED
      BY <2>3, <2>4, <3>1 DEF Release, M!Release
  <2>5. ASSUME NEW b \in blocks \ {Reserved}, NEW n \in 1 .. NrClicks, Exchange(b, n)
        PROVE  M!Exchange(b, n)
    <3>1. M!Rows(Covered(holes), n) # {}
      BY <2>0, <2>5, RowsAreFits DEF Exchange
    <3>2. M!Give(Covered(free_mem(holes, b)), blocks \ {b}, n)
      BY <2>3, <2>5, GiveRefines DEF Exchange
    <3> QED
      BY <2>3, <3>1, <3>2 DEF M!Exchange
  <2>6. CASE UNCHANGED vars
    BY <2>6 DEF vars, M!vars, Covered
  <2> QED
    BY <2>1, <2>2, <2>4, <2>5, <2>6, SamePieces DEF Next, M!Next
<1> QED
  BY <1>1, <1>2, Invariant, PTL DEF Spec, ImplementsMemory, M!Spec
=============================================================================
