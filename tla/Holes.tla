-------------------------------- MODULE Holes -------------------------------
(***************************************************************************)
(* mm/alloc.c with its pointers: the table hole[], the list of holes in    *)
(* order of address and the list of unused slots.  The tables are one      *)
(* record m, and a C routine is an operator from tables to tables.         *)
(***************************************************************************)
EXTENDS Clicks, SequencesExt

CONSTANT NR_HOLES   \* entries in the hole table

ASSUME NrHolesAssumption == NR_HOLES \in Nat /\ NR_HOLES >= 2

Slot     == 0 .. NR_HOLES - 1
NIL_HOLE == -1
NO_MEM   == 0

\* panicked: MM has called panic().
Tables ==
  [hole : [Slot -> [h_base : 0 .. NrClicks, h_len : 0 .. NrClicks, h_next : Slot \cup {NIL_HOLE}]],
   hole_head  : Slot \cup {NIL_HOLE},
   free_slots : Slot \cup {NIL_HOLE},
   panicked   : BOOLEAN]

\* The slots from hp on, in the order of the links; seen ends a walk in a circle.
RECURSIVE Walk(_, _, _)
Walk(m, hp, seen) ==
  IF hp = NIL_HOLE \/ hp \in seen THEN <<>>
  ELSE <<hp>> \o Walk(m, m.hole[hp].h_next, seen \cup {hp})

HoleList(m) == Walk(m, m.hole_head, {})
FreeList(m) == Walk(m, m.free_slots, {})

mem_init(clicks) ==
  [hole |-> [hp \in Slot |->
     [h_base |-> 0,
      h_len  |-> IF hp = 0 THEN clicks ELSE 0,
      h_next |-> IF hp \in {0, NR_HOLES - 1} THEN NIL_HOLE ELSE hp + 1]],
   hole_head  |-> 0,
   free_slots |-> 1,
   panicked   |-> FALSE]

del_slot(m, prev_ptr, hp) ==
  LET unlinked == IF hp = m.hole_head THEN [m EXCEPT !.hole_head = m.hole[hp].h_next]
                  ELSE [m EXCEPT !.hole[prev_ptr].h_next = m.hole[hp].h_next]
  IN  [unlinked EXCEPT !.hole[hp].h_next = m.free_slots, !.free_slots = hp]

\* Mutant: a hole of just the size is passed over.
HolesThatFit_larger(m, clicks) ==
  {i \in 1 .. Len(HoleList(m)) : m.hole[HoleList(m)[i]].h_len > clicks}

HolesThatFit(m, clicks) ==
  {i \in 1 .. Len(HoleList(m)) : m.hole[HoleList(m)[i]].h_len >= clicks}

\* alloc_mem() returns the tables and the base of the block.  prev_ptr is only
\* set, and only used, when the hole is not the first.
alloc_mem(m, clicks) ==
  LET list == HoleList(m)
      fits == HolesThatFit(m, clicks)
      i    == Min(fits)
      hp   == list[i]
      base == m.hole[hp].h_base
      bitten == [m EXCEPT !.hole[hp].h_base = @ + clicks, !.hole[hp].h_len = @ - clicks]
  IN  IF fits = {} THEN [m |-> m, base |-> NO_MEM]
      ELSE IF bitten.hole[hp].h_len # 0 THEN [m |-> bitten, base |-> base]
      ELSE [m |-> del_slot(bitten, IF i = 1 THEN NIL_HOLE ELSE list[i - 1], hp), base |-> base]

\* One half of merge(): absorb the successor of hp if it is adjacent.
Adjacent(m, hp) ==
  LET next_ptr == m.hole[hp].h_next
  IN  next_ptr # NIL_HOLE /\ m.hole[hp].h_base + m.hole[hp].h_len = m.hole[next_ptr].h_base

Absorb(m, hp) ==
  LET next_ptr == m.hole[hp].h_next
  IN  IF Adjacent(m, hp)
      THEN del_slot([m EXCEPT !.hole[hp].h_len = @ + m.hole[next_ptr].h_len], hp, next_ptr)
      ELSE m

merge(m, hp) ==
  IF m.hole[hp].h_next = NIL_HOLE THEN m
  ELSE IF Adjacent(m, hp) THEN Absorb(Absorb(m, hp), hp)
  ELSE Absorb(m, m.hole[hp].h_next)

free_mem(m, base, clicks) ==
  LET new_ptr == m.free_slots
      list    == HoleList(m)
      lower   == {i \in 1 .. Len(list) : \A j \in 1 .. i : base > m.hole[list[j]].h_base}
      prev_ptr == list[Max(lower)]
      taken   == [m EXCEPT !.hole[new_ptr].h_base = base,
                           !.hole[new_ptr].h_len  = clicks,
                           !.free_slots = m.hole[new_ptr].h_next]
  IN  IF new_ptr = NIL_HOLE THEN [m EXCEPT !.panicked = TRUE]
      ELSE IF lower = {}
      THEN merge([taken EXCEPT !.hole[new_ptr].h_next = m.hole_head, !.hole_head = new_ptr],
                 new_ptr)
      ELSE merge([taken EXCEPT !.hole[new_ptr].h_next = m.hole[prev_ptr].h_next,
                               !.hole[prev_ptr].h_next = new_ptr],
                 prev_ptr)

max_hole(m) == Max({0} \cup {m.hole[hp].h_len : hp \in ToSet(HoleList(m))})
=============================================================================
