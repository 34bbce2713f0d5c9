-------------------------------- MODULE Core --------------------------------
(***************************************************************************)
(* Core images: the segment maps of mproc[] and the memory behind them, as *)
(* FORK, EXEC, BRK, signals and the end of a process change them           *)
(* (mm/forkexit.c, mm/exec.c, mm/break.c), on the hole list of Holes.      *)
(*                                                                         *)
(* MM is one process and none of these routines waits for another that     *)
(* could call it, so each is a step.  Who is whose child is the subject of *)
(* module MM: here any process but INIT may fork, end and be collected.    *)
(***************************************************************************)
EXTENDS Holes

CONSTANTS NR_PROCS,    \* slots of the process table
          MAX_PAGES,   \* pages in the virtual address space
          InitText,    \* clicks of INIT, the last of the reserved ones
          InitData,
          Programs     \* the files that can be executed, and their stacks

INIT_PROC_NR == 2
User == INIT_PROC_NR .. NR_PROCS - 1

Count == 0 .. NrClicks

\* Sizes in bytes, as in the header; data is data and bss, stk what the caller
\* of EXEC puts on the stack.
Program == [sep : BOOLEAN, text : Nat, data : Nat, tot : Nat, stk : Nat]

ASSUME NrProcsAssumption  == NR_PROCS \in Nat /\ NR_PROCS > INIT_PROC_NR
ASSUME MaxPagesAssumption == MAX_PAGES \in Nat
ASSUME InitAssumption     == /\ InitText \in Nat /\ InitData \in Nat
                             /\ InitText + InitData \in 1 .. NrReserved
ASSUME ProgramsAssumption == Programs \subseteq Program
\* A slot for every hole between the blocks, and the one free_mem() starts with.
ASSUME EnoughHolesAssumption == NR_HOLES >= NR_PROCS - 1

\* mp_seg, and SEPARATE of mp_flags.  The data segment starts at virtual click 0.
Image == [sep : BOOLEAN,
          T : [mem_len : Count, mem_phys : Count],
          D : [mem_len : Count, mem_phys : Count],
          S : [mem_vir : Count, mem_len : Count, mem_phys : Count]]

\* A slot that is not IN_USE.
NoImage == [sep |-> FALSE,
            T |-> [mem_len |-> 0, mem_phys |-> 0],
            D |-> [mem_len |-> 0, mem_phys |-> 0],
            S |-> [mem_vir |-> 0, mem_len |-> 0, mem_phys |-> 0]]

VARIABLES mem,      \* the tables of Holes
          mp_seg,   \* the core image of each process
          result    \* whether the last FORK or EXEC got its memory

vars == <<mem, mp_seg, result>>

TypeOK ==
  /\ mem \in Tables
  /\ mp_seg \in [User -> Image]
  /\ result \in {"OK", "NO_MEM"}

InitImage ==
  LET init_org == NrReserved - InitText - InitData
  IN  [sep |-> InitText # 0,
       T |-> [mem_len |-> InitText, mem_phys |-> init_org],
       D |-> [mem_len |-> InitData, mem_phys |-> init_org + InitText],
       S |-> [mem_vir |-> InitText + InitData, mem_len |-> 0,
              mem_phys |-> init_org + InitText + InitData]]

\* After mm_init() and FS's BRK2.
Init ==
  /\ mem = alloc_mem(mem_init(NrClicks), NrReserved).m
  /\ mp_seg = [p \in User |-> IF p = INIT_PROC_NR THEN InitImage ELSE NoImage]
  /\ result = "OK"

InUse(p) == mp_seg[p] # NoImage
-----------------------------------------------------------------------------
(* FORK.                                                                   *)

\* Mutant: without the gap between data and stack.
prog_clicks_no_gap(s) == s.T.mem_len + s.D.mem_len + s.S.mem_len

prog_clicks(s) == s.T.mem_len + s.S.mem_vir + s.S.mem_len

Copy(s, child_base) ==
  LET data == child_base + s.T.mem_len
  IN  [s EXCEPT !.T.mem_phys = child_base,
                !.D.mem_phys = data,
                !.S.mem_phys = data + (s.S.mem_phys - s.D.mem_phys)]

do_fork(p) ==
  LET got   == alloc_mem(mem, prog_clicks(mp_seg[p]))
      child == Min({q \in User : ~ InUse(q)})
  IN  /\ InUse(p)
      /\ \E q \in User : ~ InUse(q)
      /\ mem' = got.m
      /\ IF got.base = NO_MEM
         THEN result' = "NO_MEM" /\ UNCHANGED mp_seg
         ELSE /\ result' = "OK"
              /\ mp_seg' = [mp_seg EXCEPT ![child] = Copy(mp_seg[p], got.base)]
-----------------------------------------------------------------------------
(* The end of a process.                                                   *)

\* The size of the image, as cleanup() and new_mem() compute it.
old_clicks(s) == s.S.mem_vir + s.S.mem_len + (IF s.sep THEN s.T.mem_len ELSE 0)

cleanup(p) ==
  /\ InUse(p)
  /\ mem' = free_mem(mem, mp_seg[p].T.mem_phys, old_clicks(mp_seg[p]))
  /\ mp_seg' = [mp_seg EXCEPT ![p] = NoImage]
  /\ result' = "OK"
-----------------------------------------------------------------------------
(* Do the sizes fit?                                                       *)

CLICK_SHIFT == 4
CLICK_SIZE  == 2 ^ CLICK_SHIFT
PAGE_SIZE   == 16

Clicks(bytes) == (bytes + CLICK_SIZE - 1) \div CLICK_SIZE
\* read_header() rounds with the wrong constant.
HeaderClicks(bytes) == (bytes + CLICK_SHIFT - 1) \div CLICK_SIZE

\* In 16 bits.
Pages(clicks) == ((clicks * CLICK_SIZE + PAGE_SIZE - 1) % 2 ^ 16) \div PAGE_SIZE

size_ok(sep, tc, dc, sc, dvir, s_vir) ==
  /\ IF sep THEN Pages(tc) <= MAX_PAGES /\ Pages(dc) + Pages(sc) <= MAX_PAGES
     ELSE Pages(tc) + Pages(dc) + Pages(sc) <= MAX_PAGES
  /\ dvir + dc <= s_vir
-----------------------------------------------------------------------------
(* BRK, and the stack for a signal.                                        *)

Collides(s, data_clicks, sp_click) ==
  LET lower == IF s.S.mem_vir > sp_click THEN sp_click ELSE s.S.mem_vir
  IN  lower < data_clicks

Moved(s, data_clicks, sp_click) ==
  LET delta == s.S.mem_vir - sp_click
      grown == [s EXCEPT !.D.mem_len = data_clicks]
  IN  IF delta > 0
      THEN [grown EXCEPT !.S.mem_vir = @ - delta, !.S.mem_phys = @ - delta,
                         !.S.mem_len = @ + delta]
      ELSE grown

\* adjust() either moves the segments or, with ENOMEM, leaves them as they were.
CanAdjust(s, data_clicks, sp_click) ==
  LET moved == Moved(s, data_clicks, sp_click)
  IN  /\ sp_click < s.S.mem_vir + s.S.mem_len
      /\ ~ Collides(s, data_clicks, sp_click)
      /\ size_ok(s.sep, s.T.mem_len, moved.D.mem_len, moved.S.mem_len, 0, moved.S.mem_vir)

do_brk(p, new_clicks, sp_click) ==
  /\ InUse(p)
  /\ CanAdjust(mp_seg[p], new_clicks, sp_click)
  /\ mp_seg' = [mp_seg EXCEPT ![p] = Moved(@, new_clicks, sp_click)]
  /\ UNCHANGED <<mem, result>>

\* A signal is pushed on the stack; the process ends if adjust() fails.
sig_proc(p, sp_click) == do_brk(p, mp_seg[p].D.mem_len, sp_click)
-----------------------------------------------------------------------------
(* EXEC.                                                                   *)

TextBytes(f) == IF f.sep THEN f.text ELSE 0
DataBytes(f) == IF f.sep THEN f.data ELSE f.text + f.data

\* What read_header() accepts.  The origin of the stack is computed in 16 bits.
Feasible(f) ==
  LET tc == HeaderClicks(TextBytes(f))
      dc == HeaderClicks(DataBytes(f))
      sc == Clicks(f.stk)
      totc == Clicks(f.tot)
      dvir == IF f.sep THEN 0 ELSE tc
  IN  /\ f.tot # 0
      /\ dc < totc
      /\ size_ok(f.sep, tc, dc, sc, dvir, (dvir + totc - sc) % 2 ^ 16)

NewImage(f, new_base) ==
  LET text  == Clicks(TextBytes(f))
      data  == Clicks(DataBytes(f))
      stack == Clicks(f.stk)
      s_vir == Clicks(f.tot) - stack
  IN  [sep |-> f.sep,
       T |-> [mem_len |-> text, mem_phys |-> new_base],
       D |-> [mem_len |-> data, mem_phys |-> new_base + text],
       S |-> [mem_vir |-> s_vir, mem_len |-> stack, mem_phys |-> new_base + text + s_vir]]

EnoughCore(p, clicks) == clicks <= max_hole(mem)

do_exec(p, f) ==
  LET clicks == Clicks(TextBytes(f)) + Clicks(f.tot)
      old    == free_mem(mem, mp_seg[p].T.mem_phys, old_clicks(mp_seg[p]))
      got    == alloc_mem(old, clicks)
  IN  /\ InUse(p)
      /\ Feasible(f)
      /\ Clicks(DataBytes(f)) + Clicks(f.stk) <= Clicks(f.tot)
      /\ IF ~ EnoughCore(p, clicks)
         THEN result' = "NO_MEM" /\ UNCHANGED <<mem, mp_seg>>
         ELSE /\ result' = "OK"
              /\ mem' = [got.m EXCEPT !.panicked = @ \/ got.base = NO_MEM]
              /\ mp_seg' = [mp_seg EXCEPT ![p] = NewImage(f, got.base)]
-----------------------------------------------------------------------------
Next ==
  /\ ~ mem.panicked
  /\ \/ do_fork(INIT_PROC_NR)
     \/ \E p \in User \ {INIT_PROC_NR} :
          \/ do_fork(p)
          \/ cleanup(p)
          \/ \E new_clicks, sp_click \in Count : do_brk(p, new_clicks, sp_click)
          \/ \E sp_click \in Count : sig_proc(p, sp_click)
          \/ \E f \in Programs : do_exec(p, f)

Spec == Init /\ [][Next]_vars
-----------------------------------------------------------------------------
(* Properties.                                                             *)

HoleOf(hp) == piece(mem.hole[hp].h_base, mem.hole[hp].h_len)
BlockOf(p) == piece(mp_seg[p].T.mem_phys, old_clicks(mp_seg[p]))

\* Every entry of the hole table is in one of the two lists, once: no routine
\* loses one or leaves a link to a slot that was given back.
SlotsListed ==
  LET both == HoleList(mem) \o FreeList(mem)
  IN  IsInjective(both) /\ ToSet(both) = Slot

\* The hole list is in order of address, without empty or adjacent holes.
HolesOrdered ==
  LET list == HoleList(mem)
  IN  /\ \A i \in 1 .. Len(list) : mem.hole[list[i]].h_len > 0
      /\ \A i \in 2 .. Len(list) : End(HoleOf(list[i - 1])) < mem.hole[list[i]].h_base

\* What is freed is what was allocated: each click is in a hole, in the image of
\* one process or reserved, and never in two, although three routines compute
\* the size of an image in their own way and BRK moves its parts.
ClicksAccounted ==
  LET pieces == {HoleOf(hp) : hp \in ToSet(HoleList(mem))}
                  \cup {BlockOf(p) : p \in {q \in User \ {INIT_PROC_NR} : InUse(q)}}
                  \cup {Reserved}
  IN  \A c \in 0 .. NrClicks - 1 : Cardinality({b \in pieces : c \in ClicksOf(b)}) = 1

\* Text, data and stack lie in the image of their process, one behind the other,
\* and virtual and physical addresses of the stack agree.
SegmentsInside ==
  \A p \in User \ {INIT_PROC_NR} : InUse(p) =>
    LET s == mp_seg[p]
    IN  /\ s.T.mem_phys + s.T.mem_len = s.D.mem_phys
        /\ s.D.mem_phys + s.D.mem_len <= s.S.mem_phys
        /\ s.S.mem_phys = s.D.mem_phys + s.S.mem_vir
        /\ s.S.mem_phys + s.S.mem_len = End(BlockOf(p))

\* MM never panics: the hole table suffices, and EXEC finds the memory that
\* max_hole() promised before the old image was given up.
NeverPanics == ~ mem.panicked

\* The pointers implement the set of holes.
HS == INSTANCE HoleSet WITH
        holes  <- {HoleOf(hp) : hp \in ToSet(HoleList(mem))},
        blocks <- {BlockOf(p) : p \in {q \in User \ {INIT_PROC_NR} : InUse(q)}} \cup {Reserved},
        result <- result

ImplementsHoleSet == HS!Spec
=============================================================================
