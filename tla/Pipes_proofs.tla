---------------------------- MODULE Pipes_proofs -----------------------------
(***************************************************************************)
(* Theorems about the pipes of FS: the counts are right, nobody sleeps     *)
(* without a partner or against one, FS does not panic, and what processes *)
(* see of a pipe is a channel, as long as the known faults are kept out.   *)
(***************************************************************************)
EXTENDS Pipes, FiniteSetTheorems, WellFoundedInduction, TLAPS

\* What others hold of the pipe that q hangs on, and the end that lets it go on.
End(fs_call)   == IF fs_call = "READ" THEN "R" ELSE "W"
Other(bits)    == IF bits = "R" THEN "W" ELSE "R"
WakesUp(bits)  == IF bits = "R" THEN "WRITE" ELSE "READ"

FilpOf(s, q) == s.fp_filp[q][s.fp_saved[q].fd]

On(s, q, ip, fs_call) ==
  /\ s.fp_suspended[q]
  /\ s.fp_saved[q].fs_call = fs_call
  /\ s.filp[FilpOf(s, q)].filp_ino = ip

Sleeps(s, q) == s.fp_suspended[q] /\ ~ s.fp_revived[q]

\* Tables without the bounds that follow from the counts.
Loose ==
  [fp_filp      : [User -> [Fd -> Filp \cup {NIL_FILP}]],
   fp_suspended : [User -> BOOLEAN],
   fp_revived   : [User -> BOOLEAN],
   fp_saved     : [User -> Saved \cup {NoCall}],
   filp  : [Filp -> [filp_mode : {"R", "W", "none"}, filp_count : Nat,
                     filp_ino : Pipe \cup {-1}, filp_pos : 0 .. PIPE_SIZE]],
   inode : [Pipe -> [i_count : Nat, i_size : 0 .. PIPE_SIZE]],
   susp_count : Int,
   reviving   : Int,
   panicked   : BOOLEAN]

Holders(s, f) == {pf \in User \X Fd : s.fp_filp[pf[1]][pf[2]] = f}
EndsOf(s, ip) == {f \in Filp : s.filp[f].filp_count # 0 /\ s.filp[f].filp_ino = ip}

Counted(s) ==
  /\ \A f \in Filp : s.filp[f].filp_count = Cardinality(Holders(s, f))
  /\ \A ip \in Pipe : s.inode[ip].i_count = Cardinality(EndsOf(s, ip))

Agree(s) ==
  /\ s.susp_count = Cardinality({q \in User : Sleeps(s, q)})
  /\ s.reviving = Cardinality({q \in User : s.fp_revived[q]})

\* A filp slot in use is one end of a pipe, and each end has one slot.
EndsRight(s) ==
  /\ \A f \in Filp : s.filp[f].filp_count # 0 =>
       s.filp[f].filp_ino \in Pipe /\ s.filp[f].filp_mode \in {"R", "W"}
  /\ \A f, g \in Filp :
       (/\ s.filp[f].filp_count # 0 /\ s.filp[g].filp_count # 0
        /\ s.filp[f].filp_ino = s.filp[g].filp_ino
        /\ s.filp[f].filp_mode = s.filp[g].filp_mode) => f = g

\* The writer goes on at the end; the reader is never beyond it, and at it only when the pipe starts anew.
PositionRight(end, size) ==
  /\ end.filp_mode = "W" => end.filp_pos = size
  /\ end.filp_mode = "R" => end.filp_pos < size \/ (end.filp_pos = 0 /\ size = 0)

PositionsRight(s) ==
  \A f \in Filp : s.filp[f].filp_count # 0 =>
    PositionRight(s.filp[f], s.inode[s.filp[f].filp_ino].i_size)

\* Who is suspended has a call saved on an end of the right kind.
CallRight(s, q) ==
  /\ s.fp_saved[q] \in Saved
  /\ FilpOf(s, q) # NIL_FILP
  /\ s.filp[FilpOf(s, q)].filp_mode = End(s.fp_saved[q].fs_call)
  /\ s.fp_saved[q].fs_call = "WRITE" => s.fp_saved[q].nbytes <= PIPE_SIZE

CallsRight(s) ==
  \A q \in User : /\ s.fp_suspended[q] => CallRight(s, q)
                  /\ s.fp_revived[q] => s.fp_suspended[q]

PartnersRight(s) ==
  \A q \in User, ip \in Pipe :
    /\ Sleeps(s, q) /\ On(s, q, ip, "READ") => find_filp(s, ip, "W") # {}
    /\ Sleeps(s, q) /\ On(s, q, ip, "WRITE") => find_filp(s, ip, "R") # {}

\* A reader sleeps only at an empty pipe.
ReadersWait(s) ==
  \A q \in User, ip \in Pipe : Sleeps(s, q) /\ On(s, q, ip, "READ") => s.inode[ip].i_size = 0

OneReader(s) ==
  \A p, q \in User, ip \in Pipe : On(s, p, ip, "READ") /\ On(s, q, ip, "READ") => p = q

\* Where a reader and a writer are suspended on one pipe, one of them is about to go on; if that is
\* the writer, there is just one such writer, for it will wake the reader.
WritersGoOn(s) ==
  \A r, w \in User, ip \in Pipe :
    On(s, r, ip, "READ") /\ On(s, w, ip, "WRITE") =>
      /\ ~ (s.fp_revived[r] /\ s.fp_revived[w])
      /\ ~ s.fp_revived[r] =>
           \E v \in User : /\ On(s, v, ip, "WRITE") /\ s.fp_revived[v]
                           /\ \A u \in User : On(s, u, ip, "WRITE") /\ s.fp_revived[u] => u = v

\* What every routine keeps.
Base(s) ==
  /\ s \in Loose /\ Counted(s) /\ Agree(s) /\ EndsRight(s) /\ PositionsRight(s) /\ CallsRight(s)
  /\ PartnersRight(s) /\ ReadersWait(s)

PipesInv ==
  /\ Base(fs) /\ OneReader(fs) /\ WritersGoOn(fs) /\ ~ fs.panicked
  /\ user \in [User -> {"free", "running", "waiting"}]
  /\ \A p \in User : user[p] = "waiting" <=> fs.fp_suspended[p]
  /\ \A p \in User : user[p] = "free" => \A fd \in Fd : fs.fp_filp[p][fd] = NIL_FILP
-----------------------------------------------------------------------------
(* Numbers and finite sets.                                                *)

LEMMA Sizes0 ==
  /\ NR_PROCS \in Nat /\ NR_PROCS > 2 /\ NR_FDS \in Nat /\ NR_FDS >= 1
  /\ NR_FILPS \in Nat /\ PIPE_SIZE \in Nat /\ PIPE_SIZE >= 1
  /\ Pipe \subseteq Nat /\ User \subseteq Nat /\ Fd \subseteq Nat /\ Filp \subseteq Nat
  /\ NIL_FILP \notin Filp /\ -1 \notin Pipe
  BY NrProcsAssumption, TablesAssumption, PipeAssumption, SizeAssumption
     DEF User, Fd, Filp, NIL_FILP, INIT_PROC_NR

LEMMA AllFinite ==
  /\ IsFiniteSet(User) /\ IsFiniteSet(Fd) /\ IsFiniteSet(Filp) /\ IsFiniteSet(User \X Fd)
  /\ Cardinality(User) = NR_PROCS - 2 /\ Cardinality(Fd) = NR_FDS
  /\ Cardinality(User \X Fd) <= NR_FDS * NR_PROCS
<1>1. IsFiniteSet(User) /\ Cardinality(User) = NR_PROCS - 2
  <2>1. /\ IsFiniteSet(2 .. NR_PROCS - 1)
        /\ Cardinality(2 .. NR_PROCS - 1) = IF 2 > NR_PROCS - 1 THEN 0 ELSE (NR_PROCS - 1) - 2 + 1
    BY Sizes0, FS_Interval
  <2> QED
    BY <2>1, Sizes0 DEF User, INIT_PROC_NR
<1>2. IsFiniteSet(Fd) /\ Cardinality(Fd) = NR_FDS
  <2>1. /\ IsFiniteSet(0 .. NR_FDS - 1)
        /\ Cardinality(0 .. NR_FDS - 1) = IF 0 > NR_FDS - 1 THEN 0 ELSE (NR_FDS - 1) - 0 + 1
    BY Sizes0, FS_Interval
  <2> QED
    BY <2>1, Sizes0 DEF Fd
<1>3. IsFiniteSet(Filp)
  BY Sizes0, FS_Interval DEF Filp
<1>4. IsFiniteSet(User \X Fd) /\ Cardinality(User \X Fd) = (NR_PROCS - 2) * NR_FDS
  BY <1>1, <1>2, FS_Product
<1>5. (NR_PROCS - 2) * NR_FDS <= NR_FDS * NR_PROCS
  BY Sizes0
<1> QED
  BY <1>1, <1>2, <1>3, <1>4, <1>5

\* The sets that are counted.
LEMMA PartsFinite ==
  /\ \A R \in SUBSET User : IsFiniteSet(R) /\ Cardinality(R) \in 0 .. NR_PROCS - 2
  /\ \A R \in SUBSET Filp : IsFiniteSet(R) /\ Cardinality(R) \in Nat
  /\ \A R \in SUBSET (User \X Fd) : IsFiniteSet(R) /\ Cardinality(R) \in 0 .. NR_FDS * NR_PROCS
<1>1. ASSUME NEW R \in SUBSET User PROVE IsFiniteSet(R) /\ Cardinality(R) \in 0 .. NR_PROCS - 2
  <2>1. IsFiniteSet(R) /\ Cardinality(R) <= Cardinality(User)
    BY AllFinite, FS_Subset
  <2>2. Cardinality(R) \in Nat
    BY <2>1, FS_CardinalityType
  <2> QED
    BY <2>1, <2>2, AllFinite, Sizes0
<1>2. ASSUME NEW R \in SUBSET Filp PROVE IsFiniteSet(R) /\ Cardinality(R) \in Nat
  BY AllFinite, FS_Subset, FS_CardinalityType
<1>3. ASSUME NEW R \in SUBSET (User \X Fd)
      PROVE  IsFiniteSet(R) /\ Cardinality(R) \in 0 .. NR_FDS * NR_PROCS
  <2>1. IsFiniteSet(R) /\ Cardinality(R) <= Cardinality(User \X Fd)
    BY AllFinite, FS_Subset
  <2>2. Cardinality(R) \in Nat /\ Cardinality(User \X Fd) \in Nat
    BY <2>1, AllFinite, FS_CardinalityType
  <2>3. NR_FDS * NR_PROCS \in Nat
    BY Sizes0
  <2> QED
    BY <2>1, <2>2, <2>3, AllFinite
<1> QED
  BY <1>1, <1>2, <1>3

\* A set of naturals that is not empty has a least element.
LEMMA LeastExists ==
  ASSUME NEW I \in SUBSET Nat, I # {}
  PROVE  Min(I) \in I /\ \A j \in I : Min(I) <= j
<1> DEFINE R == OpToRel(<, Nat)
<1>1. \A m, n \in Nat : m < n => <<m, n>> \in R
  BY Zenon DEF OpToRel
<1>2. IsWellFoundedOn(R, Nat)
  BY NatLessThanWellFounded
<1> HIDE DEF R
<1>3. PICK i \in I : \A j \in I : ~ (<<j, i>> \in R)
  BY <1>2, WFMin
<1>4. ASSUME NEW j \in I PROVE i <= j
  <2>1. i \in Nat /\ j \in Nat
    OBVIOUS
  <2>2. ~ (j < i)
    BY <1>1, <1>3, <2>1
  <2> QED
    BY <2>1, <2>2
<1> QED
  BY <1>3, <1>4 DEF Min

LEMMA LessOrMore ==
  ASSUME NEW a \in Int, NEW b \in Int
  PROVE  /\ Min({a, b}) = IF a <= b THEN a ELSE b
         /\ Max({a, b}) = IF a >= b THEN a ELSE b
<1>1. Min({a, b}) = IF a <= b THEN a ELSE b
  <2> DEFINE m == IF a <= b THEN a ELSE b
  <2>1. m \in {a, b} /\ \A y \in {a, b} : m <= y
    OBVIOUS
  <2>2. \A x \in {a, b} : (\A y \in {a, b} : x <= y) => x = m
    OBVIOUS
  <2> QED
    BY <2>1, <2>2 DEF Min
<1>2. Max({a, b}) = IF a >= b THEN a ELSE b
  <2> DEFINE m == IF a >= b THEN a ELSE b
  <2>1. m \in {a, b} /\ \A y \in {a, b} : m >= y
    OBVIOUS
  <2>2. \A x \in {a, b} : (\A y \in {a, b} : x >= y) => x = m
    OBVIOUS
  <2> QED
    BY <2>1, <2>2 DEF Max
<1> QED
  BY <1>1, <1>2
-----------------------------------------------------------------------------
(* release(): the processes of R, which were asleep, are to go on.         *)

WokenBy(s, r, R) ==
  /\ r \in Loose
  /\ r.fp_filp = s.fp_filp /\ r.fp_suspended = s.fp_suspended /\ r.fp_saved = s.fp_saved
  /\ r.filp = s.filp /\ r.inode = s.inode /\ r.panicked = s.panicked
  /\ \A q \in User : r.fp_revived[q] <=> q \in R \/ s.fp_revived[q]
  /\ r.susp_count = s.susp_count - Cardinality(R)
  /\ r.reviving = s.reviving + Cardinality(R)

Hangers(s, ip, fs_call) == {q \in User : On(s, q, ip, fs_call)}

\* Nobody who hangs has closed his descriptor, so the null pointer is not read.
LEMMA HangsOn ==
  ASSUME NEW s, CallsRight(s), NEW q \in User, NEW ip, NEW fs_call, NEW wild
  PROVE  Hangs(s, q, ip, fs_call, wild) <=> On(s, q, ip, fs_call)
  BY DEF CallsRight, CallRight, Hangs, On, FilpOf

Firsts(H, count) == {p \in H : Cardinality({q \in H : q < p}) < count}

LEMMA ReleasedOnes ==
  ASSUME NEW H \in SUBSET User, NEW count \in {1, NR_PROCS}
  PROVE  /\ Firsts(H, count) \subseteq H
         /\ count = NR_PROCS => Firsts(H, count) = H
         /\ count = 1 /\ H # {} => \E v \in H : Firsts(H, count) = {v}
<1> DEFINE R == Firsts(H, count)
           Below(p) == {q \in H : q < p}
<1>0. R = {p \in H : Cardinality(Below(p)) < count}
  BY DEF Firsts
<1>c. R \subseteq H
  BY <1>0
<1>1. \A p \in H : IsFiniteSet(Below(p)) /\ Cardinality(Below(p)) \in 0 .. NR_PROCS - 2
  BY PartsFinite
<1>b. \A p \in H : \A q : q \in Below(p) <=> q \in H /\ q < p
  OBVIOUS
<1> HIDE DEF Below, R
<1>2. count = NR_PROCS => R = H
  <2>1. \A p \in H : Cardinality(Below(p)) < NR_PROCS
    BY <1>1, Sizes0
  <2> QED
    BY <1>0, <2>1
<1>3. ASSUME count = 1, H # {} PROVE \E v \in H : R = {v}
  <2>1. Min(H) \in H /\ \A q \in H : Min(H) <= q
    BY <1>3, LeastExists, Sizes0
  <2> DEFINE v == Min(H)
  <2>2. NR_PROCS > 2 /\ \A p \in H : p \in Nat
    BY Sizes0
  <2>3. ASSUME NEW p \in H PROVE p \in R <=> p = v
    <3>1. Cardinality(Below(p)) \in Nat
      BY <1>1
    <3>2. p \in R <=> Cardinality(Below(p)) = 0
      BY <1>0, <1>3, <3>1, <2>2
    <3>3. p \in R <=> Below(p) = {}
      BY <3>2, <1>1, FS_EmptySet
    <3>4. Below(p) = {} <=> p = v
      <4> HIDE DEF v
      <4>1. v \in H /\ \A q \in H : v <= q
        BY <2>1 DEF v
      <4>2. CASE p = v
        <5>1. ~ \E q : q \in Below(p)
          BY <4>1, <4>2, <2>2, <1>b
        <5> QED
          BY <4>2, <5>1
      <4>3. CASE p # v
        <5>1. v < p
          BY <4>1, <4>3, <2>2
        <5> QED
          BY <4>1, <4>3, <5>1, <1>b
      <4> QED
        BY <4>2, <4>3
    <3> QED
      BY <3>3, <3>4
  <2>4. v \in H
    BY <2>1
  <2> HIDE DEF v
  <2>5. R = {v}
    BY <2>3, <2>4, <1>c
  <2> QED
    BY <2>4, <2>5
<1> QED
  BY <1>2, <1>3, <1>c DEF R

LEMMA ReleaseLemma ==
  ASSUME NEW s \in Loose, CallsRight(s), NEW ip, NEW fs_call, NEW count \in {1, NR_PROCS}, NEW wild
  PROVE  \E R \in SUBSET Hangers(s, ip, fs_call) :
           /\ WokenBy(s, release(s, ip, fs_call, count, wild), R)
           /\ count = NR_PROCS => R = Hangers(s, ip, fs_call)
           /\ count = 1 /\ Hangers(s, ip, fs_call) # {} => \E v \in Hangers(s, ip, fs_call) : R = {v}
<1> DEFINE H == {q \in User : Hangs(s, q, ip, fs_call, wild)}
           R == Firsts(H, count)
           r == release(s, ip, fs_call, count, wild)
<1>1. H = Hangers(s, ip, fs_call)
  BY HangsOn DEF Hangers
<1>2. r = [s EXCEPT !.fp_revived = [p \in User |-> p \in R \/ @[p]],
                    !.reviving = @ + Cardinality(R), !.susp_count = @ - Cardinality(R)]
  BY Zenon DEF release, Firsts
<1>3. H \in SUBSET User
  OBVIOUS
<1> HIDE DEF H
<1>4. /\ R \subseteq H
      /\ count = NR_PROCS => R = H
      /\ count = 1 /\ H # {} => \E v \in H : R = {v}
  BY <1>3, ReleasedOnes
<1> HIDE DEF R
<1>5. Cardinality(R) \in Nat
  BY <1>3, <1>4, PartsFinite
<1> HIDE DEF r
<1>6. WokenBy(s, r, R)
  <2> DEFINE V == [p \in User |-> p \in R \/ s.fp_revived[p]]
  <2>1. V \in [User -> BOOLEAN] /\ \A q \in User : V[q] <=> q \in R \/ s.fp_revived[q]
    OBVIOUS
  <2>2. r = [s EXCEPT !.fp_revived = V, !.reviving = @ + Cardinality(R),
                      !.susp_count = @ - Cardinality(R)]
    BY <1>2, Zenon
  <2> HIDE DEF V
  <2>0. s.reviving + Cardinality(R) \in Int /\ s.susp_count - Cardinality(R) \in Int
    BY <1>5 DEF Loose
  <2>3. r \in Loose /\ r.fp_revived = V
    BY <2>0, <2>1, <2>2 DEF Loose
  <2>4. /\ r.fp_filp = s.fp_filp /\ r.fp_suspended = s.fp_suspended /\ r.fp_saved = s.fp_saved
        /\ r.filp = s.filp /\ r.inode = s.inode /\ r.panicked = s.panicked
        /\ r.susp_count = s.susp_count - Cardinality(R)
        /\ r.reviving = s.reviving + Cardinality(R)
    BY <2>2 DEF Loose
  <2> QED
    BY <2>1, <2>3, <2>4 DEF WokenBy
<1> QED
  BY <1>1, <1>4, <1>6 DEF r

\* The counts follow, if none of those who are released was so already.
LEMMA WakeCounts ==
  ASSUME NEW s \in Loose, NEW r, NEW R \in SUBSET User, WokenBy(s, r, R), Agree(s),
         \A q \in R : Sleeps(s, q)
  PROVE  Agree(r)
<1> DEFINE S0 == {q \in User : Sleeps(s, q)}
           V0 == {q \in User : s.fp_revived[q]}
           S1 == {q \in User : Sleeps(r, q)}
           V1 == {q \in User : r.fp_revived[q]}
<1>1. S1 = S0 \ R /\ S0 \cap R = R
  BY DEF WokenBy, Sleeps
<1>2. V1 = V0 \cup R /\ V0 \cap R = {}
  BY DEF WokenBy, Sleeps
<1>3. IsFiniteSet(S0) /\ IsFiniteSet(V0) /\ IsFiniteSet(R)
  BY PartsFinite
<1>4. s.susp_count = Cardinality(S0) /\ s.reviving = Cardinality(V0)
  BY DEF Agree
<1>5. r.susp_count = s.susp_count - Cardinality(R) /\ r.reviving = s.reviving + Cardinality(R)
  BY DEF WokenBy
<1>6. Cardinality(S0) \in Nat /\ Cardinality(V0) \in Nat /\ Cardinality(R) \in Nat
  BY <1>3, FS_CardinalityType
<1> HIDE DEF S0, V0, S1, V1
<1>7. Cardinality(S1) = Cardinality(S0) - Cardinality(R)
  <2>1. Cardinality(S0 \ R) = Cardinality(S0) - Cardinality(S0 \cap R)
    BY <1>3, FS_Difference
  <2> QED
    BY <1>1, <2>1
<1>8. Cardinality(V1) = Cardinality(V0) + Cardinality(R)
  <2>1. Cardinality(V1) = Cardinality(V0) + Cardinality(R) - Cardinality(V0 \cap R)
    BY <1>2, <1>3, FS_Union
  <2>2. Cardinality(V0 \cap R) = 0
    BY <1>2, FS_EmptySet
  <2> QED
    BY <2>1, <2>2, <1>6
<1>9. r.susp_count = Cardinality(S1) /\ r.reviving = Cardinality(V1)
  BY <1>4, <1>5, <1>7, <1>8
<1> QED
  BY <1>9 DEF Agree, S1, V1

\* Who hangs where, and who holds what, stays.
LEMMA WakeSame ==
  ASSUME NEW s, NEW r, NEW R, WokenBy(s, r, R)
  PROVE  /\ \A q \in User : \A ip, c : On(r, q, ip, c) <=> On(s, q, ip, c)
         /\ \A q \in User : Sleeps(r, q) <=> Sleeps(s, q) /\ q \notin R
         /\ \A ip, bits : find_filp(r, ip, bits) = find_filp(s, ip, bits)
         /\ \A f : Holders(r, f) = Holders(s, f)
         /\ \A ip : EndsOf(r, ip) = EndsOf(s, ip)
  BY DEF WokenBy, On, FilpOf, Sleeps, find_filp, Holders, EndsOf

LEMMA WakeBase ==
  ASSUME NEW s, NEW r, NEW R \in SUBSET User, WokenBy(s, r, R), Base(s), \A q \in R : Sleeps(s, q)
  PROVE  Base(r)
<1>1. r \in Loose /\ s \in Loose
  BY DEF WokenBy, Base
<1>2. Agree(r)
  BY <1>1, WakeCounts DEF Base
<1>3. Counted(r)
  BY WakeSame DEF WokenBy, Base, Counted
<1>4. EndsRight(r) /\ PositionsRight(r)
  BY DEF WokenBy, Base, EndsRight, PositionsRight
<1>5. CallsRight(r)
  <2>1. CallsRight(s)
    BY DEF Base
  <2>2. /\ r.fp_filp = s.fp_filp /\ r.fp_suspended = s.fp_suspended /\ r.fp_saved = s.fp_saved
        /\ r.filp = s.filp
        /\ \A q \in User : r.fp_revived[q] <=> q \in R \/ s.fp_revived[q]
    BY DEF WokenBy
  <2>3. \A q \in User : r.fp_revived[q] => r.fp_suspended[q]
    BY <2>1, <2>2 DEF CallsRight, Sleeps
  <2>4. ASSUME NEW q \in User, r.fp_suspended[q] PROVE CallRight(r, q)
    <3>1. CallRight(s, q)
      BY <2>1, <2>2, <2>4 DEF CallsRight
    <3> QED
      BY <2>2, <3>1 DEF CallRight, FilpOf
  <2> QED
    BY <2>3, <2>4 DEF CallsRight
<1>6. PartnersRight(r)
  BY WakeSame DEF Base, PartnersRight
<1>7. ReadersWait(r)
  BY WakeSame DEF WokenBy, Base, ReadersWait
<1> QED
  BY <1>1, <1>2, <1>3, <1>4, <1>5, <1>6, <1>7 DEF Base
-----------------------------------------------------------------------------
(* suspend(), and the end of a suspension: by get_work() for a process     *)
(* that goes on, by do_exit() for one that dies asleep.                    *)

SuspendedAs(s, r, p, call) ==
  /\ r \in Loose
  /\ r.fp_filp = s.fp_filp /\ r.fp_revived = s.fp_revived
  /\ r.filp = s.filp /\ r.inode = s.inode /\ r.panicked = s.panicked
  /\ r.fp_suspended = [s.fp_suspended EXCEPT ![p] = TRUE]
  /\ r.fp_saved = [s.fp_saved EXCEPT ![p] = call]
  /\ r.susp_count = s.susp_count + 1 /\ r.reviving = s.reviving

LEMMA SuspendLemma ==
  ASSUME NEW s \in Loose, NEW p \in User, NEW call \in Saved
  PROVE  SuspendedAs(s, suspend(s, p, call), p, call)
<1> DEFINE r == suspend(s, p, call)
<1>1. r = [s EXCEPT !.susp_count = @ + 1, !.fp_suspended[p] = TRUE, !.fp_saved[p] = call]
  BY DEF suspend
<1>2. /\ s.susp_count + 1 \in Int
      /\ [s.fp_suspended EXCEPT ![p] = TRUE] \in [User -> BOOLEAN]
      /\ [s.fp_saved EXCEPT ![p] = call] \in [User -> Saved \cup {NoCall}]
  BY DEF Loose
<1> HIDE DEF r
<1>3. r \in Loose
  BY <1>1, <1>2 DEF Loose
<1>4. /\ r.fp_filp = s.fp_filp /\ r.fp_revived = s.fp_revived
      /\ r.filp = s.filp /\ r.inode = s.inode /\ r.panicked = s.panicked
      /\ r.fp_suspended = [s.fp_suspended EXCEPT ![p] = TRUE]
      /\ r.fp_saved = [s.fp_saved EXCEPT ![p] = call]
      /\ r.susp_count = s.susp_count + 1 /\ r.reviving = s.reviving
  BY <1>1 DEF Loose
<1> QED
  BY <1>3, <1>4 DEF SuspendedAs, r

\* The same tables of descriptors.
LEMMA SameEnds ==
  ASSUME NEW s, NEW r, r.filp = s.filp, r.fp_filp = s.fp_filp, r.inode = s.inode
  PROVE  /\ \A ip, bits : find_filp(r, ip, bits) = find_filp(s, ip, bits)
         /\ Counted(s) => Counted(r)
         /\ EndsRight(s) => EndsRight(r)
         /\ PositionsRight(s) => PositionsRight(r)
  BY DEF find_filp, Counted, Holders, EndsOf, EndsRight, PositionsRight

LEMMA SuspendSame ==
  ASSUME NEW s \in Loose, NEW r, NEW p \in User, NEW call, SuspendedAs(s, r, p, call)
  PROVE  /\ \A q \in User : \A ip, c : q # p => (On(r, q, ip, c) <=> On(s, q, ip, c))
         /\ \A ip, c : On(r, p, ip, c) <=>
              c = call.fs_call /\ ip = s.filp[s.fp_filp[p][call.fd]].filp_ino
         /\ \A q \in User : q # p => (Sleeps(r, q) <=> Sleeps(s, q))
         /\ \A q \in User : q # p => r.fp_saved[q] = s.fp_saved[q] /\ FilpOf(r, q) = FilpOf(s, q)
         /\ r.fp_saved[p] = call /\ FilpOf(r, p) = s.fp_filp[p][call.fd] /\ r.fp_suspended[p]
         /\ \A q \in User : q # p => (r.fp_suspended[q] <=> s.fp_suspended[q])
<1>1. \A q \in User : /\ q # p => r.fp_saved[q] = s.fp_saved[q]
                      /\ q # p => (r.fp_suspended[q] <=> s.fp_suspended[q])
  BY DEF SuspendedAs, Loose
<1>2. r.fp_saved[p] = call /\ r.fp_suspended[p]
  BY DEF SuspendedAs, Loose
<1>3. r.fp_filp = s.fp_filp /\ r.fp_revived = s.fp_revived /\ r.filp = s.filp
  BY DEF SuspendedAs
<1> QED
  BY <1>1, <1>2, <1>3 DEF On, FilpOf, Sleeps

LEMMA SuspendBase ==
  ASSUME NEW s, NEW r, NEW p \in User, NEW call \in Saved, Base(s), SuspendedAs(s, r, p, call),
         ~ s.fp_suspended[p],
         s.fp_filp[p][call.fd] # NIL_FILP,
         s.filp[s.fp_filp[p][call.fd]].filp_mode = End(call.fs_call),
         call.fs_call = "WRITE" => call.nbytes <= PIPE_SIZE,
         find_filp(s, s.filp[s.fp_filp[p][call.fd]].filp_ino, Other(End(call.fs_call))) # {},
         call.fs_call = "READ" =>
           \A ip \in Pipe : ip = s.filp[s.fp_filp[p][call.fd]].filp_ino => s.inode[ip].i_size = 0
  PROVE  Base(r)
<1>1. s \in Loose /\ r \in Loose
  BY DEF Base, SuspendedAs
<1>ab. /\ \A q \in User : \A ip, c : q # p => (On(r, q, ip, c) <=> On(s, q, ip, c))
       /\ \A ip, c : On(r, p, ip, c) <=>
            c = call.fs_call /\ ip = s.filp[s.fp_filp[p][call.fd]].filp_ino
       /\ \A q \in User : q # p => (Sleeps(r, q) <=> Sleeps(s, q))
       /\ \A q \in User : q # p => r.fp_saved[q] = s.fp_saved[q] /\ FilpOf(r, q) = FilpOf(s, q)
       /\ r.fp_saved[p] = call /\ FilpOf(r, p) = s.fp_filp[p][call.fd] /\ r.fp_suspended[p]
       /\ \A q \in User : q # p => (r.fp_suspended[q] <=> s.fp_suspended[q])
  BY <1>1, SuspendSame
<1>a. /\ \A q \in User : \A ip, c : q # p => (On(r, q, ip, c) <=> On(s, q, ip, c))
      /\ \A q \in User : q # p => (Sleeps(r, q) <=> Sleeps(s, q))
      /\ \A q \in User : q # p => r.fp_saved[q] = s.fp_saved[q] /\ FilpOf(r, q) = FilpOf(s, q)
      /\ \A q \in User : q # p => (r.fp_suspended[q] <=> s.fp_suspended[q])
  BY <1>ab
<1>b. /\ \A ip, c : On(r, p, ip, c) <=>
           c = call.fs_call /\ ip = s.filp[s.fp_filp[p][call.fd]].filp_ino
      /\ r.fp_saved[p] = call /\ FilpOf(r, p) = s.fp_filp[p][call.fd] /\ r.fp_suspended[p]
  BY <1>ab
<1>2. ~ s.fp_revived[p]
  BY DEF Base, CallsRight
<1>3. Agree(r)
  <2> DEFINE S0 == {q \in User : Sleeps(s, q)}
             S1 == {q \in User : Sleeps(r, q)}
  <2>1. Sleeps(r, p) /\ ~ Sleeps(s, p)
    BY <1>1, <1>2, <1>b DEF Sleeps, SuspendedAs
  <2>2. \A q \in User : q # p => (Sleeps(r, q) <=> Sleeps(s, q))
    BY <1>a
  <2>3. S1 = S0 \cup {p} /\ p \notin S0 /\ IsFiniteSet(S0)
    BY <2>1, <2>2, PartsFinite
  <2>4. s.susp_count = Cardinality(S0) /\ s.reviving = Cardinality({q \in User : s.fp_revived[q]})
    BY DEF Base, Agree
  <2>5. r.susp_count = s.susp_count + 1 /\ r.reviving = s.reviving /\ r.fp_revived = s.fp_revived
    BY DEF SuspendedAs
  <2> HIDE DEF S0, S1
  <2>6. Cardinality(S1) = Cardinality(S0) + 1
    BY <2>3, FS_AddElement
  <2> QED
    BY <2>4, <2>5, <2>6 DEF Agree, S1
<1>4. Counted(r) /\ EndsRight(r) /\ PositionsRight(r)
  BY SameEnds DEF SuspendedAs, Base
<1>5. CallsRight(r)
  <2>1. CallRight(r, p)
    BY <1>b DEF CallRight, SuspendedAs
  <2>2. ASSUME NEW q \in User, q # p, r.fp_suspended[q] PROVE CallRight(r, q)
    <3>1. CallRight(s, q)
      BY <1>a, <2>2 DEF Base, CallsRight
    <3> QED
      BY <1>a, <2>2, <3>1 DEF CallRight, SuspendedAs
  <2>3. \A q \in User : r.fp_revived[q] => r.fp_suspended[q]
    BY <1>2, <1>a, <1>b DEF Base, CallsRight, SuspendedAs
  <2>4. \A q \in User : r.fp_suspended[q] => CallRight(r, q)
    BY <2>1, <2>2
  <2> QED
    BY <2>3, <2>4 DEF CallsRight
<1>6. \A ip, bits : find_filp(r, ip, bits) = find_filp(s, ip, bits)
  <2>1. r.filp = s.filp /\ r.fp_filp = s.fp_filp /\ r.inode = s.inode
    BY DEF SuspendedAs
  <2> QED
    BY <2>1, SameEnds
<1>7. PartnersRight(r)
  <2>1. ASSUME NEW q \in User, NEW ip \in Pipe, q # p
        PROVE  /\ Sleeps(r, q) /\ On(r, q, ip, "READ") => find_filp(r, ip, "W") # {}
               /\ Sleeps(r, q) /\ On(r, q, ip, "WRITE") => find_filp(r, ip, "R") # {}
    <3>1. /\ Sleeps(s, q) /\ On(s, q, ip, "READ") => find_filp(s, ip, "W") # {}
          /\ Sleeps(s, q) /\ On(s, q, ip, "WRITE") => find_filp(s, ip, "R") # {}
      BY DEF Base, PartnersRight
    <3>2. (Sleeps(r, q) <=> Sleeps(s, q)) /\ \A c : On(r, q, ip, c) <=> On(s, q, ip, c)
      BY <1>a, <2>1
    <3>3. \A bits : find_filp(r, ip, bits) = find_filp(s, ip, bits)
      BY <1>6
    <3> QED
      BY <3>1, <3>2, <3>3
  <2>2. ASSUME NEW ip \in Pipe
        PROVE  /\ On(r, p, ip, "READ") => find_filp(r, ip, "W") # {}
               /\ On(r, p, ip, "WRITE") => find_filp(r, ip, "R") # {}
    <3>1. \A c : On(r, p, ip, c) =>
            c = call.fs_call /\ ip = s.filp[s.fp_filp[p][call.fd]].filp_ino
      BY <1>b
    <3>2. \A c : On(r, p, ip, c) => c = call.fs_call /\ find_filp(s, ip, Other(End(c))) # {}
      BY <3>1
    <3>3. Other(End("READ")) = "W" /\ Other(End("WRITE")) = "R"
      BY DEF Other, End
    <3>4. \A bits : find_filp(r, ip, bits) = find_filp(s, ip, bits)
      BY <1>6
    <3> QED
      BY <3>2, <3>3, <3>4
  <2> QED
    BY <2>1, <2>2 DEF PartnersRight
<1>8. ReadersWait(r)
  <2>1. ASSUME NEW q \in User, NEW ip \in Pipe, q # p, Sleeps(r, q), On(r, q, ip, "READ")
        PROVE  r.inode[ip].i_size = 0
    BY <1>a, <2>1 DEF Base, ReadersWait, SuspendedAs
  <2>2. ASSUME NEW ip \in Pipe, On(r, p, ip, "READ") PROVE r.inode[ip].i_size = 0
    BY <1>b, <2>2 DEF SuspendedAs
  <2> QED
    BY <2>1, <2>2 DEF ReadersWait
<1> QED
  BY <1>1, <1>3, <1>4, <1>5, <1>7, <1>8 DEF Base

\* p, which was suspended, is not any more.
ForgottenAs(s, r, p) ==
  /\ r \in Loose
  /\ r.fp_filp = s.fp_filp /\ r.filp = s.filp /\ r.inode = s.inode /\ r.panicked = s.panicked
  /\ r.fp_suspended = [s.fp_suspended EXCEPT ![p] = FALSE]
  /\ r.fp_revived = [s.fp_revived EXCEPT ![p] = FALSE]
  /\ \A q \in User : q # p => r.fp_saved[q] = s.fp_saved[q]
  /\ s.fp_revived[p] => r.reviving = s.reviving - 1 /\ r.susp_count = s.susp_count
  /\ ~ s.fp_revived[p] => r.reviving = s.reviving /\ r.susp_count = s.susp_count - 1

LEMMA ForgetSame ==
  ASSUME NEW s \in Loose, NEW r, NEW p \in User, ForgottenAs(s, r, p)
  PROVE  /\ \A q \in User : \A ip, c : On(r, q, ip, c) <=> On(s, q, ip, c) /\ q # p
         /\ \A q \in User : Sleeps(r, q) <=> Sleeps(s, q) /\ q # p
         /\ \A q \in User : r.fp_revived[q] <=> s.fp_revived[q] /\ q # p
         /\ \A q \in User : r.fp_suspended[q] <=> s.fp_suspended[q] /\ q # p
         /\ \A q \in User : q # p => r.fp_saved[q] = s.fp_saved[q] /\ FilpOf(r, q) = FilpOf(s, q)
<1>1. \A q \in User : /\ r.fp_suspended[q] <=> s.fp_suspended[q] /\ q # p
                      /\ r.fp_revived[q] <=> s.fp_revived[q] /\ q # p
  BY DEF ForgottenAs, Loose
<1>2. \A q \in User : q # p => r.fp_saved[q] = s.fp_saved[q]
  BY DEF ForgottenAs
<1>3. r.fp_filp = s.fp_filp /\ r.filp = s.filp
  BY DEF ForgottenAs
<1> QED
  BY <1>1, <1>2, <1>3 DEF On, FilpOf, Sleeps

LEMMA ForgetCounts ==
  ASSUME NEW s \in Loose, NEW r, NEW p \in User, ForgottenAs(s, r, p), Agree(s), s.fp_suspended[p]
  PROVE  Agree(r)
<1> DEFINE S0 == {q \in User : Sleeps(s, q)}
           V0 == {q \in User : s.fp_revived[q]}
           S1 == {q \in User : Sleeps(r, q)}
           V1 == {q \in User : r.fp_revived[q]}
<1>1. S1 = S0 \ {p} /\ V1 = V0 \ {p} /\ IsFiniteSet(S0) /\ IsFiniteSet(V0)
  BY ForgetSame, PartsFinite
<1>2. s.susp_count = Cardinality(S0) /\ s.reviving = Cardinality(V0)
  BY DEF Agree
<1>3. (p \in V0 <=> s.fp_revived[p]) /\ (p \in S0 <=> ~ s.fp_revived[p])
  BY DEF Sleeps
<1> HIDE DEF S0, V0, S1, V1
<1>4. /\ Cardinality(S1) = IF p \in S0 THEN Cardinality(S0) - 1 ELSE Cardinality(S0)
      /\ Cardinality(V1) = IF p \in V0 THEN Cardinality(V0) - 1 ELSE Cardinality(V0)
  BY <1>1, FS_RemoveElement
<1>5. r.susp_count = Cardinality(S1) /\ r.reviving = Cardinality(V1)
  BY <1>2, <1>3, <1>4 DEF ForgottenAs
<1> QED
  BY <1>5 DEF Agree, S1, V1

LEMMA ForgetBase ==
  ASSUME NEW s, NEW r, NEW p \in User, Base(s), ForgottenAs(s, r, p), s.fp_suspended[p]
  PROVE  Base(r)
<1>1. s \in Loose /\ r \in Loose
  BY DEF Base, ForgottenAs
<1>2. Agree(r)
  BY <1>1, ForgetCounts DEF Base
<1>3. Counted(r) /\ EndsRight(r) /\ PositionsRight(r)
  BY SameEnds DEF ForgottenAs, Base
<1>4. CallsRight(r)
  <2>1. ASSUME NEW q \in User, r.fp_suspended[q] PROVE CallRight(r, q)
    <3>1. CallRight(s, q) /\ q # p
      BY <1>1, <2>1, ForgetSame DEF Base, CallsRight
    <3> QED
      BY <1>1, <3>1, ForgetSame DEF CallRight, ForgottenAs
  <2>2. \A q \in User : r.fp_revived[q] => r.fp_suspended[q]
    BY <1>1, ForgetSame DEF Base, CallsRight
  <2> QED
    BY <2>1, <2>2 DEF CallsRight
<1>5. \A ip, bits : find_filp(r, ip, bits) = find_filp(s, ip, bits)
  BY SameEnds DEF ForgottenAs
<1>6. PartnersRight(r)
  BY <1>1, <1>5, ForgetSame DEF Base, PartnersRight
<1>7. ReadersWait(r)
  BY <1>1, ForgetSame DEF Base, ReadersWait, ForgottenAs
<1> QED
  BY <1>1, <1>2, <1>3, <1>4, <1>6, <1>7 DEF Base
-----------------------------------------------------------------------------
(* Facts about the tables of descriptors.                                  *)

EndType == [filp_mode : {"R", "W", "none"}, filp_count : Nat,
            filp_ino : Pipe \cup {-1}, filp_pos : 0 .. PIPE_SIZE]
InodeType == [i_count : Nat, i_size : 0 .. PIPE_SIZE]

LEMMA LooseParts ==
  ASSUME NEW s \in Loose
  PROVE  /\ s.fp_filp \in [User -> [Fd -> Filp \cup {NIL_FILP}]]
         /\ s.fp_suspended \in [User -> BOOLEAN] /\ s.fp_revived \in [User -> BOOLEAN]
         /\ s.fp_saved \in [User -> Saved \cup {NoCall}]
         /\ s.filp \in [Filp -> EndType] /\ s.inode \in [Pipe -> InodeType]
         /\ s.susp_count \in Int /\ s.reviving \in Int /\ s.panicked \in BOOLEAN
  BY DEF Loose, EndType, InodeType

\* A slot that a descriptor refers to is in use.
LEMMA HeldInUse ==
  ASSUME NEW s \in Loose, Counted(s), NEW q \in User, NEW fd \in Fd, s.fp_filp[q][fd] # NIL_FILP
  PROVE  s.fp_filp[q][fd] \in Filp /\ s.filp[s.fp_filp[q][fd]].filp_count >= 1
<1> DEFINE f == s.fp_filp[q][fd]
<1>1. f \in Filp
  BY LooseParts
<1>2. <<q, fd>> \in Holders(s, f) /\ IsFiniteSet(Holders(s, f))
  BY PartsFinite DEF Holders
<1>3. Cardinality(Holders(s, f)) # 0 /\ Cardinality(Holders(s, f)) \in Nat
  BY <1>2, FS_EmptySet, FS_CardinalityType
<1> QED
  BY <1>1, <1>3 DEF Counted

\* Two descriptors of a slot count two.
LEMMA HeldTwice ==
  ASSUME NEW s \in Loose, Counted(s), NEW p \in User, NEW q \in User, NEW fd \in Fd, NEW d \in Fd,
         s.fp_filp[p][fd] # NIL_FILP, s.fp_filp[q][d] = s.fp_filp[p][fd], <<q, d>> # <<p, fd>>
  PROVE  s.filp[s.fp_filp[p][fd]].filp_count >= 2
<1> DEFINE f == s.fp_filp[p][fd]
           H == Holders(s, f)
<1>1. f \in Filp
  BY LooseParts
<1>2. <<p, fd>> \in H /\ <<q, d>> \in H /\ IsFiniteSet(H)
  BY PartsFinite DEF Holders
<1> HIDE DEF H
<1>3. IsFiniteSet(H \ {<<p, fd>>}) /\ Cardinality(H \ {<<p, fd>>}) = Cardinality(H) - 1
  BY <1>2, FS_RemoveElement
<1>4. <<q, d>> \in H \ {<<p, fd>>}
  BY <1>2
<1>5. Cardinality(H \ {<<p, fd>>}) # 0 /\ Cardinality(H \ {<<p, fd>>}) \in Nat
  BY <1>3, <1>4, FS_EmptySet, FS_CardinalityType
<1>6. Cardinality(H) >= 2
  BY <1>3, <1>5, <1>2, FS_CardinalityType
<1> QED
  BY <1>1, <1>6 DEF Counted, H

\* Where somebody hangs is the end of a pipe.
LEMMA HangsOnEnd ==
  ASSUME NEW s, Base(s), NEW q \in User, s.fp_suspended[q]
  PROVE  /\ FilpOf(s, q) \in Filp /\ s.filp[FilpOf(s, q)].filp_count >= 1
         /\ s.filp[FilpOf(s, q)].filp_ino \in Pipe
         /\ s.fp_saved[q] \in Saved /\ s.fp_saved[q].fd \in Fd
         /\ On(s, q, s.filp[FilpOf(s, q)].filp_ino, s.fp_saved[q].fs_call)
         /\ FilpOf(s, q) \in
              find_filp(s, s.filp[FilpOf(s, q)].filp_ino, End(s.fp_saved[q].fs_call))
<1>1. CallRight(s, q) /\ s \in Loose /\ Counted(s) /\ EndsRight(s)
  BY DEF Base, CallsRight
<1>2. s.fp_saved[q] \in Saved /\ s.fp_saved[q].fd \in Fd
  BY <1>1 DEF CallRight, Saved
<1>3. FilpOf(s, q) \in Filp /\ s.filp[FilpOf(s, q)].filp_count >= 1
  BY <1>1, <1>2, HeldInUse DEF CallRight, FilpOf
<1>4. s.filp[FilpOf(s, q)].filp_ino \in Pipe
  BY <1>1, <1>3 DEF EndsRight
<1>5. s.filp[FilpOf(s, q)].filp_count \in Nat
  BY <1>1, <1>3, LooseParts DEF EndType
<1> QED
  BY <1>1, <1>2, <1>3, <1>4, <1>5 DEF CallRight, On, find_filp
-----------------------------------------------------------------------------
(* do_close(): first those who hang on the other end go on, then the       *)
(* descriptor is given up, and perhaps the slot and the i-node.            *)

DroppedAs(s, r, p, fd, f, ip) ==
  /\ f = s.fp_filp[p][fd] /\ ip = s.filp[f].filp_ino
  /\ r \in Loose
  /\ r.fp_suspended = s.fp_suspended /\ r.fp_revived = s.fp_revived
  /\ r.fp_saved = s.fp_saved /\ r.panicked = s.panicked
  /\ r.susp_count = s.susp_count /\ r.reviving = s.reviving
  /\ \A q \in User, d \in Fd :
       r.fp_filp[q][d] = IF q = p /\ d = fd THEN NIL_FILP ELSE s.fp_filp[q][d]
  /\ \A g \in Filp : g # f => r.filp[g] = s.filp[g]
  /\ r.filp[f].filp_count = s.filp[f].filp_count - 1
  /\ s.filp[f].filp_count > 1 =>
       /\ r.filp[f].filp_ino = ip /\ r.filp[f].filp_mode = s.filp[f].filp_mode
       /\ r.filp[f].filp_pos = s.filp[f].filp_pos
       /\ r.inode = s.inode
  /\ \A i \in Pipe : i # ip => r.inode[i] = s.inode[i]
  /\ s.filp[f].filp_count = 1 => r.inode[ip].i_count = s.inode[ip].i_count - 1
  /\ r.inode[ip].i_size = s.inode[ip].i_size \/ (r.inode[ip].i_count = 0 /\ r.inode[ip].i_size = 0)

LEMMA CloseLemma ==
  ASSUME NEW s, Base(s), NEW p \in User, NEW fd \in Fd, NEW wild, s.fp_filp[p][fd] # NIL_FILP
  PROVE  \E w : /\ WokenBy(s, w, Hangers(s, s.filp[s.fp_filp[p][fd]].filp_ino,
                                         WakesUp(s.filp[s.fp_filp[p][fd]].filp_mode)))
                /\ DroppedAs(w, do_close(s, p, fd, wild), p, fd,
                             s.fp_filp[p][fd], s.filp[s.fp_filp[p][fd]].filp_ino)
<1> DEFINE f == s.fp_filp[p][fd]
           end == s.filp[f]
           ip == end.filp_ino
           H == Hangers(s, ip, WakesUp(end.filp_mode))
           w == release(s, ip, WakesUp(end.filp_mode), NR_PROCS, wild)
           less == [w EXCEPT !.filp[f].filp_count = @ - 1, !.fp_filp[p][fd] = NIL_FILP]
           r == do_close(s, p, fd, wild)
<1>1. s \in Loose /\ Counted(s) /\ EndsRight(s) /\ CallsRight(s)
  BY DEF Base
<1>2. f \in Filp /\ end.filp_count >= 1
  BY <1>1, HeldInUse
<1>3. end \in EndType
  BY <1>1, <1>2, LooseParts
<1>4. ip \in Pipe /\ end.filp_mode \in {"R", "W"}
  BY <1>1, <1>2 DEF EndsRight
<1>5. WokenBy(s, w, H)
  <2>1. NR_PROCS \in {1, NR_PROCS}
    OBVIOUS
  <2>2. PICK R \in SUBSET H : WokenBy(s, w, R) /\ R = H
    BY <1>1, <2>1, ReleaseLemma
  <2> QED
    BY <2>2
<1>6. w \in Loose /\ w.fp_filp = s.fp_filp /\ w.filp = s.filp /\ w.inode = s.inode
  BY <1>5 DEF WokenBy
<1>7. r = IF end.filp_count > 1 THEN less
          ELSE put_inode([less EXCEPT !.filp[f] = FreeFilp], ip)
  BY Zenon DEF do_close, WakesUp
<1> HIDE DEF w, H, r
<1> DEFINE desc == [w.fp_filp EXCEPT ![p] = [w.fp_filp[p] EXCEPT ![fd] = NIL_FILP]]
           end1 == [w.filp[f] EXCEPT !.filp_count = @ - 1]
           ends == [w.filp EXCEPT ![f] = end1]
<1>8. desc \in [User -> [Fd -> Filp \cup {NIL_FILP}]]
  BY <1>6, LooseParts
<1>9. end1 \in EndType /\ end1.filp_count = end.filp_count - 1 /\ end1.filp_ino = ip
      /\ end1.filp_mode = end.filp_mode /\ end1.filp_pos = end.filp_pos
  BY <1>2, <1>3, <1>6 DEF EndType
<1>10. ends \in [Filp -> EndType] /\ ends[f] = end1 /\ \A g \in Filp : g # f => ends[g] = w.filp[g]
  BY <1>2, <1>6, <1>9, LooseParts
<1>11. less = [w EXCEPT !.filp = ends, !.fp_filp = desc]
  BY <1>6 DEF Loose
<1>12. \A q \in User, d \in Fd :
          desc[q][d] = IF q = p /\ d = fd THEN NIL_FILP ELSE w.fp_filp[q][d]
  BY <1>6, LooseParts
<1>f. w.fp_filp[p][fd] = f /\ w.filp[f] = end /\ ip = end.filp_ino
  BY <1>6
<1> HIDE DEF desc, ends, end1, less
<1>13. CASE end.filp_count > 1
  <2>1. r = less
    BY <1>7, <1>13
  <2>2. r.fp_filp = desc /\ r.filp = ends /\ r.inode = w.inode
    BY <1>6, <1>11, <2>1 DEF Loose
  <2>3. /\ r.fp_suspended = w.fp_suspended /\ r.fp_revived = w.fp_revived
        /\ r.fp_saved = w.fp_saved /\ r.panicked = w.panicked
        /\ r.susp_count = w.susp_count /\ r.reviving = w.reviving
    BY <1>6, <1>11, <2>1 DEF Loose
  <2>4. r \in Loose
    BY <1>6, <1>8, <1>10, <1>11, <2>1 DEF Loose, EndType
  <2>5. DroppedAs(w, r, p, fd, f, ip)
    <3> HIDE DEF f, end, ip
    <3> QED
      BY <1>2, <1>f, <1>9, <1>10, <1>12, <1>13, <2>2, <2>3, <2>4 DEF DroppedAs
  <2> QED
    BY <1>5, <2>5 DEF r, H
<1>14. CASE ~ (end.filp_count > 1)
  <2>1. end.filp_count = 1
    BY <1>2, <1>3, <1>14 DEF EndType
  <2> DEFINE freed == [ends EXCEPT ![f] = FreeFilp]
             node  == IF w.inode[ip].i_count = 1 THEN FreeInode
                      ELSE [w.inode[ip] EXCEPT !.i_count = @ - 1]
             nodes == [w.inode EXCEPT ![ip] = node]
  <2>2. freed \in [Filp -> EndType] /\ freed[f].filp_count = 0
        /\ \A g \in Filp : g # f => freed[g] = w.filp[g]
    BY <1>2, <1>10, Sizes0 DEF EndType, FreeFilp
  <2>3. w.inode[ip] \in InodeType /\ w.inode[ip].i_count >= 1
    <3>1. f \in EndsOf(s, ip) /\ IsFiniteSet(EndsOf(s, ip))
      BY <1>2, <2>1, PartsFinite DEF EndsOf
    <3>2. Cardinality(EndsOf(s, ip)) # 0 /\ Cardinality(EndsOf(s, ip)) \in Nat
      BY <3>1, FS_EmptySet, FS_CardinalityType
    <3>3. s.inode[ip].i_count = Cardinality(EndsOf(s, ip))
      BY <1>1, <1>4 DEF Counted
    <3>4. s.inode[ip] \in InodeType
      BY <1>1, <1>4, LooseParts
    <3>5. s.inode[ip].i_count >= 1
      BY <3>2, <3>3
    <3> QED
      BY <1>6, <3>4, <3>5
  <2>4. node \in InodeType /\ node.i_count = w.inode[ip].i_count - 1
        /\ (node.i_size = w.inode[ip].i_size \/ (node.i_count = 0 /\ node.i_size = 0))
    <3> DEFINE old == w.inode[ip]
    <3>1. old \in InodeType /\ old.i_count >= 1
      BY <2>3
    <3> HIDE DEF old
    <3>2. CASE old.i_count = 1
      <4>1. node = FreeInode
        BY <3>2 DEF old
      <4> HIDE DEF node
      <4>2. node \in InodeType /\ node.i_count = 0 /\ node.i_size = 0
        BY <4>1, Sizes0 DEF InodeType, FreeInode
      <4> QED
        BY <3>2, <4>2 DEF old
    <3>3. CASE old.i_count # 1
      <4>1. node = [old EXCEPT !.i_count = @ - 1]
        BY <3>3 DEF old
      <4> HIDE DEF node
      <4>2. node \in InodeType /\ node.i_count = old.i_count - 1 /\ node.i_size = old.i_size
        BY <3>1, <3>3, <4>1 DEF InodeType
      <4> QED
        BY <4>2 DEF old
    <3> QED
      BY <3>2, <3>3
  <2>5. nodes \in [Pipe -> InodeType] /\ nodes[ip] = node
        /\ \A i \in Pipe : i # ip => nodes[i] = w.inode[i]
    BY <1>4, <1>6, <2>4, LooseParts
  <2>6. r = [w EXCEPT !.filp = freed, !.fp_filp = desc, !.inode = nodes]
    <3>1. [less EXCEPT !.filp[f] = FreeFilp] = [w EXCEPT !.filp = freed, !.fp_filp = desc]
      BY <1>6, <1>11 DEF Loose
    <3> DEFINE m == [w EXCEPT !.filp = freed, !.fp_filp = desc]
    <3>2. r = put_inode(m, ip)
      BY <1>7, <1>14, <3>1
    <3>3. m.inode = w.inode
      BY <1>6 DEF Loose
    <3>4. put_inode(m, ip) = [m EXCEPT !.inode = nodes]
      <4> HIDE DEF m
      <4>1. CASE w.inode[ip].i_count = 1
        BY <3>3, <4>1 DEF put_inode
      <4>2. CASE w.inode[ip].i_count # 1
        BY <3>3, <4>2 DEF put_inode
      <4> QED
        BY <4>1, <4>2
    <3> QED
      BY <1>6, <3>2, <3>4 DEF Loose
  <2> HIDE DEF freed, node, nodes
  <2>7. r.fp_filp = desc /\ r.filp = freed /\ r.inode = nodes
    BY <1>6, <2>6 DEF Loose
  <2>8. /\ r.fp_suspended = w.fp_suspended /\ r.fp_revived = w.fp_revived
        /\ r.fp_saved = w.fp_saved /\ r.panicked = w.panicked
        /\ r.susp_count = w.susp_count /\ r.reviving = w.reviving
    BY <1>6, <2>6 DEF Loose
  <2>9. r \in Loose
    BY <1>6, <1>8, <2>2, <2>5, <2>6 DEF Loose, EndType, InodeType
  <2>10. DroppedAs(w, r, p, fd, f, ip)
    <3> HIDE DEF f, end, ip
    <3> QED
      BY <1>2, <1>f, <1>4, <1>12, <2>1, <2>2, <2>4, <2>5, <2>7, <2>8, <2>9 DEF DroppedAs
  <2> QED
    BY <1>5, <2>10 DEF r, H
<1> QED
  BY <1>13, <1>14

LEMMA DropSame ==
  ASSUME NEW s, NEW r, NEW p \in User, NEW fd \in Fd, NEW f, NEW ip, Base(s),
         DroppedAs(s, r, p, fd, f, ip), f # NIL_FILP, ~ s.fp_suspended[p]
  PROVE  /\ \A q \in User : s.fp_suspended[q] =>
              /\ FilpOf(r, q) = FilpOf(s, q)
              /\ r.filp[FilpOf(r, q)].filp_ino = s.filp[FilpOf(s, q)].filp_ino
              /\ r.filp[FilpOf(r, q)].filp_mode = s.filp[FilpOf(s, q)].filp_mode
         /\ \A q \in User : \A i, c : On(r, q, i, c) <=> On(s, q, i, c)
         /\ \A q \in User : Sleeps(r, q) <=> Sleeps(s, q)
<1>1. s \in Loose /\ r \in Loose /\ Counted(s)
  BY DEF Base, DroppedAs
<1>2. f = s.fp_filp[p][fd] /\ f \in Filp
  BY <1>1, HeldInUse DEF DroppedAs
<1>3. ASSUME NEW q \in User, s.fp_suspended[q]
      PROVE  /\ FilpOf(r, q) = FilpOf(s, q)
             /\ r.filp[FilpOf(r, q)].filp_ino = s.filp[FilpOf(s, q)].filp_ino
             /\ r.filp[FilpOf(r, q)].filp_mode = s.filp[FilpOf(s, q)].filp_mode
  <2> DEFINE d == s.fp_saved[q].fd
  <2>1. q # p /\ d \in Fd /\ FilpOf(s, q) \in Filp /\ FilpOf(s, q) = s.fp_filp[q][d]
    BY <1>3, HangsOnEnd DEF FilpOf
  <2>2. r.fp_saved = s.fp_saved /\ r.fp_filp[q][d] = s.fp_filp[q][d]
    BY <2>1 DEF DroppedAs
  <2>3. FilpOf(r, q) = FilpOf(s, q)
    BY <2>1, <2>2 DEF FilpOf
  <2>4. CASE FilpOf(s, q) # f
    BY <2>1, <2>3, <2>4 DEF DroppedAs
  <2>5. CASE FilpOf(s, q) = f
    <3>1. s.fp_filp[q][d] = s.fp_filp[p][fd] /\ s.fp_filp[p][fd] # NIL_FILP /\ <<q, d>> # <<p, fd>>
      BY <1>2, <2>1, <2>5
    <3>2. s.filp[s.fp_filp[p][fd]].filp_count >= 2
      BY <1>1, <2>1, <3>1, HeldTwice
    <3>3. s.filp[f].filp_count \in Nat
      BY <1>1, <1>2, LooseParts DEF EndType
    <3>4. s.filp[f].filp_count > 1
      BY <1>2, <3>2, <3>3
    <3> QED
      BY <2>3, <2>5, <3>4 DEF DroppedAs
  <2> QED
    BY <2>4, <2>5
<1>4. r.fp_suspended = s.fp_suspended /\ r.fp_saved = s.fp_saved /\ r.fp_revived = s.fp_revived
  BY DEF DroppedAs
<1>5. \A q \in User : \A i, c : On(r, q, i, c) <=> On(s, q, i, c)
  BY <1>3, <1>4 DEF On
<1> QED
  BY <1>3, <1>4, <1>5 DEF Sleeps

LEMMA DropOn ==
  ASSUME NEW s, NEW r, NEW p \in User, NEW fd \in Fd, NEW f, NEW ip, Base(s),
         DroppedAs(s, r, p, fd, f, ip), f # NIL_FILP, ~ s.fp_suspended[p]
  PROVE  \A q \in User : \A i, c : On(r, q, i, c) <=> On(s, q, i, c)
BY DropSame

LEMMA DropCounted ==
  ASSUME NEW s, NEW r, NEW p \in User, NEW fd \in Fd, NEW f, NEW ip, Base(s),
         DroppedAs(s, r, p, fd, f, ip), f # NIL_FILP
  PROVE  Counted(r)
<1>1. s \in Loose /\ r \in Loose /\ Counted(s) /\ EndsRight(s)
  BY DEF Base, DroppedAs
<1>2. f = s.fp_filp[p][fd] /\ f \in Filp /\ s.filp[f].filp_count >= 1 /\ s.filp[f].filp_count \in Nat
  <2>1. f = s.fp_filp[p][fd] /\ f \in Filp /\ s.filp[f].filp_count >= 1
    BY <1>1, HeldInUse DEF DroppedAs
  <2> QED
    BY <1>1, <2>1, LooseParts DEF EndType
<1>3. ip = s.filp[f].filp_ino /\ ip \in Pipe
  <2>1. ip = s.filp[f].filp_ino
    BY DEF DroppedAs
  <2> QED
    BY <1>1, <1>2, <2>1 DEF EndsRight
<1>4. \A q \in User, d \in Fd :
        r.fp_filp[q][d] = IF q = p /\ d = fd THEN NIL_FILP ELSE s.fp_filp[q][d]
  BY DEF DroppedAs
<1>5. ASSUME NEW g \in Filp PROVE r.filp[g].filp_count = Cardinality(Holders(r, g))
  <2>1. s.filp[g].filp_count = Cardinality(Holders(s, g)) /\ IsFiniteSet(Holders(s, g))
    BY <1>1, PartsFinite DEF Counted, Holders
  <2>2. CASE g = f
    <3>1. Holders(r, g) = Holders(s, g) \ {<<p, fd>>} /\ <<p, fd>> \in Holders(s, g)
      <4>1. \A x \in User \X Fd : x \in Holders(r, g) <=> x \in Holders(s, g) /\ x # <<p, fd>>
        <5> SUFFICES ASSUME NEW q \in User, NEW d \in Fd
                     PROVE  <<q, d>> \in Holders(r, g)
                              <=> <<q, d>> \in Holders(s, g) /\ <<q, d>> # <<p, fd>>
          OBVIOUS
        <5>1. r.fp_filp[q][d] = g <=> s.fp_filp[q][d] = g /\ ~ (q = p /\ d = fd)
          BY <1>2, <1>4, <2>2, Sizes0
        <5> QED
          BY <5>1 DEF Holders
      <4>2. <<p, fd>> \in Holders(s, g)
        BY <1>2, <2>2 DEF Holders
      <4> QED
        BY <4>1, <4>2 DEF Holders
    <3>2. Cardinality(Holders(s, g) \ {<<p, fd>>}) = Cardinality(Holders(s, g)) - 1
      BY <2>1, <3>1, FS_RemoveElement
    <3> QED
      BY <2>1, <2>2, <3>1, <3>2 DEF DroppedAs
  <2>3. CASE g # f
    <3>1. Holders(r, g) = Holders(s, g)
      <4>1. f = s.fp_filp[p][fd] /\ g # NIL_FILP
        BY <1>2, Sizes0
      <4>2. \A q \in User, d \in Fd : r.fp_filp[q][d] = g <=> s.fp_filp[q][d] = g
        BY <1>4, <2>3, <4>1
      <4> QED
        BY <4>2 DEF Holders
    <3> QED
      BY <2>1, <2>3, <3>1 DEF DroppedAs
  <2> QED
    BY <2>2, <2>3
<1>6. ASSUME NEW i \in Pipe PROVE r.inode[i].i_count = Cardinality(EndsOf(r, i))
  <2>1. s.inode[i].i_count = Cardinality(EndsOf(s, i)) /\ IsFiniteSet(EndsOf(s, i))
    BY <1>1, PartsFinite DEF Counted, EndsOf
  <2>2. \A g \in Filp : g # f => r.filp[g] = s.filp[g]
    BY DEF DroppedAs
  <2>3. r.filp[f].filp_count = s.filp[f].filp_count - 1
    BY DEF DroppedAs
  <2>4. CASE s.filp[f].filp_count > 1
    <3>1. r.filp[f].filp_ino = s.filp[f].filp_ino /\ r.inode = s.inode
      BY <1>3, <2>4 DEF DroppedAs
    <3>2. r.filp[f].filp_count # 0 /\ s.filp[f].filp_count # 0
      BY <1>2, <2>3, <2>4
    <3>3. EndsOf(r, i) = EndsOf(s, i)
      BY <1>2, <2>2, <3>1, <3>2 DEF EndsOf
    <3> QED
      BY <2>1, <3>1, <3>3
  <2>5. CASE s.filp[f].filp_count = 1
    <3>1. r.filp[f].filp_count = 0
      BY <2>3, <2>5
    <3>2. CASE i = ip
      <4>1. EndsOf(r, i) = EndsOf(s, i) \ {f} /\ f \in EndsOf(s, i)
        <5>1. f \in EndsOf(s, i)
          BY <1>2, <1>3, <2>5, <3>2 DEF EndsOf
        <5>2. \A g \in Filp : g \in EndsOf(r, i) <=> g \in EndsOf(s, i) /\ g # f
          BY <2>2, <3>1 DEF EndsOf
        <5>3. EndsOf(r, i) \subseteq Filp /\ EndsOf(s, i) \subseteq Filp
          BY DEF EndsOf
        <5> QED
          BY <5>1, <5>2, <5>3
      <4>2. Cardinality(EndsOf(s, i) \ {f}) = Cardinality(EndsOf(s, i)) - 1
        BY <2>1, <4>1, FS_RemoveElement
      <4>3. r.inode[i].i_count = s.inode[i].i_count - 1
        BY <2>5, <3>2 DEF DroppedAs
      <4> QED
        BY <2>1, <4>1, <4>2, <4>3
    <3>3. CASE i # ip
      <4>1. EndsOf(r, i) = EndsOf(s, i)
        BY <1>2, <1>3, <2>2, <3>1, <3>3 DEF EndsOf
      <4>2. r.inode[i] = s.inode[i]
        BY <3>3 DEF DroppedAs
      <4> QED
        BY <2>1, <4>1, <4>2
    <3> QED
      BY <3>2, <3>3
  <2> QED
    BY <1>2, <2>4, <2>5
<1> QED
  BY <1>5, <1>6 DEF Counted

LEMMA DropBase ==
  ASSUME NEW s, NEW r, NEW p \in User, NEW fd \in Fd, NEW f, NEW ip, Base(s),
         DroppedAs(s, r, p, fd, f, ip), f # NIL_FILP, ~ s.fp_suspended[p],
         \A q \in User : ~ (Sleeps(s, q) /\ On(s, q, ip, WakesUp(s.filp[f].filp_mode)))
  PROVE  Base(r)
<1>1. s \in Loose /\ r \in Loose /\ Counted(s) /\ EndsRight(s)
  BY DEF Base, DroppedAs
<1>2. f = s.fp_filp[p][fd] /\ f \in Filp /\ s.filp[f].filp_count >= 1 /\ s.filp[f].filp_count \in Nat
  <2>1. f = s.fp_filp[p][fd] /\ f \in Filp /\ s.filp[f].filp_count >= 1
    BY <1>1, HeldInUse DEF DroppedAs
  <2> QED
    BY <1>1, <2>1, LooseParts DEF EndType
<1>3. ip = s.filp[f].filp_ino /\ ip \in Pipe /\ s.filp[f].filp_mode \in {"R", "W"}
  <2>1. ip = s.filp[f].filp_ino
    BY DEF DroppedAs
  <2>2. s.filp[f].filp_count # 0
    BY <1>2
  <2>3. s.filp[f].filp_ino \in Pipe /\ s.filp[f].filp_mode \in {"R", "W"}
    BY <1>1, <1>2, <2>2 DEF EndsRight
  <2> QED
    BY <2>1, <2>3
<1>4. Counted(r)
  BY DropCounted
<1>5. /\ r.fp_suspended = s.fp_suspended /\ r.fp_revived = s.fp_revived
      /\ r.fp_saved = s.fp_saved
      /\ r.susp_count = s.susp_count /\ r.reviving = s.reviving
      /\ \A g \in Filp : g # f => r.filp[g] = s.filp[g]
      /\ r.filp[f].filp_count = s.filp[f].filp_count - 1
  BY DEF DroppedAs
<1>6. s.filp[f].filp_count > 1 =>
        /\ r.filp[f].filp_ino = ip /\ r.filp[f].filp_mode = s.filp[f].filp_mode
        /\ r.filp[f].filp_pos = s.filp[f].filp_pos
        /\ r.inode = s.inode
  BY DEF DroppedAs
<1>a. /\ \A q \in User : s.fp_suspended[q] =>
           /\ FilpOf(r, q) = FilpOf(s, q)
           /\ r.filp[FilpOf(r, q)].filp_ino = s.filp[FilpOf(s, q)].filp_ino
           /\ r.filp[FilpOf(r, q)].filp_mode = s.filp[FilpOf(s, q)].filp_mode
      /\ \A q \in User : \A i, c : On(r, q, i, c) <=> On(s, q, i, c)
      /\ \A q \in User : Sleeps(r, q) <=> Sleeps(s, q)
  BY DropSame
\* What is still in use is what it was.
<1>7. \A g \in Filp : r.filp[g].filp_count # 0 =>
        /\ s.filp[g].filp_count # 0
        /\ r.filp[g].filp_ino = s.filp[g].filp_ino /\ r.filp[g].filp_mode = s.filp[g].filp_mode
        /\ r.filp[g].filp_pos = s.filp[g].filp_pos
  <2>1. r.filp[f].filp_count # 0 => s.filp[f].filp_count > 1
    BY <1>2, <1>5
  <2>2. s.filp[f].filp_count > 1 => s.filp[f].filp_count # 0
    BY <1>2
  <2> QED
    BY <1>3, <1>5, <1>6, <2>1, <2>2
<1>8. Agree(r)
  BY <1>5, <1>a DEF Base, Agree
<1>9. EndsRight(r)
  BY <1>1, <1>7 DEF EndsRight
<1>10. PositionsRight(r)
  <2>1. ASSUME NEW g \in Filp, r.filp[g].filp_count # 0
        PROVE  r.inode[r.filp[g].filp_ino].i_size = s.inode[s.filp[g].filp_ino].i_size
    <3> DEFINE i == r.filp[g].filp_ino
    <3>1. i \in Pipe /\ i = s.filp[g].filp_ino
      BY <1>7, <1>9, <2>1 DEF EndsRight
    <3>2. r.inode[i].i_count # 0
      <4>1. g \in EndsOf(r, i) /\ IsFiniteSet(EndsOf(r, i))
        BY <2>1, PartsFinite DEF EndsOf
      <4> QED
        BY <1>4, <3>1, <4>1, FS_EmptySet DEF Counted
    <3>3. CASE i = ip
      BY <3>1, <3>2, <3>3 DEF DroppedAs
    <3>4. CASE i # ip
      BY <3>1, <3>4 DEF DroppedAs
    <3> QED
      BY <3>3, <3>4
  <2> QED
    BY <1>7, <2>1 DEF Base, PositionsRight, PositionRight
<1>11. CallsRight(r)
  <2>1. ASSUME NEW q \in User, r.fp_suspended[q] PROVE CallRight(r, q)
    <3>1. CallRight(s, q)
      BY <1>5, <2>1 DEF Base, CallsRight
    <3> QED
      BY <1>5, <1>a, <2>1, <3>1 DEF CallRight
  <2> QED
    BY <1>5, <2>1 DEF Base, CallsRight
<1>12. \A i \in Pipe, bits \in {"R", "W"} :
         find_filp(s, i, bits) # {} => find_filp(r, i, bits) # {} \/ (i = ip /\ bits = s.filp[f].filp_mode)
  <2>1. ASSUME NEW i \in Pipe, NEW bits \in {"R", "W"}, NEW g \in find_filp(s, i, bits), g # f
        PROVE  find_filp(r, i, bits) # {}
    BY <1>5, <2>1 DEF find_filp
  <2>2. ASSUME NEW i \in Pipe, NEW bits \in {"R", "W"}, f \in find_filp(s, i, bits)
        PROVE  i = ip /\ bits = s.filp[f].filp_mode
    BY <1>3, <2>2 DEF find_filp
  <2> QED
    BY <2>1, <2>2
<1>13. PartnersRight(r)
  <2>1. ASSUME NEW q \in User, NEW i \in Pipe, Sleeps(r, q), On(r, q, i, "READ")
        PROVE  find_filp(r, i, "W") # {}
    <3>1. Sleeps(s, q) /\ On(s, q, i, "READ")
      BY <1>a, <2>1
    <3>2. find_filp(s, i, "W") # {}
      BY <3>1 DEF Base, PartnersRight
    <3>3. ~ (i = ip /\ "W" = s.filp[f].filp_mode)
      BY <3>1 DEF WakesUp
    <3> QED
      BY <1>12, <3>2, <3>3
  <2>2. ASSUME NEW q \in User, NEW i \in Pipe, Sleeps(r, q), On(r, q, i, "WRITE")
        PROVE  find_filp(r, i, "R") # {}
    <3>1. Sleeps(s, q) /\ On(s, q, i, "WRITE")
      BY <1>a, <2>2
    <3>2. find_filp(s, i, "R") # {}
      BY <3>1 DEF Base, PartnersRight
    <3>3. ~ (i = ip /\ "R" = s.filp[f].filp_mode)
      BY <3>1 DEF WakesUp
    <3> QED
      BY <1>12, <3>2, <3>3
  <2> QED
    BY <2>1, <2>2 DEF PartnersRight
<1>14. ReadersWait(r)
  <2>1. ASSUME NEW q \in User, NEW i \in Pipe, Sleeps(r, q), On(r, q, i, "READ")
        PROVE  r.inode[i].i_size = 0
    <3>1. s.inode[i].i_size = 0
      BY <1>a, <2>1 DEF Base, ReadersWait
    <3> QED
      BY <3>1 DEF DroppedAs
  <2> QED
    BY <2>1 DEF ReadersWait
<1> QED
  BY <1>1, <1>4, <1>8, <1>9, <1>10, <1>11, <1>13, <1>14 DEF Base
-----------------------------------------------------------------------------
(* Steps that change neither who is suspended nor which ends there are:    *)
(* descriptors are shared, or data moves.                                  *)

SharedAs(s, r) ==
  /\ r \in Loose /\ r.panicked = s.panicked
  /\ r.susp_count = s.susp_count /\ r.reviving = s.reviving
  /\ \A q \in User : /\ r.fp_suspended[q] <=> s.fp_suspended[q]
                     /\ r.fp_revived[q] <=> s.fp_revived[q]
                     /\ s.fp_suspended[q] =>
                          r.fp_saved[q] = s.fp_saved[q] /\ FilpOf(r, q) = FilpOf(s, q)
  /\ \A g \in Filp : /\ r.filp[g].filp_count # 0 <=> s.filp[g].filp_count # 0
                     /\ r.filp[g].filp_ino = s.filp[g].filp_ino
                     /\ r.filp[g].filp_mode = s.filp[g].filp_mode

LEMMA SharedSame ==
  ASSUME NEW s, NEW r, Base(s), SharedAs(s, r)
  PROVE  /\ \A q \in User : \A i, c : On(r, q, i, c) <=> On(s, q, i, c)
         /\ \A q \in User : Sleeps(r, q) <=> Sleeps(s, q)
         /\ \A i, bits : find_filp(r, i, bits) = find_filp(s, i, bits)
         /\ \A i : EndsOf(r, i) = EndsOf(s, i)
<1>1. \A q \in User : s.fp_suspended[q] => FilpOf(s, q) \in Filp
  BY HangsOnEnd
<1>2. \A q \in User : \A i, c : On(r, q, i, c) <=> On(s, q, i, c)
  BY <1>1 DEF SharedAs, On
<1>3. \A q \in User : Sleeps(r, q) <=> Sleeps(s, q)
  BY DEF SharedAs, Sleeps
<1>4. \A i, bits : find_filp(r, i, bits) = find_filp(s, i, bits)
  BY DEF SharedAs, find_filp
<1>5. \A i : EndsOf(r, i) = EndsOf(s, i)
  BY DEF SharedAs, EndsOf
<1> QED
  BY <1>2, <1>3, <1>4, <1>5

LEMMA SharedBase ==
  ASSUME NEW s, NEW r, Base(s), SharedAs(s, r), Counted(r), PositionsRight(r), ReadersWait(r)
  PROVE  Base(r)
<1>a. /\ \A q \in User : \A i, c : On(r, q, i, c) <=> On(s, q, i, c)
      /\ \A q \in User : Sleeps(r, q) <=> Sleeps(s, q)
      /\ \A i, bits : find_filp(r, i, bits) = find_filp(s, i, bits)
      /\ \A i : EndsOf(r, i) = EndsOf(s, i)
  BY SharedSame
<1>1. Agree(r)
  <2>1. {q \in User : r.fp_revived[q]} = {q \in User : s.fp_revived[q]}
    BY DEF SharedAs
  <2>2. {q \in User : Sleeps(r, q)} = {q \in User : Sleeps(s, q)}
    BY <1>a
  <2>3. r.susp_count = s.susp_count /\ r.reviving = s.reviving
    BY DEF SharedAs
  <2> QED
    BY <2>1, <2>2, <2>3 DEF Base, Agree
<1>2. EndsRight(r)
  BY DEF Base, SharedAs, EndsRight
<1>3. CallsRight(r)
  <2>1. ASSUME NEW q \in User, r.fp_suspended[q] PROVE CallRight(r, q)
    <3>1. CallRight(s, q) /\ FilpOf(s, q) \in Filp
      BY <2>1, HangsOnEnd DEF Base, CallsRight, SharedAs
    <3>2. r.fp_saved[q] = s.fp_saved[q] /\ FilpOf(r, q) = FilpOf(s, q)
      BY <2>1 DEF SharedAs
    <3>3. r.filp[FilpOf(s, q)].filp_mode = s.filp[FilpOf(s, q)].filp_mode
      BY <3>1 DEF SharedAs
    <3> QED
      BY <3>1, <3>2, <3>3 DEF CallRight
  <2> QED
    BY <2>1 DEF Base, CallsRight, SharedAs
<1>4. PartnersRight(r)
  BY <1>a DEF Base, PartnersRight
<1> QED
  BY <1>1, <1>2, <1>3, <1>4 DEF Base, SharedAs

\* Other tables of descriptors, slots and i-nodes.
WithTables(s, desc, ends, nodes) ==
  [s EXCEPT !.fp_filp = desc, !.filp = ends, !.inode = nodes]

LEMMA TablesSet ==
  ASSUME NEW s \in Loose, NEW desc \in [User -> [Fd -> Filp \cup {NIL_FILP}]],
         NEW ends \in [Filp -> EndType], NEW nodes \in [Pipe -> InodeType],
         NEW r, r = WithTables(s, desc, ends, nodes)
  PROVE  /\ r \in Loose
         /\ r.fp_filp = desc /\ r.filp = ends /\ r.inode = nodes
         /\ r.fp_suspended = s.fp_suspended /\ r.fp_revived = s.fp_revived
         /\ r.fp_saved = s.fp_saved /\ r.panicked = s.panicked
         /\ r.susp_count = s.susp_count /\ r.reviving = s.reviving
<1>1. r \in Loose
  BY DEF Loose, EndType, InodeType, WithTables
<1> QED
  BY <1>1 DEF Loose, WithTables

\* do_dup(): fd2 is free.
LEMMA DupBase ==
  ASSUME NEW s, Base(s), NEW p \in User, NEW fd \in Fd, NEW fd2 \in Fd,
         s.fp_filp[p][fd] # NIL_FILP, s.fp_filp[p][fd2] = NIL_FILP, ~ s.fp_suspended[p]
  PROVE  /\ Base(do_dup(s, p, fd, fd2)) /\ SharedAs(s, do_dup(s, p, fd, fd2))
         /\ \A q \in User : q # p => do_dup(s, p, fd, fd2).fp_filp[q] = s.fp_filp[q]
         /\ \A g \in Filp : do_dup(s, p, fd, fd2).filp[g].filp_pos = s.filp[g].filp_pos
         /\ do_dup(s, p, fd, fd2).inode = s.inode
<1> DEFINE f == s.fp_filp[p][fd]
           r == do_dup(s, p, fd, fd2)
           desc == [s.fp_filp EXCEPT ![p] = [s.fp_filp[p] EXCEPT ![fd2] = f]]
           end1 == [s.filp[f] EXCEPT !.filp_count = @ + 1]
           ends == [s.filp EXCEPT ![f] = end1]
<1>1. s \in Loose /\ Counted(s)
  BY DEF Base
<1>2. f \in Filp /\ s.filp[f].filp_count >= 1 /\ s.filp[f] \in EndType
  BY <1>1, HeldInUse, LooseParts
<1>p. s.fp_filp \in [User -> [Fd -> Filp \cup {NIL_FILP}]] /\ s.inode \in [Pipe -> InodeType]
  BY <1>1, LooseParts
<1>0. r = [s EXCEPT !.fp_filp[p][fd2] = f, !.filp[f].filp_count = @ + 1]
  BY DEF do_dup
<1>n. s.fp_filp[p][fd2] # f
  BY <1>2, Sizes0
<1> HIDE DEF f, r
<1>3. /\ desc \in [User -> [Fd -> Filp \cup {NIL_FILP}]]
      /\ \A q \in User, d \in Fd : desc[q][d] = IF q = p /\ d = fd2 THEN f ELSE s.fp_filp[q][d]
      /\ \A q \in User : q # p => desc[q] = s.fp_filp[q]
  <2>1. desc \in [User -> [Fd -> Filp \cup {NIL_FILP}]]
    BY <1>p, <1>2
  <2>2. \A q \in User : q # p => desc[q] = s.fp_filp[q]
    BY <1>p
  <2>3. \A d \in Fd : desc[p][d] = IF d = fd2 THEN f ELSE s.fp_filp[p][d]
    BY <1>p
  <2> HIDE DEF desc
  <2> QED
    BY <2>1, <2>2, <2>3
<1>4. end1 \in EndType /\ end1.filp_count = s.filp[f].filp_count + 1
      /\ end1.filp_ino = s.filp[f].filp_ino
      /\ end1.filp_mode = s.filp[f].filp_mode /\ end1.filp_pos = s.filp[f].filp_pos
  BY <1>2 DEF EndType
<1>5. ends \in [Filp -> EndType] /\ ends[f] = end1 /\ \A g \in Filp : g # f => ends[g] = s.filp[g]
  BY <1>1, <1>2, <1>4, LooseParts
<1>6. r = WithTables(s, desc, ends, s.inode)
  BY <1>0, <1>1 DEF Loose, WithTables
<1> HIDE DEF desc, ends, end1
<1>u. desc \in [User -> [Fd -> Filp \cup {NIL_FILP}]] /\ ends \in [Filp -> EndType]
  BY <1>3, <1>5
<1>t. /\ r \in Loose
      /\ r.fp_filp = desc /\ r.filp = ends /\ r.inode = s.inode
      /\ r.fp_suspended = s.fp_suspended /\ r.fp_revived = s.fp_revived
      /\ r.fp_saved = s.fp_saved /\ r.panicked = s.panicked
      /\ r.susp_count = s.susp_count /\ r.reviving = s.reviving
  BY <1>1, <1>p, <1>u, <1>6, TablesSet
<1>7. r.fp_filp = desc /\ r.filp = ends /\ r.inode = s.inode
  BY <1>t
<1>8. /\ r.fp_suspended = s.fp_suspended /\ r.fp_revived = s.fp_revived
      /\ r.fp_saved = s.fp_saved /\ r.panicked = s.panicked
      /\ r.susp_count = s.susp_count /\ r.reviving = s.reviving
  BY <1>t
<1>9. r \in Loose
  BY <1>t
<1>10. \A g \in Filp :
         /\ r.filp[g].filp_count # 0 <=> s.filp[g].filp_count # 0
         /\ r.filp[g].filp_ino = s.filp[g].filp_ino
         /\ r.filp[g].filp_mode = s.filp[g].filp_mode
         /\ r.filp[g].filp_pos = s.filp[g].filp_pos
  <2>1. r.filp[f].filp_count # 0 /\ s.filp[f].filp_count # 0
    <3>1. s.filp[f].filp_count \in Nat
      BY <1>2 DEF EndType
    <3> QED
      BY <1>2, <1>4, <1>5, <1>7, <3>1
  <2>2. \A g \in Filp : g # f => r.filp[g] = s.filp[g]
    BY <1>5, <1>7
  <2> QED
    BY <1>4, <1>5, <1>7, <2>1, <2>2
<1>11. SharedAs(s, r)
  <2>1. ASSUME NEW q \in User, s.fp_suspended[q] PROVE FilpOf(r, q) = FilpOf(s, q)
    <3>1. q # p /\ r.fp_filp[q] = s.fp_filp[q]
      BY <1>3, <1>7, <2>1
    <3> QED
      BY <1>8, <3>1 DEF FilpOf
  <2> QED
    BY <1>8, <1>9, <1>10, <2>1 DEF SharedAs
<1>q. s.fp_filp[p][fd2] = NIL_FILP /\ NIL_FILP \notin Filp
  BY Sizes0
<1>12. Counted(r)
  <2>1. ASSUME NEW g \in Filp PROVE r.filp[g].filp_count = Cardinality(Holders(r, g))
    <3>1. s.filp[g].filp_count = Cardinality(Holders(s, g)) /\ IsFiniteSet(Holders(s, g))
      BY <1>1, PartsFinite DEF Counted, Holders
    <3>2. CASE g = f
      <4>1. <<p, fd2>> \notin Holders(s, g)
        BY <1>n, <3>2 DEF Holders
      <4>2. Holders(r, g) = Holders(s, g) \cup {<<p, fd2>>}
        <5>1. \A x \in User \X Fd : x \in Holders(r, g) <=> x \in Holders(s, g) \/ x = <<p, fd2>>
          <6> SUFFICES ASSUME NEW q \in User, NEW d \in Fd
                       PROVE  <<q, d>> \in Holders(r, g)
                                <=> <<q, d>> \in Holders(s, g) \/ <<q, d>> = <<p, fd2>>
            OBVIOUS
          <6>1. r.fp_filp[q][d] = g <=> s.fp_filp[q][d] = g \/ (q = p /\ d = fd2)
            BY <1>3, <1>7, <3>2
          <6> QED
            BY <6>1 DEF Holders
        <5>2. <<p, fd2>> \in User \X Fd
          OBVIOUS
        <5> QED
          BY <5>1, <5>2 DEF Holders
      <4>3. Cardinality(Holders(s, g) \cup {<<p, fd2>>}) = Cardinality(Holders(s, g)) + 1
        BY <3>1, <4>1, FS_AddElement
      <4> QED
        BY <1>4, <1>5, <1>7, <3>1, <3>2, <4>2, <4>3
    <3>3. CASE g # f
      <4>1. Holders(r, g) = Holders(s, g)
        <5>1. \A q \in User, d \in Fd : r.fp_filp[q][d] = g <=> s.fp_filp[q][d] = g
          BY <1>3, <1>7, <3>3, <1>q
        <5> QED
          BY <5>1 DEF Holders
      <4> QED
        BY <1>5, <1>7, <3>1, <3>3, <4>1
    <3> QED
      BY <3>2, <3>3
  <2>2. \A i : EndsOf(r, i) = EndsOf(s, i)
    BY <1>11, SharedSame
  <2> QED
    BY <1>1, <1>7, <2>1, <2>2 DEF Counted
<1>13. PositionsRight(r)
  BY <1>7, <1>10 DEF Base, PositionsRight, PositionRight
<1>14. ReadersWait(r)
  BY <1>7, <1>11, SharedSame DEF Base, ReadersWait
<1>15. Base(r)
  BY <1>11, <1>12, <1>13, <1>14, SharedBase
<1>16. \A q \in User : q # p => r.fp_filp[q] = s.fp_filp[q]
  BY <1>3, <1>7
<1>17. \A g \in Filp : r.filp[g].filp_pos = s.filp[g].filp_pos
  BY <1>10
<1> QED
  BY <1>7, <1>11, <1>15, <1>16, <1>17 DEF r
-----------------------------------------------------------------------------
(* do_pipe(): two free descriptors, two free slots and a free i-node.      *)

LEMMA TwoLeast ==
  ASSUME NEW I \in SUBSET Nat, IsFiniteSet(I), Cardinality(I) >= 2
  PROVE  /\ Min(I) \in I /\ Min(I \ {Min(I)}) \in I
         /\ Min(I) # Min(I \ {Min(I)})
<1>1. I # {}
  BY FS_EmptySet
<1>2. Min(I) \in I
  BY <1>1, LeastExists
<1> DEFINE a == Min(I)
           J == I \ {a}
<1> HIDE DEF a
<1>3. IsFiniteSet(J) /\ Cardinality(J) = Cardinality(I) - 1
  BY <1>2, FS_RemoveElement DEF a
<1>4. J # {}
  <2>1. Cardinality(J) # 0
    BY <1>3, FS_CardinalityType
  <2> QED
    BY <2>1, FS_EmptySet
<1>5. J \in SUBSET Nat
  OBVIOUS
<1> HIDE DEF J
<1>6. Min(J) \in J
  BY <1>4, <1>5, LeastExists
<1> QED
  BY <1>2, <1>6 DEF a, J

NewEnd(mode, ip) == [filp_mode |-> mode, filp_count |-> 1, filp_ino |-> ip, filp_pos |-> 0]

MadeAs(s, r, p, fd0, fd1, f0, f1, ip) ==
  /\ r \in Loose
  /\ r.fp_suspended = s.fp_suspended /\ r.fp_revived = s.fp_revived
  /\ r.fp_saved = s.fp_saved /\ r.panicked = s.panicked
  /\ r.susp_count = s.susp_count /\ r.reviving = s.reviving
  /\ fd0 \in Fd /\ fd1 \in Fd /\ fd0 # fd1 /\ f0 \in Filp /\ f1 \in Filp /\ f0 # f1 /\ ip \in Pipe
  /\ s.fp_filp[p][fd0] = NIL_FILP /\ s.fp_filp[p][fd1] = NIL_FILP
  /\ s.filp[f0].filp_count = 0 /\ s.filp[f1].filp_count = 0 /\ s.inode[ip].i_count = 0
  /\ r.fp_filp[p][fd0] = f0 /\ r.fp_filp[p][fd1] = f1
  /\ \A q \in User, d \in Fd : ~ (q = p /\ d \in {fd0, fd1}) => r.fp_filp[q][d] = s.fp_filp[q][d]
  /\ \A q \in User : q # p => r.fp_filp[q] = s.fp_filp[q]
  /\ r.filp[f0] = NewEnd("R", ip) /\ r.filp[f1] = NewEnd("W", ip)
  /\ \A g \in Filp : g # f0 /\ g # f1 => r.filp[g] = s.filp[g]
  /\ r.inode[ip] = [i_count |-> 2, i_size |-> 0]
  /\ \A i \in Pipe : i # ip => r.inode[i] = s.inode[i]

LEMMA NewPipeLemma ==
  ASSUME NEW s \in Loose, NEW p \in User, CanMakePipe(s, p)
  PROVE  \E fd0, fd1, f0, f1, ip : MadeAs(s, NewPipe(s, p), p, fd0, fd1, f0, f1, ip)
<1> DEFINE fd0 == Min(FreeFds(s, p))
           fd1 == Min(FreeFds(s, p) \ {fd0})
           f0  == Min(FreeFilps(s))
           f1  == Min(FreeFilps(s) \ {f0})
           I   == {i \in Pipe : s.inode[i].i_count = 0}
           ip  == Min(I)
           r   == NewPipe(s, p)
<1>1. fd0 \in FreeFds(s, p) /\ fd1 \in FreeFds(s, p) /\ fd0 # fd1
  <2>1. FreeFds(s, p) \in SUBSET Nat /\ IsFiniteSet(FreeFds(s, p))
    BY Sizes0, AllFinite, FS_Subset DEF FreeFds
  <2> QED
    BY <2>1, TwoLeast DEF CanMakePipe
<1>2. f0 \in FreeFilps(s) /\ f1 \in FreeFilps(s) /\ f0 # f1
  <2>1. FreeFilps(s) \in SUBSET Nat /\ IsFiniteSet(FreeFilps(s))
    BY Sizes0, AllFinite, FS_Subset DEF FreeFilps
  <2> QED
    BY <2>1, TwoLeast DEF CanMakePipe
<1>3. ip \in I
  <2>1. I \in SUBSET Nat /\ I # {}
    BY Sizes0 DEF CanMakePipe
  <2> HIDE DEF I
  <2> QED
    BY <2>1, LeastExists
<1>4. r = [s EXCEPT !.fp_filp[p][fd0] = f0, !.fp_filp[p][fd1] = f1,
                    !.filp[f0] = NewEnd("R", ip), !.filp[f1] = NewEnd("W", ip),
                    !.inode[ip] = [i_count |-> 2, i_size |-> 0]]
  BY Zenon DEF NewPipe, NewEnd
<1>5. /\ fd0 \in Fd /\ fd1 \in Fd /\ fd0 # fd1 /\ f0 \in Filp /\ f1 \in Filp /\ f0 # f1 /\ ip \in Pipe
      /\ s.fp_filp[p][fd0] = NIL_FILP /\ s.fp_filp[p][fd1] = NIL_FILP
      /\ s.filp[f0].filp_count = 0 /\ s.filp[f1].filp_count = 0 /\ s.inode[ip].i_count = 0
  BY <1>1, <1>2, <1>3 DEF FreeFds, FreeFilps
<1> HIDE DEF fd0, fd1, f0, f1, ip, I, r
<1>6. /\ s.fp_filp \in [User -> [Fd -> Filp \cup {NIL_FILP}]]
      /\ s.filp \in [Filp -> EndType] /\ s.inode \in [Pipe -> InodeType]
  BY LooseParts
<1> DEFINE row  == [[s.fp_filp[p] EXCEPT ![fd0] = f0] EXCEPT ![fd1] = f1]
           desc == [s.fp_filp EXCEPT ![p] = row]
           ends == [[s.filp EXCEPT ![f0] = NewEnd("R", ip)] EXCEPT ![f1] = NewEnd("W", ip)]
           node == [i_count |-> 2, i_size |-> 0]
           nodes == [s.inode EXCEPT ![ip] = node]
<1>7. /\ row \in [Fd -> Filp \cup {NIL_FILP}]
      /\ row[fd0] = f0 /\ row[fd1] = f1
      /\ \A d \in Fd : d \notin {fd0, fd1} => row[d] = s.fp_filp[p][d]
  BY <1>5, <1>6
<1>8. r = WithTables(s, desc, ends, nodes)
  <2>1. p \in DOMAIN s.fp_filp /\ fd0 \in DOMAIN s.fp_filp[p] /\ fd1 \in DOMAIN s.fp_filp[p]
    BY <1>5, <1>6
  <2>2. desc = [[s.fp_filp EXCEPT ![p][fd0] = f0] EXCEPT ![p][fd1] = f1]
    BY <2>1
  <2> HIDE DEF desc, ends, nodes
  <2> DEFINE t == [s EXCEPT !.fp_filp[p][fd0] = f0, !.fp_filp[p][fd1] = f1]
  <2>3. t = [s EXCEPT !.fp_filp = desc]
    BY <2>2 DEF Loose
  <2>4. r = [t EXCEPT !.filp[f0] = NewEnd("R", ip), !.filp[f1] = NewEnd("W", ip), !.inode[ip] = node]
    BY <1>4
  <2>5. t.filp = s.filp /\ t.inode = s.inode
    BY <2>3 DEF Loose
  <2> HIDE DEF t
  <2>6. r = [t EXCEPT !.filp = ends, !.inode = nodes]
    BY <2>4, <2>5 DEF ends, nodes
  <2> QED
    BY <2>3, <2>6 DEF WithTables
<1> HIDE DEF row
<1>9. /\ desc \in [User -> [Fd -> Filp \cup {NIL_FILP}]]
      /\ desc[p] = row
      /\ \A q \in User : q # p => desc[q] = s.fp_filp[q]
  BY <1>6, <1>7
<1>10. NewEnd("R", ip) \in EndType /\ NewEnd("W", ip) \in EndType /\ node \in InodeType
  BY <1>5, Sizes0 DEF NewEnd, EndType, InodeType
<1>11. /\ ends \in [Filp -> EndType]
       /\ ends[f0] = NewEnd("R", ip) /\ ends[f1] = NewEnd("W", ip)
       /\ \A g \in Filp : g # f0 /\ g # f1 => ends[g] = s.filp[g]
  BY <1>5, <1>6, <1>10
<1>12. /\ nodes \in [Pipe -> InodeType] /\ nodes[ip] = node
       /\ \A i \in Pipe : i # ip => nodes[i] = s.inode[i]
  BY <1>5, <1>6, <1>10
<1> HIDE DEF desc, ends, nodes
<1>u. /\ desc \in [User -> [Fd -> Filp \cup {NIL_FILP}]] /\ ends \in [Filp -> EndType]
      /\ nodes \in [Pipe -> InodeType]
  BY <1>9, <1>11, <1>12
<1>13. /\ r \in Loose
       /\ r.fp_filp = desc /\ r.filp = ends /\ r.inode = nodes
       /\ r.fp_suspended = s.fp_suspended /\ r.fp_revived = s.fp_revived
       /\ r.fp_saved = s.fp_saved /\ r.panicked = s.panicked
       /\ r.susp_count = s.susp_count /\ r.reviving = s.reviving
  BY <1>8, <1>u, TablesSet
<1>14. r.fp_filp[p][fd0] = f0 /\ r.fp_filp[p][fd1] = f1
  BY <1>7, <1>9, <1>13
<1>15. \A q \in User, d \in Fd : ~ (q = p /\ d \in {fd0, fd1}) => r.fp_filp[q][d] = s.fp_filp[q][d]
  BY <1>7, <1>9, <1>13
<1>16. \A q \in User : q # p => r.fp_filp[q] = s.fp_filp[q]
  BY <1>9, <1>13
<1>17. /\ r.filp[f0] = NewEnd("R", ip) /\ r.filp[f1] = NewEnd("W", ip)
       /\ \A g \in Filp : g # f0 /\ g # f1 => r.filp[g] = s.filp[g]
  BY <1>11, <1>13
<1>18. /\ r.inode[ip] = node
       /\ \A i \in Pipe : i # ip => r.inode[i] = s.inode[i]
  BY <1>12, <1>13
<1>19. MadeAs(s, r, p, fd0, fd1, f0, f1, ip)
  BY <1>5, <1>13, <1>14, <1>15, <1>16, <1>17, <1>18, Zenon DEF MadeAs
<1> QED
  BY <1>19 DEF r

\* Nobody hangs on the new pipe, and the others are as before.
\* Nobody hangs on the new pipe, and all else is as it was.
MadeFresh(s, r, f0, f1, ip) ==
  /\ \A q \in User : s.fp_suspended[q] =>
       FilpOf(r, q) = FilpOf(s, q) /\ r.filp[FilpOf(s, q)] = s.filp[FilpOf(s, q)]
  /\ \A q \in User : \A i, c : On(r, q, i, c) <=> On(s, q, i, c)
  /\ \A q \in User : Sleeps(r, q) <=> Sleeps(s, q)
  /\ \A i, bits : i # ip => find_filp(r, i, bits) = find_filp(s, i, bits)
  /\ \A bits : find_filp(s, ip, bits) = {}
  /\ find_filp(r, ip, "R") = {f0} /\ find_filp(r, ip, "W") = {f1}
  /\ \A i : i # ip => EndsOf(r, i) = EndsOf(s, i)
  /\ EndsOf(s, ip) = {} /\ EndsOf(r, ip) = {f0, f1}

LEMMA MadeSame ==
  ASSUME NEW s, NEW r, NEW p \in User, NEW fd0, NEW fd1, NEW f0, NEW f1, NEW ip, Base(s),
         MadeAs(s, r, p, fd0, fd1, f0, f1, ip), ~ s.fp_suspended[p]
  PROVE  MadeFresh(s, r, f0, f1, ip)
<1>1. /\ f0 \in Filp /\ f1 \in Filp /\ f0 # f1 /\ ip \in Pipe
      /\ s.filp[f0].filp_count = 0 /\ s.filp[f1].filp_count = 0 /\ s.inode[ip].i_count = 0
  BY DEF MadeAs
<1>2. /\ r.filp[f0] = NewEnd("R", ip) /\ r.filp[f1] = NewEnd("W", ip)
      /\ \A g \in Filp : g # f0 /\ g # f1 => r.filp[g] = s.filp[g]
  BY DEF MadeAs
<1>3. \A q \in User : q # p => r.fp_filp[q] = s.fp_filp[q]
  BY DEF MadeAs
<1>4. r.fp_suspended = s.fp_suspended /\ r.fp_saved = s.fp_saved /\ r.fp_revived = s.fp_revived
  BY DEF MadeAs
<1>5. ASSUME NEW q \in User, s.fp_suspended[q]
      PROVE  FilpOf(r, q) = FilpOf(s, q) /\ r.filp[FilpOf(s, q)] = s.filp[FilpOf(s, q)]
  <2>1. FilpOf(s, q) \in Filp /\ s.filp[FilpOf(s, q)].filp_count >= 1
    BY <1>5, HangsOnEnd
  <2>2. FilpOf(s, q) # f0 /\ FilpOf(s, q) # f1
    BY <1>1, <2>1
  <2>3. FilpOf(r, q) = FilpOf(s, q)
    BY <1>3, <1>4, <1>5 DEF FilpOf
  <2> QED
    BY <1>2, <2>1, <2>2, <2>3
<1>6. \A q \in User : \A i, c : On(r, q, i, c) <=> On(s, q, i, c)
  BY <1>4, <1>5 DEF On
<1>7. \A q \in User : Sleeps(r, q) <=> Sleeps(s, q)
  BY <1>4 DEF Sleeps
<1>8. EndsOf(s, ip) = {}
  <2>1. IsFiniteSet(EndsOf(s, ip)) /\ s.inode[ip].i_count = Cardinality(EndsOf(s, ip))
    BY <1>1, PartsFinite DEF Base, Counted, EndsOf
  <2> QED
    BY <1>1, <2>1, FS_EmptySet
<1>9. \A g \in Filp : s.filp[g].filp_count # 0 => s.filp[g].filp_ino # ip
  BY <1>8 DEF EndsOf
<1>10. \A g \in Filp : g # f0 /\ g # f1 => r.filp[g] = s.filp[g]
  BY <1>2
<1>11. /\ r.filp[f0].filp_count = 1 /\ r.filp[f0].filp_ino = ip /\ r.filp[f0].filp_mode = "R"
       /\ r.filp[f1].filp_count = 1 /\ r.filp[f1].filp_ino = ip /\ r.filp[f1].filp_mode = "W"
  BY <1>2 DEF NewEnd
<1>12. \A i, bits : i # ip => find_filp(r, i, bits) = find_filp(s, i, bits)
  BY <1>1, <1>10, <1>11 DEF find_filp
<1>13. \A bits : find_filp(s, ip, bits) = {}
  BY <1>9 DEF find_filp
<1>14. find_filp(r, ip, "R") = {f0} /\ find_filp(r, ip, "W") = {f1}
  BY <1>1, <1>9, <1>10, <1>11 DEF find_filp
<1>15. \A i : i # ip => EndsOf(r, i) = EndsOf(s, i)
  BY <1>1, <1>10, <1>11 DEF EndsOf
<1>16. EndsOf(r, ip) = {f0, f1}
  BY <1>1, <1>9, <1>10, <1>11 DEF EndsOf
<1> QED
  BY <1>5, <1>6, <1>7, <1>8, <1>12, <1>13, <1>14, <1>15, <1>16 DEF MadeFresh

LEMMA MadeBase ==
  ASSUME NEW s, NEW r, NEW p \in User, NEW fd0, NEW fd1, NEW f0, NEW f1, NEW ip, Base(s),
         MadeAs(s, r, p, fd0, fd1, f0, f1, ip), ~ s.fp_suspended[p]
  PROVE  Base(r)
<1>a. /\ \A q \in User : s.fp_suspended[q] =>
           FilpOf(r, q) = FilpOf(s, q) /\ r.filp[FilpOf(s, q)] = s.filp[FilpOf(s, q)]
      /\ \A q \in User : \A i, c : On(r, q, i, c) <=> On(s, q, i, c)
      /\ \A q \in User : Sleeps(r, q) <=> Sleeps(s, q)
      /\ \A i, bits : i # ip => find_filp(r, i, bits) = find_filp(s, i, bits)
      /\ \A bits : find_filp(s, ip, bits) = {}
      /\ find_filp(r, ip, "R") = {f0} /\ find_filp(r, ip, "W") = {f1}
      /\ \A i : i # ip => EndsOf(r, i) = EndsOf(s, i)
      /\ EndsOf(s, ip) = {} /\ EndsOf(r, ip) = {f0, f1}
  <2>1. MadeFresh(s, r, f0, f1, ip)
    BY MadeSame
  <2> QED
    BY <2>1, Zenon DEF MadeFresh
<1>1. /\ f0 \in Filp /\ f1 \in Filp /\ f0 # f1 /\ ip \in Pipe /\ fd0 \in Fd /\ fd1 \in Fd /\ fd0 # fd1
      /\ s.filp[f0].filp_count = 0 /\ s.filp[f1].filp_count = 0 /\ s.inode[ip].i_count = 0
      /\ s.fp_filp[p][fd0] = NIL_FILP /\ s.fp_filp[p][fd1] = NIL_FILP
  BY DEF MadeAs
<1>2. /\ r.filp[f0] = NewEnd("R", ip) /\ r.filp[f1] = NewEnd("W", ip)
      /\ \A g \in Filp : g # f0 /\ g # f1 => r.filp[g] = s.filp[g]
  BY DEF MadeAs
<1>3. /\ r.filp[f0].filp_count = 1 /\ r.filp[f0].filp_ino = ip /\ r.filp[f0].filp_mode = "R"
      /\ r.filp[f1].filp_count = 1 /\ r.filp[f1].filp_ino = ip /\ r.filp[f1].filp_mode = "W"
      /\ r.filp[f0].filp_pos = 0 /\ r.filp[f1].filp_pos = 0
  BY <1>2 DEF NewEnd
<1>4. /\ r.fp_suspended = s.fp_suspended /\ r.fp_saved = s.fp_saved /\ r.fp_revived = s.fp_revived
      /\ r.susp_count = s.susp_count /\ r.reviving = s.reviving
  BY DEF MadeAs
<1>5. /\ r.inode[ip].i_count = 2 /\ r.inode[ip].i_size = 0
      /\ \A i \in Pipe : i # ip => r.inode[i] = s.inode[i]
  BY DEF MadeAs
<1>6. s \in Loose /\ r \in Loose /\ Counted(s) /\ EndsRight(s)
  BY DEF Base, MadeAs
<1>7. Agree(r)
  BY <1>4, <1>a DEF Base, Agree
<1>8. ASSUME NEW g \in Filp PROVE r.filp[g].filp_count = Cardinality(Holders(r, g))
  <2>0. /\ r.fp_filp[p][fd0] = f0 /\ r.fp_filp[p][fd1] = f1
        /\ \A q \in User, d \in Fd : ~ (q = p /\ d \in {fd0, fd1}) => r.fp_filp[q][d] = s.fp_filp[q][d]
    BY DEF MadeAs
  <2>1. s.filp[g].filp_count = Cardinality(Holders(s, g)) /\ IsFiniteSet(Holders(s, g))
    BY <1>6, PartsFinite DEF Counted, Holders
  <2>2. s.filp[g].filp_count = 0 => Holders(s, g) = {}
    BY <2>1, FS_EmptySet
  <2>3. ASSUME NEW d \in Fd, d \in {fd0, fd1}, r.fp_filp[p][d] = g, s.filp[g].filp_count = 0,
               \A e \in {fd0, fd1} : e # d => r.fp_filp[p][e] # g
        PROVE  Holders(r, g) = {<<p, d>>}
    <3>1. \A q \in User, e \in Fd : s.fp_filp[q][e] # g
      <4> SUFFICES ASSUME NEW q \in User, NEW e \in Fd, s.fp_filp[q][e] = g PROVE FALSE
        OBVIOUS
      <4>1. <<q, e>> \in Holders(s, g)
        BY DEF Holders
      <4> QED
        BY <2>2, <2>3, <4>1
    <3>2. \A q \in User, e \in Fd : r.fp_filp[q][e] = g <=> q = p /\ e = d
      BY <2>0, <2>3, <3>1
    <3>3. \A x \in User \X Fd : x \in Holders(r, g) <=> x = <<p, d>>
      <4> SUFFICES ASSUME NEW q \in User, NEW e \in Fd
                   PROVE  <<q, e>> \in Holders(r, g) <=> <<q, e>> = <<p, d>>
        OBVIOUS
      <4> QED
        BY <3>2 DEF Holders
    <3> QED
      BY <3>3 DEF Holders
  <2>4. CASE g \in {f0, f1}
    <3>1. PICK d \in {fd0, fd1} : r.fp_filp[p][d] = g
      BY <2>0, <2>4
    <3>2. s.filp[g].filp_count = 0 /\ d \in Fd /\ \A e \in {fd0, fd1} : e # d => r.fp_filp[p][e] # g
      BY <1>1, <2>0, <2>4, <3>1
    <3>3. Holders(r, g) = {<<p, d>>}
      BY <2>3, <3>1, <3>2
    <3>4. Cardinality(Holders(r, g)) = 1
      BY <3>3, FS_Singleton
    <3> QED
      BY <1>3, <2>4, <3>4
  <2>5. CASE g \notin {f0, f1}
    <3>1. \A q \in User, e \in Fd : r.fp_filp[q][e] = g <=> s.fp_filp[q][e] = g
      BY <1>1, <2>0, <2>5, Sizes0
    <3>2. Holders(r, g) = Holders(s, g)
      BY <3>1 DEF Holders
    <3> QED
      BY <1>2, <2>1, <2>5, <3>2
  <2> QED
    BY <2>4, <2>5
<1>9. ASSUME NEW i \in Pipe PROVE r.inode[i].i_count = Cardinality(EndsOf(r, i))
  <2>1. CASE i = ip
    <3>1. Cardinality({f0, f1}) = 2
      <4>1. IsFiniteSet({f0}) /\ Cardinality({f0}) = 1
        BY FS_Singleton
      <4> DEFINE S == {f0}
      <4>a. f1 \notin S
        BY <1>1
      <4>3. S \cup {f1} = {f0, f1}
        OBVIOUS
      <4> HIDE DEF S
      <4>b. IsFiniteSet(S) /\ Cardinality(S) = 1
        BY <4>1 DEF S
      <4>c. Cardinality(S \cup {f1}) = Cardinality(S) + 1
        BY <4>a, <4>b, FS_AddElement
      <4>2. Cardinality(S \cup {f1}) = 2
        BY <4>b, <4>c
      <4> QED
        BY <4>2, <4>3
    <3> QED
      BY <1>5, <1>a, <2>1, <3>1
  <2>2. CASE i # ip
    BY <1>5, <1>6, <1>a, <2>2 DEF Counted
  <2> QED
    BY <2>1, <2>2
<1>10. Counted(r)
  BY <1>8, <1>9 DEF Counted
<1>11. \A g \in Filp : g \notin {f0, f1} => r.filp[g] = s.filp[g]
  BY <1>2
<1>12. \A g \in Filp : s.filp[g].filp_count # 0 => s.filp[g].filp_ino # ip
  BY <1>a DEF EndsOf
<1>13. EndsRight(r)
  BY <1>1, <1>3, <1>6, <1>11, <1>12 DEF EndsRight
<1>14. PositionsRight(r)
  <2>1. ASSUME NEW g \in {f0, f1} PROVE PositionRight(r.filp[g], r.inode[r.filp[g].filp_ino].i_size)
    BY <1>3, <1>5 DEF PositionRight
  <2>2. ASSUME NEW g \in Filp, g \notin {f0, f1}, r.filp[g].filp_count # 0
        PROVE  PositionRight(r.filp[g], r.inode[r.filp[g].filp_ino].i_size)
    <3>1. r.filp[g] = s.filp[g] /\ s.filp[g].filp_ino # ip /\ s.filp[g].filp_ino \in Pipe
      BY <1>6, <1>11, <1>12, <2>2 DEF EndsRight
    <3> QED
      BY <1>5, <2>2, <3>1 DEF Base, PositionsRight
  <2> QED
    BY <2>1, <2>2 DEF PositionsRight
<1>15. CallsRight(r)
  <2>1. ASSUME NEW q \in User, r.fp_suspended[q] PROVE CallRight(r, q)
    <3>1. CallRight(s, q)
      BY <1>4, <2>1 DEF Base, CallsRight
    <3> QED
      BY <1>4, <1>a, <2>1, <3>1 DEF CallRight
  <2> QED
    BY <1>4, <2>1 DEF Base, CallsRight
<1>16. PartnersRight(r)
  BY <1>a DEF Base, PartnersRight
<1>17. ReadersWait(r)
  BY <1>5, <1>a DEF Base, ReadersWait
<1> QED
  BY <1>6, <1>7, <1>10, <1>13, <1>14, <1>15, <1>16, <1>17 DEF Base
-----------------------------------------------------------------------------
(* do_fork(): the child shares all descriptors of its parent.              *)

Shared(s, p, f) == {fd \in Fd : s.fp_filp[p][fd] = f}

LEMMA CopiedTables ==
  ASSUME NEW s \in Loose, NEW parent \in User, NEW child \in User, parent # child,
         ~ s.fp_suspended[parent], ~ s.fp_suspended[child],
         ~ s.fp_revived[parent], ~ s.fp_revived[child],
         NEW r, r = Copied(s, parent, child)
  PROVE  /\ r \in Loose
         /\ r.fp_filp[child] = s.fp_filp[parent]
         /\ \A q \in User : q # child => r.fp_filp[q] = s.fp_filp[q] /\ r.fp_saved[q] = s.fp_saved[q]
         /\ \A f \in Filp : r.filp[f] = [s.filp[f] EXCEPT !.filp_count = @ + Cardinality(Shared(s, parent, f))]
         /\ r.fp_suspended = s.fp_suspended /\ r.fp_revived = s.fp_revived /\ r.inode = s.inode
         /\ r.panicked = s.panicked /\ r.susp_count = s.susp_count /\ r.reviving = s.reviving
<1> DEFINE desc == [s.fp_filp EXCEPT ![child] = s.fp_filp[parent]]
           susp == [s.fp_suspended EXCEPT ![child] = s.fp_suspended[parent]]
           rev  == [s.fp_revived EXCEPT ![child] = s.fp_revived[parent]]
           sav  == [s.fp_saved EXCEPT ![child] = s.fp_saved[parent]]
           ends == [f \in Filp |-> [s.filp[f] EXCEPT !.filp_count = @ + Cardinality(Shared(s, parent, f))]]
<1>0. /\ s.fp_filp \in [User -> [Fd -> Filp \cup {NIL_FILP}]]
      /\ s.fp_suspended \in [User -> BOOLEAN] /\ s.fp_revived \in [User -> BOOLEAN]
      /\ s.fp_saved \in [User -> Saved \cup {NoCall}]
      /\ s.filp \in [Filp -> EndType] /\ s.inode \in [Pipe -> InodeType]
  BY LooseParts
<1>1. r = [s EXCEPT !.fp_filp = desc, !.fp_suspended = susp, !.fp_revived = rev,
                    !.fp_saved = sav, !.filp = ends]
  <2> DEFINE slots == [f \in Filp |-> [s.filp[f] EXCEPT !.filp_count =
                          @ + Cardinality({fd \in Fd : s.fp_filp[parent][fd] = f})]]
  <2>1. slots = ends
    BY DEF Shared
  <2>2. Copied(s, parent, child) =
          [s EXCEPT !.fp_filp[child] = s.fp_filp[parent],
            !.fp_suspended[child] = s.fp_suspended[parent],
            !.fp_revived[child] = s.fp_revived[parent],
            !.fp_saved[child] = s.fp_saved[parent],
            !.filp = slots]
    BY DEF Copied, Loose
  <2> HIDE DEF slots
  <2> QED
    BY <2>1, <2>2
<1>2. /\ desc \in [User -> [Fd -> Filp \cup {NIL_FILP}]]
      /\ desc[child] = s.fp_filp[parent]
      /\ \A q \in User : q # child => desc[q] = s.fp_filp[q]
  BY <1>0
<1>3. susp = s.fp_suspended /\ rev = s.fp_revived
  BY <1>0
<1>4. /\ sav \in [User -> Saved \cup {NoCall}]
      /\ \A q \in User : q # child => sav[q] = s.fp_saved[q]
  BY <1>0
<1>5. ends \in [Filp -> EndType]
  <2>1. ASSUME NEW f \in Filp
        PROVE  [s.filp[f] EXCEPT !.filp_count = @ + Cardinality(Shared(s, parent, f))] \in EndType
    <3>1. Cardinality(Shared(s, parent, f)) \in Nat
      <4>1. IsFiniteSet(Shared(s, parent, f))
        BY AllFinite, FS_Subset DEF Shared
      <4> QED
        BY <4>1, FS_CardinalityType
    <3>2. s.filp[f] \in EndType
      BY <1>0
    <3> QED
      BY <3>1, <3>2 DEF EndType
  <2> QED
    BY <2>1
<1>6. \A f \in Filp : ends[f] = [s.filp[f] EXCEPT !.filp_count = @ + Cardinality(Shared(s, parent, f))]
  OBVIOUS
<1> HIDE DEF desc, susp, rev, sav, ends
<1>7. r = [s EXCEPT !.fp_filp = desc, !.fp_suspended = s.fp_suspended, !.fp_revived = s.fp_revived,
                    !.fp_saved = sav, !.filp = ends]
  BY <1>1, <1>3
<1>8. r \in Loose
  BY <1>2, <1>4, <1>5, <1>7 DEF Loose, EndType
<1>9. /\ r.fp_filp = desc /\ r.fp_saved = sav /\ r.filp = ends
      /\ r.fp_suspended = s.fp_suspended /\ r.fp_revived = s.fp_revived /\ r.inode = s.inode
      /\ r.panicked = s.panicked /\ r.susp_count = s.susp_count /\ r.reviving = s.reviving
  BY <1>7 DEF Loose
<1>10. r.fp_filp[child] = s.fp_filp[parent]
  BY <1>2, <1>9
<1>11. \A q \in User : q # child => r.fp_filp[q] = s.fp_filp[q] /\ r.fp_saved[q] = s.fp_saved[q]
  BY <1>2, <1>4, <1>9
<1>12. \A f \in Filp : r.filp[f] = [s.filp[f] EXCEPT !.filp_count = @ + Cardinality(Shared(s, parent, f))]
  BY <1>6, <1>9
<1> QED
  BY <1>8, <1>9, <1>10, <1>11, <1>12

LEMMA ForkBase ==
  ASSUME NEW s, Base(s), NEW parent \in User, NEW child \in User, parent # child,
         ~ s.fp_suspended[parent], ~ s.fp_suspended[child],
         \A d \in Fd : s.fp_filp[child][d] = NIL_FILP,
         NEW r, r = Copied(s, parent, child)
  PROVE  /\ Base(r) /\ SharedAs(s, r)
         /\ \A q \in User : q # child => r.fp_filp[q] = s.fp_filp[q]
         /\ \A g \in Filp : r.filp[g].filp_pos = s.filp[g].filp_pos
         /\ r.inode = s.inode
<1>1. s \in Loose /\ Counted(s)
  BY DEF Base
<1>2. ~ s.fp_revived[parent] /\ ~ s.fp_revived[child]
  BY DEF Base, CallsRight
<1>3. /\ r \in Loose
      /\ r.fp_filp[child] = s.fp_filp[parent]
      /\ \A q \in User : q # child => r.fp_filp[q] = s.fp_filp[q] /\ r.fp_saved[q] = s.fp_saved[q]
      /\ \A f \in Filp : r.filp[f] = [s.filp[f] EXCEPT !.filp_count = @ + Cardinality(Shared(s, parent, f))]
      /\ r.fp_suspended = s.fp_suspended /\ r.fp_revived = s.fp_revived /\ r.inode = s.inode
      /\ r.panicked = s.panicked /\ r.susp_count = s.susp_count /\ r.reviving = s.reviving
  BY <1>1, <1>2, CopiedTables
<1>4. ASSUME NEW g \in Filp
      PROVE  /\ IsFiniteSet(Shared(s, parent, g)) /\ Cardinality(Shared(s, parent, g)) \in Nat
             /\ s.filp[g].filp_count = Cardinality(Holders(s, g)) /\ IsFiniteSet(Holders(s, g))
             /\ s.filp[g].filp_count \in Nat
             /\ s.filp[g].filp_count = 0 => Cardinality(Shared(s, parent, g)) = 0
  <2>1. IsFiniteSet(Shared(s, parent, g))
    BY AllFinite, FS_Subset DEF Shared
  <2>2. s.filp[g].filp_count = Cardinality(Holders(s, g)) /\ IsFiniteSet(Holders(s, g))
    BY <1>1, PartsFinite DEF Counted, Holders
  <2>3. ASSUME s.filp[g].filp_count = 0 PROVE Shared(s, parent, g) = {}
    <3>1. Holders(s, g) = {}
      BY <2>2, <2>3, FS_EmptySet
    <3>2. ASSUME NEW d \in Shared(s, parent, g) PROVE <<parent, d>> \in Holders(s, g)
      BY DEF Shared, Holders
    <3> QED
      BY <3>1, <3>2
  <2> QED
    BY <2>1, <2>2, <2>3, FS_CardinalityType, FS_EmptySet
<1>5. ASSUME NEW g \in Filp
      PROVE  /\ r.filp[g].filp_count = s.filp[g].filp_count + Cardinality(Shared(s, parent, g))
             /\ r.filp[g].filp_ino = s.filp[g].filp_ino
             /\ r.filp[g].filp_mode = s.filp[g].filp_mode
             /\ r.filp[g].filp_pos = s.filp[g].filp_pos
  <2> DEFINE n == Cardinality(Shared(s, parent, g))
  <2>1. s.filp[g] \in EndType
    BY <1>1, LooseParts
  <2>2. r.filp[g] = [s.filp[g] EXCEPT !.filp_count = @ + n]
    BY <1>3
  <2> HIDE DEF n
  <2>3. /\ r.filp[g].filp_count = s.filp[g].filp_count + n
        /\ r.filp[g].filp_ino = s.filp[g].filp_ino
        /\ r.filp[g].filp_mode = s.filp[g].filp_mode
        /\ r.filp[g].filp_pos = s.filp[g].filp_pos
    BY <2>1, <2>2 DEF EndType
  <2> QED
    BY <2>3 DEF n
<1>6. ASSUME NEW g \in Filp PROVE r.filp[g].filp_count # 0 <=> s.filp[g].filp_count # 0
  <2> DEFINE n == Cardinality(Shared(s, parent, g))
  <2>1. n \in Nat /\ s.filp[g].filp_count \in Nat /\ (s.filp[g].filp_count = 0 => n = 0)
    BY <1>4
  <2>2. r.filp[g].filp_count = s.filp[g].filp_count + n
    BY <1>5
  <2> HIDE DEF n
  <2> QED
    BY <2>1, <2>2
<1>7. ASSUME NEW q \in User, s.fp_suspended[q]
      PROVE  r.fp_saved[q] = s.fp_saved[q] /\ FilpOf(r, q) = FilpOf(s, q)
  BY <1>3, <1>7 DEF FilpOf
<1>8. SharedAs(s, r)
  BY <1>3, <1>5, <1>6, <1>7 DEF SharedAs
<1>9. ASSUME NEW g \in Filp PROVE r.filp[g].filp_count = Cardinality(Holders(r, g))
  <2> DEFINE S == Shared(s, parent, g)
             X == {child} \X S
             H == Holders(s, g)
  <2>1. IsFiniteSet(S) /\ Cardinality(S) \in Nat /\ IsFiniteSet(H) /\ s.filp[g].filp_count = Cardinality(H)
    BY <1>4
  <2>2. IsFiniteSet({child}) /\ Cardinality({child}) = 1
    BY FS_Singleton
  <2>3. \A q \in User, d \in Fd :
          <<q, d>> \in Holders(r, g) <=> <<q, d>> \in H \/ <<q, d>> \in X
    <3> SUFFICES ASSUME NEW q \in User, NEW d \in Fd
                 PROVE  <<q, d>> \in Holders(r, g) <=> <<q, d>> \in H \/ <<q, d>> \in X
      OBVIOUS
    <3>1. <<q, d>> \in X <=> q = child /\ s.fp_filp[parent][d] = g
      BY DEF Shared
    <3>2. <<q, d>> \in H <=> s.fp_filp[q][d] = g
      BY DEF Holders
    <3>3. <<q, d>> \in Holders(r, g) <=> r.fp_filp[q][d] = g
      BY DEF Holders
    <3>4. q = child => s.fp_filp[q][d] # g
      BY Sizes0
    <3> HIDE DEF X, H
    <3> QED
      BY <1>3, <3>1, <3>2, <3>3, <3>4
  <2>4. H \cap X = {}
    <3> SUFFICES ASSUME NEW d \in S PROVE <<child, d>> \notin H
      BY DEF Holders
    <3> QED
      BY Sizes0 DEF Holders, Shared
  <2>5. X \subseteq User \X Fd /\ H \subseteq User \X Fd /\ Holders(r, g) \subseteq User \X Fd
    BY DEF Shared, Holders
  <2> HIDE DEF S, H
  <2>6. IsFiniteSet(X) /\ Cardinality(X) = Cardinality({child}) * Cardinality(S)
    BY <2>1, <2>2, FS_Product
  <2>7. Cardinality(X) = Cardinality(S)
    BY <2>1, <2>2, <2>6
  <2> HIDE DEF X
  <2>8. Holders(r, g) = H \cup X
    <3>1. \A x \in User \X Fd : x \in Holders(r, g) <=> x \in H \cup X
      BY <2>3
    <3> QED
      BY <2>5, <3>1
  <2>9. Cardinality(H \cup X) = Cardinality(H) + Cardinality(X) - Cardinality(H \cap X)
    BY <2>1, <2>6, FS_Union
  <2>10. Cardinality(H \cap X) = 0
    BY <2>4, FS_EmptySet
  <2>11. r.filp[g].filp_count = s.filp[g].filp_count + Cardinality(S)
    BY <1>5 DEF S
  <2>12. Cardinality(H) \in Nat
    BY <2>1, FS_CardinalityType
  <2> QED
    BY <2>1, <2>7, <2>8, <2>9, <2>10, <2>11, <2>12
<1>10. Counted(r)
  <2>1. \A i : EndsOf(r, i) = EndsOf(s, i)
    BY <1>8, SharedSame
  <2> QED
    BY <1>1, <1>3, <1>9, <2>1 DEF Counted
<1>11. PositionsRight(r)
  BY <1>3, <1>5, <1>6 DEF Base, PositionsRight, PositionRight
<1>12. ReadersWait(r)
  BY <1>3, <1>8, SharedSame DEF Base, ReadersWait
<1>13. Base(r)
  BY <1>8, <1>10, <1>11, <1>12, SharedBase
<1> QED
  BY <1>3, <1>5, <1>8, <1>13
-----------------------------------------------------------------------------
(* The data of READ and WRITE: only positions and sizes change.            *)

MovedAs(s, r) ==
  /\ SharedAs(s, r)
  /\ r.fp_filp = s.fp_filp /\ r.fp_suspended = s.fp_suspended /\ r.fp_revived = s.fp_revived
  /\ r.fp_saved = s.fp_saved
  /\ \A g \in Filp : r.filp[g].filp_count = s.filp[g].filp_count
  /\ \A i \in Pipe : r.inode[i].i_count = s.inode[i].i_count

LEMMA MovedLemma ==
  ASSUME NEW s, Base(s), NEW ends \in [Filp -> EndType], NEW nodes \in [Pipe -> InodeType],
         \A g \in Filp : /\ ends[g].filp_count = s.filp[g].filp_count
                         /\ ends[g].filp_ino = s.filp[g].filp_ino
                         /\ ends[g].filp_mode = s.filp[g].filp_mode,
         \A i \in Pipe : nodes[i].i_count = s.inode[i].i_count,
         NEW r, r = WithTables(s, s.fp_filp, ends, nodes)
  PROVE  MovedAs(s, r) /\ Counted(r) /\ r.filp = ends /\ r.inode = nodes
<1>1. s \in Loose /\ Counted(s)
  BY DEF Base
<1>2. s.fp_filp \in [User -> [Fd -> Filp \cup {NIL_FILP}]]
  BY <1>1, LooseParts
<1>3. /\ r \in Loose
      /\ r.fp_filp = s.fp_filp /\ r.filp = ends /\ r.inode = nodes
      /\ r.fp_suspended = s.fp_suspended /\ r.fp_revived = s.fp_revived
      /\ r.fp_saved = s.fp_saved /\ r.panicked = s.panicked
      /\ r.susp_count = s.susp_count /\ r.reviving = s.reviving
  BY <1>1, <1>2, TablesSet
<1>4. SharedAs(s, r)
  <2>1. \A q \in User : FilpOf(r, q) = FilpOf(s, q)
    BY <1>3 DEF FilpOf
  <2>2. \A g \in Filp : /\ r.filp[g].filp_count # 0 <=> s.filp[g].filp_count # 0
                        /\ r.filp[g].filp_ino = s.filp[g].filp_ino
                        /\ r.filp[g].filp_mode = s.filp[g].filp_mode
    BY <1>3
  <2> QED
    BY <1>3, <2>1, <2>2 DEF SharedAs
<1>5. MovedAs(s, r)
  BY <1>3, <1>4 DEF MovedAs
<1>6. Counted(r)
  <2>1. \A i : EndsOf(r, i) = EndsOf(s, i)
    BY <1>4, SharedSame
  <2>2. \A g : Holders(r, g) = Holders(s, g)
    BY <1>3 DEF Holders
  <2> QED
    BY <1>1, <1>3, <2>1, <2>2 DEF Counted
<1> QED
  BY <1>3, <1>5, <1>6

\* The positions of the pipe ip change at most, and a reader that is asleep finds it empty.
LEMMA MovedBase ==
  ASSUME NEW s, NEW r, Base(s), MovedAs(s, r), Counted(r), NEW ip \in Pipe,
         \A i \in Pipe : i # ip => r.inode[i] = s.inode[i],
         \A g \in Filp : s.filp[g].filp_ino # ip => r.filp[g] = s.filp[g],
         \A g \in Filp : s.filp[g].filp_count # 0 /\ s.filp[g].filp_ino = ip =>
           PositionRight(r.filp[g], r.inode[ip].i_size),
         \A q \in User : Sleeps(s, q) /\ On(s, q, ip, "READ") => r.inode[ip].i_size = 0
  PROVE  Base(r)
<1>1. SharedAs(s, r)
  BY DEF MovedAs
<1>2. PositionsRight(r)
  <2>1. ASSUME NEW g \in Filp, r.filp[g].filp_count # 0
        PROVE  PositionRight(r.filp[g], r.inode[r.filp[g].filp_ino].i_size)
    <3>1. s.filp[g].filp_count # 0 /\ r.filp[g].filp_ino = s.filp[g].filp_ino
      BY <1>1, <2>1 DEF SharedAs
    <3>2. s.filp[g].filp_ino \in Pipe
      BY <3>1 DEF Base, EndsRight
    <3>3. CASE s.filp[g].filp_ino = ip
      BY <3>1, <3>3
    <3>4. CASE s.filp[g].filp_ino # ip
      BY <3>1, <3>2, <3>4 DEF Base, PositionsRight
    <3> QED
      BY <3>3, <3>4
  <2> QED
    BY <2>1 DEF PositionsRight
<1>3. ReadersWait(r)
  <2>1. ASSUME NEW q \in User, NEW i \in Pipe, Sleeps(r, q), On(r, q, i, "READ")
        PROVE  r.inode[i].i_size = 0
    <3>1. Sleeps(s, q) /\ On(s, q, i, "READ")
      BY <1>1, <2>1, SharedSame
    <3>2. CASE i = ip
      BY <3>1, <3>2
    <3>3. CASE i # ip
      BY <3>1, <3>3 DEF Base, ReadersWait
    <3> QED
      BY <3>2, <3>3
  <2> QED
    BY <2>1 DEF ReadersWait
<1> QED
  BY <1>1, <1>2, <1>3, SharedBase

NoReaderAsleep(s, ip) == \A q \in User : ~ (Sleeps(s, q) /\ On(s, q, ip, "READ"))

WroteAs(s, r, f, ip, done) ==
  /\ Base(r) /\ MovedAs(s, r)
  /\ \A g \in Filp : g # f => r.filp[g] = s.filp[g]
  /\ \A i \in Pipe : i # ip => r.inode[i] = s.inode[i]
  /\ r.inode[ip].i_size = s.inode[ip].i_size + done

LEMMA WriteDataBase ==
  ASSUME NEW s, Base(s), NEW f \in Filp, NEW ip, NEW nbytes, NEW done \in Nat,
         s.filp[f].filp_count # 0, s.filp[f].filp_mode = "W", s.filp[f].filp_ino = ip,
         s.filp[f].filp_pos + done <= PIPE_SIZE,
         NoReaderAsleep(s, ip), NEW r, r = WriteData(s, f, ip, nbytes, done).s
  PROVE  WroteAs(s, r, f, ip, done)
<1>1. s \in Loose /\ Counted(s) /\ EndsRight(s) /\ PositionsRight(s)
  BY DEF Base
<1>2. ip \in Pipe
  BY <1>1 DEF EndsRight
<1>3. s.filp \in [Filp -> EndType] /\ s.inode \in [Pipe -> InodeType]
  BY <1>1, LooseParts
<1> DEFINE pos == s.filp[f].filp_pos
           size == s.inode[ip].i_size
           new == pos + done
<1>4. pos = size
  BY <1>1 DEF PositionsRight, PositionRight
<1>5. pos \in 0 .. PIPE_SIZE /\ size \in 0 .. PIPE_SIZE
  BY <1>2, <1>3 DEF EndType, InodeType
<1>6. new \in 0 .. PIPE_SIZE /\ new >= size
  BY <1>4, <1>5, Sizes0
<1>7. Max({size, new}) = new
  <2> HIDE DEF new, size
  <2>1. size \in Int /\ new \in Int
    BY <1>5, <1>6
  <2>2. Max({size, new}) = IF size >= new THEN size ELSE new
    BY <2>1, LessOrMore, Zenon
  <2> QED
    BY <1>6, <2>1, <2>2
<1> DEFINE end1 == [s.filp[f] EXCEPT !.filp_pos = new]
           node == [s.inode[ip] EXCEPT !.i_size = new]
           ends == [s.filp EXCEPT ![f] = end1]
           nodes == [s.inode EXCEPT ![ip] = node]
<1>8. r = WithTables(s, s.fp_filp, ends, nodes)
  <2>1. r = [s EXCEPT !.filp[f].filp_pos = pos + done, !.inode[ip].i_size = Max({@, pos + done})]
    BY DEF WriteData, Answer
  <2>2. r = [s EXCEPT !.filp[f].filp_pos = new, !.inode[ip].i_size = new]
    BY <1>1, <1>7, <2>1 DEF Loose
  <2> HIDE DEF new
  <2> QED
    BY <1>1, <2>2 DEF Loose, WithTables
<1> HIDE DEF new, pos, size
<1>9. /\ end1 \in EndType /\ end1.filp_count = s.filp[f].filp_count /\ end1.filp_ino = s.filp[f].filp_ino
      /\ end1.filp_mode = s.filp[f].filp_mode /\ end1.filp_pos = new
  <2>1. s.filp[f] \in EndType
    BY <1>3
  <2> QED
    BY <1>6, <2>1 DEF EndType
<1>10. node \in InodeType /\ node.i_count = s.inode[ip].i_count /\ node.i_size = new
  <2>1. s.inode[ip] \in InodeType
    BY <1>2, <1>3
  <2> QED
    BY <1>6, <2>1 DEF InodeType
<1> HIDE DEF end1, node
<1>11. /\ ends \in [Filp -> EndType] /\ ends[f] = end1
       /\ \A g \in Filp : g # f => ends[g] = s.filp[g]
  BY <1>3, <1>9
<1>12. /\ nodes \in [Pipe -> InodeType] /\ nodes[ip] = node
       /\ \A i \in Pipe : i # ip => nodes[i] = s.inode[i]
  BY <1>2, <1>3, <1>10
<1> HIDE DEF ends, nodes
<1>13. \A g \in Filp : /\ ends[g].filp_count = s.filp[g].filp_count
                       /\ ends[g].filp_ino = s.filp[g].filp_ino
                       /\ ends[g].filp_mode = s.filp[g].filp_mode
  BY <1>9, <1>11
<1>14. \A i \in Pipe : nodes[i].i_count = s.inode[i].i_count
  BY <1>10, <1>12
<1>15. ends \in [Filp -> EndType] /\ nodes \in [Pipe -> InodeType]
  BY <1>11, <1>12
<1>16. MovedAs(s, r) /\ Counted(r) /\ r.filp = ends /\ r.inode = nodes
  BY <1>8, <1>13, <1>14, <1>15, MovedLemma
<1>17. \A g \in Filp : s.filp[g].filp_count # 0 /\ s.filp[g].filp_ino = ip =>
         PositionRight(r.filp[g], r.inode[ip].i_size)
  <2>1. ASSUME NEW g \in Filp, s.filp[g].filp_count # 0, s.filp[g].filp_ino = ip, g # f
        PROVE  PositionRight(r.filp[g], r.inode[ip].i_size)
    <3>1. s.filp[g].filp_mode = "R"
      BY <1>1, <2>1 DEF EndsRight
    <3>2. r.filp[g] = s.filp[g] /\ r.inode[ip].i_size = new
      BY <1>10, <1>11, <1>12, <1>16, <2>1
    <3>3. s.filp[g].filp_pos < size \/ (s.filp[g].filp_pos = 0 /\ size = 0)
      BY <1>1, <2>1, <3>1 DEF PositionsRight, PositionRight, size
    <3>4. s.filp[g].filp_pos \in 0 .. PIPE_SIZE
      BY <1>3 DEF EndType
    <3>5. s.filp[g].filp_pos < new \/ (s.filp[g].filp_pos = 0 /\ new = 0)
      BY <1>5, <1>6, <3>3, <3>4, Sizes0
    <3> QED
      BY <3>1, <3>2, <3>5 DEF PositionRight
  <2>2. PositionRight(r.filp[f], r.inode[ip].i_size)
    BY <1>9, <1>10, <1>11, <1>12, <1>16 DEF PositionRight
  <2> QED
    BY <2>1, <2>2
<1>18. \A i \in Pipe : i # ip => r.inode[i] = s.inode[i]
  BY <1>12, <1>16
<1>19. \A g \in Filp : g # f => r.filp[g] = s.filp[g]
  BY <1>11, <1>16
<1>20. Base(r)
  <2>1. \A g \in Filp : s.filp[g].filp_ino # ip => r.filp[g] = s.filp[g]
    BY <1>19
  <2>2. \A q \in User : Sleeps(s, q) /\ On(s, q, ip, "READ") => r.inode[ip].i_size = 0
    BY DEF NoReaderAsleep
  <2> QED
    BY <1>2, <1>16, <1>17, <1>18, <2>1, <2>2, MovedBase
<1>21. r.inode[ip].i_size = size + done
  BY <1>4, <1>10, <1>12, <1>16 DEF new
<1> QED
  BY <1>16, <1>18, <1>19, <1>20, <1>21 DEF size, WroteAs

TookAs(s, r, answered, f, ip) ==
  /\ Base(r) /\ MovedAs(s, r)
  /\ \A g \in Filp : s.filp[g].filp_ino # ip => r.filp[g] = s.filp[g]
  /\ \A i \in Pipe : i # ip => r.inode[i] = s.inode[i]
  /\ \E n \in 1 .. s.inode[ip].i_size - s.filp[f].filp_pos :
       /\ answered = [call |-> "READ", ip |-> ip, n |-> n]
       /\ r.inode[ip].i_size - r.filp[f].filp_pos = s.inode[ip].i_size - s.filp[f].filp_pos - n

LEMMA ReadDataBase ==
  ASSUME NEW s, Base(s), NEW f \in Filp, NEW ip, NEW nbytes \in Nat, nbytes >= 1,
         s.filp[f].filp_count # 0, s.filp[f].filp_mode = "R", s.filp[f].filp_ino = ip,
         s.filp[f].filp_pos < s.inode[ip].i_size,
         NEW r, r = ReadData(s, f, ip, nbytes).s
  PROVE  TookAs(s, r, ReadData(s, f, ip, nbytes).answer, f, ip)
<1>1. s \in Loose /\ Counted(s) /\ EndsRight(s) /\ PositionsRight(s)
  BY DEF Base
<1>2. ip \in Pipe
  BY <1>1 DEF EndsRight
<1>3. s.filp \in [Filp -> EndType] /\ s.inode \in [Pipe -> InodeType]
  BY <1>1, LooseParts
<1> DEFINE pos == s.filp[f].filp_pos
           size == s.inode[ip].i_size
           n == Min({nbytes, size - pos})
           new == pos + n
<1>4. pos < size
  OBVIOUS
<1>5. pos \in 0 .. PIPE_SIZE /\ size \in 0 .. PIPE_SIZE
  BY <1>2, <1>3 DEF EndType, InodeType
<1>6. n \in 1 .. size - pos /\ new \in 0 .. PIPE_SIZE /\ new <= size /\ new = pos + n
  <2> DEFINE left == size - pos
  <2>1. left \in Nat /\ left >= 1
    BY <1>4, <1>5, Sizes0
  <2> HIDE DEF left
  <2>2. Min({nbytes, left}) = IF nbytes <= left THEN nbytes ELSE left
    BY <2>1, LessOrMore
  <2>3. n = IF nbytes <= left THEN nbytes ELSE left
    BY <2>2 DEF left
  <2> HIDE DEF n
  <2>4. n \in 1 .. left
    BY <2>1, <2>3
  <2> QED
    BY <1>4, <1>5, <2>4, Sizes0 DEF left
<1>7. ReadData(s, f, ip, nbytes) =
        Answer(IF new >= size
               THEN [s EXCEPT !.inode[ip].i_size = 0,
                         !.filp = [g \in Filp |-> IF g = f \/ g \in find_filp(s, ip, "W")
                                                  THEN [@[g] EXCEPT !.filp_pos = 0] ELSE @[g]]]
               ELSE [s EXCEPT !.filp[f].filp_pos = new], "READ", ip, n)
  BY Zenon DEF ReadData
<1>8. /\ r = IF new >= size
             THEN [s EXCEPT !.inode[ip].i_size = 0,
                       !.filp = [g \in Filp |-> IF g = f \/ g \in find_filp(s, ip, "W")
                                                THEN [@[g] EXCEPT !.filp_pos = 0] ELSE @[g]]]
             ELSE [s EXCEPT !.filp[f].filp_pos = new]
      /\ ReadData(s, f, ip, nbytes).answer = [call |-> "READ", ip |-> ip, n |-> n]
  BY <1>7 DEF Answer
<1>s. s.inode[ip].i_size = size /\ s.filp[f].filp_pos = pos
  OBVIOUS
<1> HIDE DEF new, n, pos, size
\* The ends that are set back to 0 when all is read.
<1> DEFINE Back(g) == g = f \/ g \in find_filp(s, ip, "W")
<1>9. \A g \in Filp : s.filp[g] \in EndType
  BY <1>3
<1>10. s.inode[ip] \in InodeType
  BY <1>2, <1>3
<1>11. \A g \in Filp : s.filp[g].filp_count # 0 /\ s.filp[g].filp_ino = ip => Back(g)
  BY <1>1 DEF EndsRight, find_filp
<1>12. CASE new >= size
  <2> DEFINE zero(g) == [s.filp[g] EXCEPT !.filp_pos = 0]
             ends == [g \in Filp |-> IF Back(g) THEN zero(g) ELSE s.filp[g]]
             node == [s.inode[ip] EXCEPT !.i_size = 0]
             nodes == [s.inode EXCEPT ![ip] = node]
  <2>1. r = WithTables(s, s.fp_filp, ends, nodes)
    <3>1. r = [s EXCEPT !.inode[ip].i_size = 0, !.filp = ends]
      BY <1>1, <1>8, <1>12 DEF Loose
    <3> HIDE DEF ends
    <3> QED
      BY <1>1, <3>1 DEF Loose, WithTables
  <2>2. \A g \in Filp : /\ zero(g) \in EndType /\ zero(g).filp_count = s.filp[g].filp_count
                        /\ zero(g).filp_ino = s.filp[g].filp_ino
                        /\ zero(g).filp_mode = s.filp[g].filp_mode /\ zero(g).filp_pos = 0
    BY <1>9, Sizes0 DEF EndType
  <2>3. node \in InodeType /\ node.i_count = s.inode[ip].i_count /\ node.i_size = 0
    BY <1>10, Sizes0 DEF InodeType
  <2> HIDE DEF zero, node
  <2>4. /\ \A g \in Filp : Back(g) => ends[g] = zero(g)
        /\ \A g \in Filp : ~ Back(g) => ends[g] = s.filp[g]
    BY Zenon
  <2>5. ends \in [Filp -> EndType]
    BY <1>9, <2>2
  <2>6. /\ nodes \in [Pipe -> InodeType] /\ nodes[ip] = node
        /\ \A i \in Pipe : i # ip => nodes[i] = s.inode[i]
    BY <1>2, <1>3, <2>3
  <2> HIDE DEF ends, nodes
  <2>7. \A g \in Filp : /\ ends[g].filp_count = s.filp[g].filp_count
                        /\ ends[g].filp_ino = s.filp[g].filp_ino
                        /\ ends[g].filp_mode = s.filp[g].filp_mode
    BY <2>2, <2>4
  <2>8. \A i \in Pipe : nodes[i].i_count = s.inode[i].i_count
    BY <2>3, <2>6
  <2>9. nodes \in [Pipe -> InodeType]
    BY <2>6
  <2>10. MovedAs(s, r) /\ Counted(r) /\ r.filp = ends /\ r.inode = nodes
    BY <2>1, <2>5, <2>7, <2>8, <2>9, MovedLemma
  <2>11. \A i \in Pipe : i # ip => r.inode[i] = s.inode[i]
    BY <2>6, <2>10
  <2>12. \A g \in Filp : s.filp[g].filp_ino # ip => r.filp[g] = s.filp[g]
    BY <2>4, <2>10 DEF find_filp
  <2>13. r.inode[ip].i_size = 0
    BY <2>3, <2>6, <2>10
  <2>14. \A g \in Filp : s.filp[g].filp_count # 0 /\ s.filp[g].filp_ino = ip =>
           PositionRight(r.filp[g], r.inode[ip].i_size)
    BY <1>11, <2>2, <2>4, <2>10, <2>13 DEF PositionRight
  <2>15. Base(r)
    BY <1>2, <2>10, <2>11, <2>12, <2>13, <2>14, MovedBase
  <2>16. r.inode[ip].i_size - r.filp[f].filp_pos = size - pos - n
    <3>1. r.filp[f].filp_pos = 0
      BY <2>2, <2>4, <2>10
    <3>2. size - pos - n = 0
      BY <1>5, <1>6, <1>12
    <3> QED
      BY <2>13, <3>1, <3>2
  <2> QED
    BY <1>6, <1>8, <1>s, <2>10, <2>11, <2>12, <2>15, <2>16 DEF TookAs
<1>13. CASE ~ (new >= size)
  <2> DEFINE end1 == [s.filp[f] EXCEPT !.filp_pos = new]
             ends == [s.filp EXCEPT ![f] = end1]
  <2>1. r = WithTables(s, s.fp_filp, ends, s.inode)
    <3>1. r = [s EXCEPT !.filp[f].filp_pos = new]
      BY <1>8, <1>13
    <3> QED
      BY <1>1, <3>1 DEF Loose, WithTables
  <2>2. /\ end1 \in EndType /\ end1.filp_count = s.filp[f].filp_count
        /\ end1.filp_ino = s.filp[f].filp_ino
        /\ end1.filp_mode = s.filp[f].filp_mode /\ end1.filp_pos = new
    BY <1>6, <1>9 DEF EndType
  <2> HIDE DEF end1
  <2>3. /\ ends \in [Filp -> EndType] /\ ends[f] = end1
        /\ \A g \in Filp : g # f => ends[g] = s.filp[g]
    BY <1>3, <2>2
  <2> HIDE DEF ends
  <2>4. \A g \in Filp : /\ ends[g].filp_count = s.filp[g].filp_count
                        /\ ends[g].filp_ino = s.filp[g].filp_ino
                        /\ ends[g].filp_mode = s.filp[g].filp_mode
    BY <2>2, <2>3
  <2>5. ends \in [Filp -> EndType] /\ \A i \in Pipe : s.inode[i].i_count = s.inode[i].i_count
    BY <2>3
  <2>6. MovedAs(s, r) /\ Counted(r) /\ r.filp = ends /\ r.inode = s.inode
    BY <1>3, <2>1, <2>4, <2>5, MovedLemma
  <2>7. \A i \in Pipe : i # ip => r.inode[i] = s.inode[i]
    BY <2>6
  <2>8. \A g \in Filp : s.filp[g].filp_ino # ip => r.filp[g] = s.filp[g]
    BY <2>3, <2>6
  <2>9. r.inode[ip].i_size = size /\ r.filp[f].filp_pos = new
    BY <1>s, <2>2, <2>3, <2>6
  <2>10. \A g \in Filp : s.filp[g].filp_count # 0 /\ s.filp[g].filp_ino = ip =>
           PositionRight(r.filp[g], r.inode[ip].i_size)
    <3>1. PositionRight(r.filp[f], r.inode[ip].i_size)
      <4>1. r.filp[f].filp_mode = "R"
        BY <2>4, <2>6
      <4>2. new < size
        BY <1>5, <1>6, <1>13
      <4> QED
        BY <2>9, <4>1, <4>2 DEF PositionRight
    <3>2. ASSUME NEW g \in Filp, s.filp[g].filp_count # 0, s.filp[g].filp_ino = ip, g # f
          PROVE  PositionRight(r.filp[g], r.inode[ip].i_size)
      BY <1>1, <2>3, <2>6, <3>2 DEF PositionsRight
    <3> QED
      BY <3>1, <3>2
  <2>11. \A q \in User : Sleeps(s, q) /\ On(s, q, ip, "READ") => r.inode[ip].i_size = 0
    BY <1>2, <1>s, <2>9 DEF Base, ReadersWait
  <2>12. Base(r)
    BY <1>2, <2>6, <2>7, <2>8, <2>10, <2>11, MovedBase
  <2>13. r.inode[ip].i_size - r.filp[f].filp_pos = size - pos - n
    BY <1>5, <1>6, <2>9
  <2> QED
    BY <1>6, <1>8, <1>s, <2>6, <2>7, <2>8, <2>12, <2>13 DEF TookAs
<1> QED
  BY <1>12, <1>13
-----------------------------------------------------------------------------
(* A READ or WRITE that is in order, of a process that is not suspended.   *)

WritersGoOnAt(s, ip) ==
  \A r, w \in User :
    On(s, r, ip, "READ") /\ On(s, w, ip, "WRITE") =>
      /\ ~ (s.fp_revived[r] /\ s.fp_revived[w])
      /\ ~ s.fp_revived[r] =>
           \E v \in User : /\ On(s, v, ip, "WRITE") /\ s.fp_revived[v]
                           /\ \A u \in User : On(s, u, ip, "WRITE") /\ s.fp_revived[u] => u = v

LEMMA GoOnParts ==
  ASSUME NEW s
  PROVE  WritersGoOn(s) <=> \A ip \in Pipe : WritersGoOnAt(s, ip)
  BY DEF WritersGoOn, WritersGoOnAt

LEMMA GoOnSame ==
  ASSUME NEW s, NEW r, NEW ip,
         \A q \in User, c \in {"READ", "WRITE"} : On(r, q, ip, c) <=> On(s, q, ip, c),
         \A q \in User, c \in {"READ", "WRITE"} :
           On(s, q, ip, c) => (r.fp_revived[q] <=> s.fp_revived[q])
  PROVE  WritersGoOnAt(s, ip) => WritersGoOnAt(r, ip)
<1> SUFFICES ASSUME WritersGoOnAt(s, ip),
                    NEW x \in User, NEW w \in User, On(r, x, ip, "READ"), On(r, w, ip, "WRITE")
             PROVE  /\ ~ (r.fp_revived[x] /\ r.fp_revived[w])
                    /\ ~ r.fp_revived[x] =>
                         \E v \in User : /\ On(r, v, ip, "WRITE") /\ r.fp_revived[v]
                                         /\ \A u \in User : On(r, u, ip, "WRITE") /\ r.fp_revived[u] => u = v
  BY DEF WritersGoOnAt
<1>1. On(s, x, ip, "READ") /\ On(s, w, ip, "WRITE")
  OBVIOUS
<1>2. /\ ~ (s.fp_revived[x] /\ s.fp_revived[w])
      /\ ~ s.fp_revived[x] =>
           \E v \in User : /\ On(s, v, ip, "WRITE") /\ s.fp_revived[v]
                           /\ \A u \in User : On(s, u, ip, "WRITE") /\ s.fp_revived[u] => u = v
  BY <1>1 DEF WritersGoOnAt
<1>3. (r.fp_revived[x] <=> s.fp_revived[x]) /\ (r.fp_revived[w] <=> s.fp_revived[w])
  BY <1>1
<1>4. ASSUME ~ r.fp_revived[x]
      PROVE  \E v \in User : /\ On(r, v, ip, "WRITE") /\ r.fp_revived[v]
                             /\ \A u \in User : On(r, u, ip, "WRITE") /\ r.fp_revived[u] => u = v
  <2>1. PICK v \in User : /\ On(s, v, ip, "WRITE") /\ s.fp_revived[v]
                          /\ \A u \in User : On(s, u, ip, "WRITE") /\ s.fp_revived[u] => u = v
    BY <1>2, <1>3, <1>4
  <2>2. On(r, v, ip, "WRITE") /\ r.fp_revived[v]
    BY <2>1
  <2>3. \A u \in User : On(r, u, ip, "WRITE") /\ r.fp_revived[u] => u = v
    BY <2>1
  <2> QED
    BY <2>2, <2>3
<1> QED
  BY <1>2, <1>3, <1>4

\* Who shares tables only hangs where he hung.
LEMMA GoOnShared ==
  ASSUME NEW s, NEW r, Base(s), SharedAs(s, r)
  PROVE  /\ WritersGoOn(s) => WritersGoOn(r)
         /\ OneReader(s) <=> OneReader(r)
<1>1. \A q \in User : \A i, c : On(r, q, i, c) <=> On(s, q, i, c)
  BY SharedSame
<1>2. \A q \in User : r.fp_revived[q] <=> s.fp_revived[q]
  BY DEF SharedAs
<1>3. \A ip \in Pipe : WritersGoOnAt(s, ip) => WritersGoOnAt(r, ip)
  BY <1>1, <1>2, GoOnSame
<1>4. OneReader(s) <=> OneReader(r)
  BY <1>1 DEF OneReader
<1> QED
  BY <1>3, <1>4, GoOnParts

\* p's call is on the end f of the pipe ip.
InOrder(s, p, call, f, ip) ==
  /\ ~ s.fp_suspended[p]
  /\ f = s.fp_filp[p][call.fd] /\ f # NIL_FILP
  /\ s.filp[f].filp_mode = End(call.fs_call) /\ ip = s.filp[f].filp_ino
  /\ call.fs_call = "WRITE" => call.nbytes <= PIPE_SIZE

LEMMA SuspendInOrder ==
  ASSUME NEW s, NEW r, NEW p \in User, NEW call \in Saved, NEW f, NEW ip, Base(s),
         InOrder(s, p, call, f, ip), SuspendedAs(s, r, p, call),
         find_filp(s, ip, Other(End(call.fs_call))) # {},
         call.fs_call = "READ" => s.inode[ip].i_size = 0
  PROVE  Base(r)
<1>1. ip = s.filp[s.fp_filp[p][call.fd]].filp_ino
  BY DEF InOrder
<1>2. /\ ~ s.fp_suspended[p] /\ s.fp_filp[p][call.fd] # NIL_FILP
      /\ s.filp[s.fp_filp[p][call.fd]].filp_mode = End(call.fs_call)
      /\ call.fs_call = "WRITE" => call.nbytes <= PIPE_SIZE
  BY DEF InOrder
<1>3. find_filp(s, s.filp[s.fp_filp[p][call.fd]].filp_ino, Other(End(call.fs_call))) # {}
  BY <1>1
<1>4. call.fs_call = "READ" =>
        \A i \in Pipe : i = s.filp[s.fp_filp[p][call.fd]].filp_ino => s.inode[i].i_size = 0
  BY <1>1
<1> QED
  BY <1>2, <1>3, <1>4, SuspendBase

NobodyRevived(s, ip, fs_call) == \A w \in User : On(s, w, ip, fs_call) => ~ s.fp_revived[w]

\* What holds when a call is made or resumed: no process that waits for what it does goes on already.
CallMayGoOn(s, ip, fs_call) ==
  /\ \A i \in Pipe : i # ip => WritersGoOnAt(s, i)
  /\ fs_call = "READ" => WritersGoOnAt(s, ip) /\ NobodyRevived(s, ip, "WRITE")
  /\ fs_call = "WRITE" =>
       /\ NobodyRevived(s, ip, "READ")
       /\ Hangers(s, ip, "READ") # {} => NobodyRevived(s, ip, "WRITE")

\* A reader finds the pipe empty: it is suspended, and a writer that hangs there goes on.
LEMMA EmptyLemma ==
  ASSUME NEW s, Base(s), NEW p \in User, NEW call \in Saved, NEW f, NEW ip,
         InOrder(s, p, call, f, ip), call.fs_call = "READ",
         find_filp(s, ip, "W") # {}, s.inode[ip].i_size = 0, CallMayGoOn(s, ip, "READ"),
         NEW done, done = ReadEmpty(s, p, call, ip)
  PROVE  /\ Base(done.s) /\ ~ done.reply /\ done.answer = [call |-> "none"]
         /\ done.s.filp = s.filp /\ done.s.inode = s.inode /\ done.s.fp_filp = s.fp_filp
         /\ done.s.panicked = s.panicked
         /\ done.s.fp_suspended = [s.fp_suspended EXCEPT ![p] = TRUE]
         /\ OneReader(done.s) => WritersGoOn(done.s)
<1> DEFINE h == suspend(s, p, call)
           r == release(h, ip, "WRITE", 1, FALSE)
<1>1. SuspendedAs(s, h, p, call)
  BY SuspendLemma DEF Base
<1>2. done = Hung(IF h.susp_count > 0 THEN r ELSE h)
  BY DEF ReadEmpty
<1> HIDE DEF h, r
<1>3. Base(h)
  <2>2. Other(End(call.fs_call)) = "W"
    BY DEF End, Other
  <2> QED
    <3>1. find_filp(s, ip, Other(End(call.fs_call))) # {}
      BY <2>2
    <3>2. call.fs_call = "READ" => s.inode[ip].i_size = 0
      OBVIOUS
    <3> QED
      BY <1>1, <3>1, <3>2, SuspendInOrder, Zenon
<1>4. s \in Loose /\ h \in Loose /\ ~ s.fp_revived[p] /\ s.fp_suspended \in [User -> BOOLEAN]
  BY <1>1, LooseParts DEF Base, CallsRight, SuspendedAs, InOrder
<1>a. /\ \A q \in User : \A i, c : q # p => (On(h, q, i, c) <=> On(s, q, i, c))
      /\ \A i, c : On(h, p, i, c) <=>
           c = call.fs_call /\ i = s.filp[s.fp_filp[p][call.fd]].filp_ino
      /\ \A q \in User : q # p => (Sleeps(h, q) <=> Sleeps(s, q))
      /\ \A q \in User : q # p => h.fp_saved[q] = s.fp_saved[q] /\ FilpOf(h, q) = FilpOf(s, q)
      /\ h.fp_saved[p] = call /\ FilpOf(h, p) = s.fp_filp[p][call.fd] /\ h.fp_suspended[p]
      /\ \A q \in User : q # p => (h.fp_suspended[q] <=> s.fp_suspended[q])
  BY <1>1, <1>4, SuspendSame
<1>c. /\ ~ s.fp_suspended[p] /\ ip = s.filp[s.fp_filp[p][call.fd]].filp_ino
      /\ \A w \in User : On(s, w, ip, "WRITE") => ~ s.fp_revived[w]
      /\ \A i \in Pipe : i # ip => WritersGoOnAt(s, i)
  BY DEF InOrder, CallMayGoOn, NobodyRevived
<1>5. \A q \in User : \A i, c : q # p => (On(h, q, i, c) <=> On(s, q, i, c))
  BY <1>a
<1>6. \A i, c : On(h, p, i, c) <=> c = "READ" /\ i = ip
  BY <1>a, <1>c
<1>7. h.fp_revived = s.fp_revived /\ h.filp = s.filp /\ h.inode = s.inode /\ h.fp_filp = s.fp_filp
      /\ h.panicked = s.panicked /\ h.fp_suspended = [s.fp_suspended EXCEPT ![p] = TRUE]
  BY <1>1 DEF SuspendedAs
<1>8. h.susp_count > 0
  <2> DEFINE S == {q \in User : Sleeps(h, q)}
  <2>1. p \in S
    BY <1>4, <1>7, <1>a DEF Sleeps
  <2>2. IsFiniteSet(S) /\ h.susp_count = Cardinality(S)
    BY <1>3, PartsFinite DEF Base, Agree
  <2> HIDE DEF S
  <2>3. Cardinality(S) # 0 /\ Cardinality(S) \in Nat
    BY <2>1, <2>2, FS_EmptySet, FS_CardinalityType
  <2> QED
    BY <2>2, <2>3
<1>9. done.s = r /\ ~ done.reply /\ done.answer = [call |-> "none"]
  BY <1>2, <1>8 DEF Hung
<1>10. PICK R \in SUBSET Hangers(h, ip, "WRITE") :
         /\ WokenBy(h, r, R)
         /\ Hangers(h, ip, "WRITE") # {} => \E v \in Hangers(h, ip, "WRITE") : R = {v}
  <2>1. CallsRight(h)
    BY <1>3 DEF Base
  <2>2. 1 \in {1, NR_PROCS}
    OBVIOUS
  <2> QED
    BY <1>4, <2>1, <2>2, ReleaseLemma DEF r
<1>11. \A q \in User : q \in Hangers(h, ip, "WRITE") <=> On(s, q, ip, "WRITE") /\ q # p
  BY <1>5, <1>6 DEF Hangers
<1>12. R \in SUBSET User /\ \A q \in R : Sleeps(h, q)
  <2>1. ASSUME NEW q \in R PROVE Sleeps(h, q)
    <3>1. q \in User /\ On(h, q, ip, "WRITE") /\ On(s, q, ip, "WRITE")
      BY <1>11 DEF Hangers
    <3> QED
      BY <1>7, <1>c, <3>1 DEF On, Sleeps
  <2> QED
    BY <2>1 DEF Hangers
<1>13. Base(r)
  BY <1>3, <1>10, <1>12, WakeBase
<1>b. /\ \A q \in User : \A i, c : On(r, q, i, c) <=> On(h, q, i, c)
      /\ \A q \in User : Sleeps(r, q) <=> Sleeps(h, q) /\ q \notin R
      /\ \A i, bits : find_filp(r, i, bits) = find_filp(h, i, bits)
      /\ \A g : Holders(r, g) = Holders(h, g)
      /\ \A i : EndsOf(r, i) = EndsOf(h, i)
  BY <1>10, WakeSame
<1>14. /\ \A q \in User : r.fp_revived[q] <=> q \in R \/ s.fp_revived[q]
       /\ r.filp = s.filp /\ r.inode = s.inode /\ r.fp_filp = s.fp_filp
       /\ r.panicked = s.panicked /\ r.fp_suspended = [s.fp_suspended EXCEPT ![p] = TRUE]
  BY <1>7, <1>10 DEF WokenBy
<1>15. \A q \in User : \A i, c : q # p => (On(r, q, i, c) <=> On(s, q, i, c))
  BY <1>5, <1>b
<1>16. \A i, c : On(r, p, i, c) <=> c = "READ" /\ i = ip
  BY <1>6, <1>b
<1>17. ASSUME OneReader(r) PROVE WritersGoOn(r)
  <2>1. ASSUME NEW i \in Pipe, i # ip PROVE WritersGoOnAt(r, i)
    <3>1. \A c : ~ On(s, p, i, c) /\ ~ On(r, p, i, c)
      BY <1>16, <1>c, <2>1 DEF On
    <3>2. \A q \in User, c \in {"READ", "WRITE"} : On(r, q, i, c) <=> On(s, q, i, c)
      BY <1>15, <3>1
    <3>3. ASSUME NEW q \in User, NEW c, On(s, q, i, c) PROVE q \notin R
      BY <1>11, <2>1, <3>3 DEF On
    <3>4. \A q \in User, c \in {"READ", "WRITE"} :
            On(s, q, i, c) => (r.fp_revived[q] <=> s.fp_revived[q])
      BY <1>14, <3>3
    <3> QED
      BY <1>c, <2>1, <3>2, <3>4, GoOnSame
  <2>2. WritersGoOnAt(r, ip)
    <3> SUFFICES ASSUME NEW x \in User, NEW w \in User, On(r, x, ip, "READ"), On(r, w, ip, "WRITE")
                 PROVE  /\ ~ (r.fp_revived[x] /\ r.fp_revived[w])
                        /\ \E v \in User : /\ On(r, v, ip, "WRITE") /\ r.fp_revived[v]
                             /\ \A u \in User : On(r, u, ip, "WRITE") /\ r.fp_revived[u] => u = v
      BY DEF WritersGoOnAt
    <3>1. ip \in Pipe
      BY <1>13, HangsOnEnd DEF On
    <3>2. x = p
      BY <1>16, <1>17, <3>1 DEF OneReader
    <3>3. p \notin R
      BY <1>11
    <3>4. ~ r.fp_revived[x]
      BY <1>4, <1>14, <3>2, <3>3
    <3>5. w \in Hangers(h, ip, "WRITE")
      BY <1>11, <1>15, <1>16
    <3>6. PICK v \in Hangers(h, ip, "WRITE") : R = {v}
      BY <1>10, <3>5
    <3>7. v \in User /\ v # p /\ On(r, v, ip, "WRITE") /\ r.fp_revived[v]
      BY <1>11, <1>14, <1>15, <3>6 DEF Hangers
    <3>8. ASSUME NEW u \in User, On(r, u, ip, "WRITE"), r.fp_revived[u] PROVE u = v
      <4>1. u # p /\ On(s, u, ip, "WRITE")
        BY <1>15, <1>16, <3>8
      <4> QED
        BY <1>14, <1>c, <3>6, <3>8, <4>1
    <3> QED
      BY <3>4, <3>7, <3>8
  <2> QED
    BY <2>1, <2>2, GoOnParts
<1> QED
  BY <1>9, <1>13, <1>14, <1>17
-----------------------------------------------------------------------------
(* What the tables say of the channels.                                    *)

ChanAt(s, ip) ==
  [len |-> IF find_filp(s, ip, "R") = {} THEN 0
           ELSE s.inode[ip].i_size - s.filp[Min(find_filp(s, ip, "R"))].filp_pos,
   readers |-> Cardinality(find_filp(s, ip, "R")),
   writers |-> Cardinality(find_filp(s, ip, "W"))]

Chan(s) == [ip \in Pipe |-> ChanAt(s, ip)]

LEMMA ChanIs == ChannelOf = Chan(fs)
  BY DEF ChannelOf, Chan, ChanAt

\* Each end has one slot at most.
LEMMA OneSlot ==
  ASSUME NEW s, EndsRight(s), NEW ip, NEW bits, NEW f \in find_filp(s, ip, bits)
  PROVE  find_filp(s, ip, bits) = {f}
  BY DEF EndsRight, find_filp

LEMMA MinOne ==
  ASSUME NEW f \in Nat
  PROVE  Min({f}) = f
<1> DEFINE I == {f}
<1>1. I \in SUBSET Nat /\ I # {} /\ \A g \in I : g = f
  OBVIOUS
<1> HIDE DEF I
<1>2. Min(I) \in I
  BY <1>1, LeastExists
<1> QED
  BY <1>1, <1>2 DEF I

LEMMA ChanReader ==
  ASSUME NEW s, EndsRight(s), NEW ip, NEW f \in find_filp(s, ip, "R")
  PROVE  /\ ChanAt(s, ip).len = s.inode[ip].i_size - s.filp[f].filp_pos
         /\ ChanAt(s, ip).readers = 1
<1>1. find_filp(s, ip, "R") = {f}
  BY OneSlot
<1>2. Min({f}) = f
  BY MinOne, Sizes0 DEF find_filp
<1>3. Cardinality({f}) = 1
  BY FS_Singleton
<1> QED
  BY <1>1, <1>2, <1>3 DEF ChanAt

LEMMA ChanNobody ==
  ASSUME NEW s, NEW ip
  PROVE  /\ find_filp(s, ip, "R") = {} => ChanAt(s, ip).len = 0 /\ ChanAt(s, ip).readers = 0
         /\ find_filp(s, ip, "W") = {} => ChanAt(s, ip).writers = 0
  BY FS_EmptySet DEF ChanAt

LEMMA ChanSame ==
  ASSUME NEW s, NEW r, r.filp = s.filp, r.inode = s.inode
  PROVE  Chan(r) = Chan(s)
<1>1. \A ip, bits : find_filp(r, ip, bits) = find_filp(s, ip, bits)
  BY DEF find_filp
<1>2. \A ip \in Pipe : ChanAt(r, ip) = ChanAt(s, ip)
  BY <1>1 DEF ChanAt
<1> QED
  BY <1>2 DEF Chan

\* Only what is in the pipe ip changes, by n.
LEMMA ChanMoved ==
  ASSUME NEW s, NEW r, Base(s), MovedAs(s, r), NEW ip \in Pipe, NEW f \in find_filp(s, ip, "R"),
         \A i \in Pipe : i # ip => r.inode[i] = s.inode[i],
         \A g \in Filp : s.filp[g].filp_ino # ip => r.filp[g] = s.filp[g],
         NEW len, len = r.inode[ip].i_size - r.filp[f].filp_pos
  PROVE  Chan(r) = [Chan(s) EXCEPT ![ip].len = len]
<1>1. \A i, bits : find_filp(r, i, bits) = find_filp(s, i, bits)
  BY SharedSame DEF MovedAs
<1>2. EndsRight(s) /\ EndsRight(r)
  <2>1. SharedAs(s, r)
    BY DEF MovedAs
  <2> QED
    BY <2>1 DEF Base, EndsRight, SharedAs
<1>3. ASSUME NEW i \in Pipe, i # ip PROVE ChanAt(r, i) = ChanAt(s, i)
  <2>1. ASSUME NEW g \in find_filp(s, i, "R") PROVE ChanAt(r, i).len = ChanAt(s, i).len
    <3>1. g \in find_filp(r, i, "R")
      BY <1>1
    <3>2. r.filp[g] = s.filp[g] /\ r.inode[i] = s.inode[i]
      BY <1>3, <2>1 DEF find_filp
    <3>3. /\ ChanAt(s, i).len = s.inode[i].i_size - s.filp[g].filp_pos
          /\ ChanAt(r, i).len = r.inode[i].i_size - r.filp[g].filp_pos
      BY <1>2, <3>1, ChanReader
    <3> QED
      BY <3>2, <3>3
  <2>2. CASE find_filp(s, i, "R") = {}
    <3>1. ChanAt(s, i).len = 0 /\ ChanAt(r, i).len = 0
      BY <1>1, <2>2, ChanNobody
    <3> QED
      BY <1>1, <3>1 DEF ChanAt
  <2>3. CASE find_filp(s, i, "R") # {}
    BY <1>1, <2>1, <2>3 DEF ChanAt
  <2> QED
    BY <2>2, <2>3
<1>4. ChanAt(r, ip) = [ChanAt(s, ip) EXCEPT !.len = len]
  <2>1. f \in find_filp(r, ip, "R")
    BY <1>1
  <2>2. ChanAt(r, ip).len = len
    BY <1>2, <2>1, ChanReader
  <2>3. /\ ChanAt(r, ip).readers = ChanAt(s, ip).readers /\ ChanAt(r, ip).writers = ChanAt(s, ip).writers
    BY <1>1 DEF ChanAt
  <2> QED
    BY <2>2, <2>3 DEF ChanAt
<1> QED
  BY <1>3, <1>4 DEF Chan

\* What the caller is told fits the channel.
Told(s, r, answered) ==
  \/ answered = [call |-> "none"] /\ Chan(r) = Chan(s)
  \/ \E ip \in Pipe : /\ answered = [call |-> "READ", ip |-> ip, n |-> 0]
                      /\ Chan(s)[ip].len = 0 /\ Chan(s)[ip].writers = 0 /\ Chan(r) = Chan(s)
  \/ \E ip \in Pipe : /\ answered = [call |-> "WRITE", ip |-> ip, n |-> EPIPE]
                      /\ Chan(s)[ip].readers = 0 /\ Chan(r) = Chan(s)
  \/ \E ip \in Pipe, n \in 0 .. PIPE_SIZE :
       /\ answered = [call |-> "READ", ip |-> ip, n |-> n]
       /\ n \in 1 .. Chan(s)[ip].len
       /\ Chan(r) = [Chan(s) EXCEPT ![ip].len = Chan(s)[ip].len - n]
  \/ \E ip \in Pipe, n \in 0 .. PIPE_SIZE :
       /\ answered = [call |-> "WRITE", ip |-> ip, n |-> n] \/ answered = [call |-> "WRITE", ip |-> ip, n |-> ENOSPC]
       /\ Chan(s)[ip].readers > 0 /\ Chan(s)[ip].len + n <= PIPE_SIZE
       /\ Chan(r) = [Chan(s) EXCEPT ![ip].len = Chan(s)[ip].len + n]
-----------------------------------------------------------------------------
(* read_write() for a call that is in order.                               *)

WentWell(s, p, done) ==
  /\ Base(done.s) /\ done.s.fp_filp = s.fp_filp /\ done.s.panicked = s.panicked
  /\ done.reply \in BOOLEAN
  /\ \A q \in User : done.s.fp_suspended[q] <=> s.fp_suspended[q] \/ (q = p /\ ~ done.reply)
  /\ OneReader(done.s) => WritersGoOn(done.s)
  /\ Told(s, done.s, done.answer)

LEMMA InOrderLemma ==
  ASSUME NEW s, Base(s), NEW p \in User, NEW call \in Saved, NEW f, NEW ip,
         InOrder(s, p, call, f, ip)
  PROVE  /\ f \in Filp /\ s.filp[f].filp_count # 0 /\ s.filp[f].filp_ino = ip /\ ip \in Pipe
         /\ s.filp[f].filp_mode = End(call.fs_call)
         /\ f \in find_filp(s, ip, End(call.fs_call))
         /\ PositionRight(s.filp[f], s.inode[ip].i_size)
         /\ s.filp[f].filp_pos \in 0 .. PIPE_SIZE /\ s.inode[ip].i_size \in 0 .. PIPE_SIZE
         /\ call.nbytes \in Nat /\ call.nbytes >= 1 /\ call.fd \in Fd
         /\ call.fs_call \in {"READ", "WRITE"}
<1>1. s \in Loose /\ Counted(s) /\ EndsRight(s) /\ PositionsRight(s)
  BY DEF Base
<1>2. call.nbytes \in Nat /\ call.nbytes >= 1 /\ call.fd \in Fd /\ call.fs_call \in {"READ", "WRITE"}
  BY Sizes0 DEF Saved, Sizes
<1>3. /\ f = s.fp_filp[p][call.fd] /\ f # NIL_FILP
      /\ s.filp[f].filp_mode = End(call.fs_call) /\ ip = s.filp[f].filp_ino
  BY DEF InOrder
<1>4. f \in Filp /\ s.filp[f].filp_count >= 1
  BY <1>1, <1>2, <1>3, HeldInUse
<1>5. s.filp[f] \in EndType
  BY <1>1, <1>4, LooseParts
<1>6. s.filp[f].filp_count # 0
  BY <1>4, <1>5 DEF EndType
<1>7. ip \in Pipe
  BY <1>1, <1>3, <1>4, <1>6 DEF EndsRight
<1>8. s.inode[ip] \in InodeType
  BY <1>1, <1>7, LooseParts
<1>9. f \in find_filp(s, ip, End(call.fs_call))
  BY <1>3, <1>4, <1>6 DEF find_filp
<1>10. PositionRight(s.filp[f], s.inode[ip].i_size)
  BY <1>1, <1>3, <1>4, <1>6 DEF PositionsRight
<1>11. s.filp[f].filp_pos \in 0 .. PIPE_SIZE /\ s.inode[ip].i_size \in 0 .. PIPE_SIZE
  BY <1>5, <1>8 DEF EndType, InodeType
<1> QED
  BY <1>2, <1>3, <1>4, <1>6, <1>7, <1>9, <1>10, <1>11

\* Who waits to write finds no reader that waits.
LEMMA HungLemma ==
  ASSUME NEW s, Base(s), NEW p \in User, NEW call \in Saved, NEW f, NEW ip,
         InOrder(s, p, call, f, ip), call.fs_call = "WRITE",
         find_filp(s, ip, "R") # {}, s.filp[f].filp_pos + call.nbytes > PIPE_SIZE,
         CallMayGoOn(s, ip, "WRITE"), NEW done, done = Hung(suspend(s, p, call))
  PROVE  WentWell(s, p, done)
<1> DEFINE h == suspend(s, p, call)
<1>1. SuspendedAs(s, h, p, call)
  BY SuspendLemma DEF Base
<1>2. done.s = h /\ ~ done.reply /\ done.reply \in BOOLEAN /\ done.answer = [call |-> "none"]
  BY DEF Hung
<1> HIDE DEF h
<1>3. Base(h)
  <2>1. find_filp(s, ip, Other(End(call.fs_call))) # {}
    BY DEF Other, End
  <2>2. call.fs_call = "READ" => s.inode[ip].i_size = 0
    OBVIOUS
  <2> QED
    BY <1>1, <2>1, <2>2, SuspendInOrder
<1>4. /\ f \in Filp /\ s.filp[f].filp_count # 0 /\ s.filp[f].filp_ino = ip /\ ip \in Pipe
      /\ s.filp[f].filp_mode = End(call.fs_call)
      /\ f \in find_filp(s, ip, End(call.fs_call))
      /\ PositionRight(s.filp[f], s.inode[ip].i_size)
      /\ s.filp[f].filp_pos \in 0 .. PIPE_SIZE /\ s.inode[ip].i_size \in 0 .. PIPE_SIZE
      /\ call.nbytes \in Nat /\ call.nbytes >= 1 /\ call.fd \in Fd
      /\ call.fs_call \in {"READ", "WRITE"}
  BY InOrderLemma
<1>5. s.inode[ip].i_size # 0
  <2>1. call.nbytes <= PIPE_SIZE
    BY DEF InOrder
  <2>2. s.filp[f].filp_pos > 0
    BY <1>4, <2>1, Sizes0
  <2>3. s.filp[f].filp_pos = s.inode[ip].i_size
    BY <1>4 DEF PositionRight, End
  <2> QED
    BY <1>4, <2>2, <2>3
<1>6. \A q \in User : ~ On(s, q, ip, "READ")
  <2> SUFFICES ASSUME NEW q \in User, On(s, q, ip, "READ") PROVE FALSE
    OBVIOUS
  <2>1. ~ s.fp_revived[q]
    BY DEF CallMayGoOn, NobodyRevived
  <2>2. Sleeps(s, q)
    BY <2>1 DEF Sleeps, On
  <2> QED
    BY <1>4, <1>5, <2>2 DEF Base, ReadersWait
<1>7. s \in Loose /\ h \in Loose /\ ~ s.fp_suspended[p] /\ s.fp_suspended \in [User -> BOOLEAN]
  BY <1>1, LooseParts DEF Base, SuspendedAs, InOrder
<1>a. /\ \A q \in User : \A i, c : q # p => (On(h, q, i, c) <=> On(s, q, i, c))
      /\ \A i, c : On(h, p, i, c) <=>
           c = call.fs_call /\ i = s.filp[s.fp_filp[p][call.fd]].filp_ino
      /\ \A q \in User : q # p => (Sleeps(h, q) <=> Sleeps(s, q))
      /\ \A q \in User : q # p => h.fp_saved[q] = s.fp_saved[q] /\ FilpOf(h, q) = FilpOf(s, q)
      /\ h.fp_saved[p] = call /\ FilpOf(h, p) = s.fp_filp[p][call.fd] /\ h.fp_suspended[p]
      /\ \A q \in User : q # p => (h.fp_suspended[q] <=> s.fp_suspended[q])
  BY <1>1, <1>7, SuspendSame
<1>8. /\ \A q \in User : \A i, c : q # p => (On(h, q, i, c) <=> On(s, q, i, c))
      /\ \A i, c : On(h, p, i, c) <=> c = "WRITE" /\ i = ip
  BY <1>a DEF InOrder
<1>9. h.fp_revived = s.fp_revived /\ h.filp = s.filp /\ h.inode = s.inode /\ h.fp_filp = s.fp_filp
      /\ h.panicked = s.panicked
  BY <1>1 DEF SuspendedAs
<1>10. WritersGoOn(h)
  <2>1. ASSUME NEW i \in Pipe, i # ip PROVE WritersGoOnAt(h, i)
    <3>1. \A c : ~ On(s, p, i, c) /\ ~ On(h, p, i, c)
      BY <1>7, <1>8, <2>1 DEF On
    <3>2. \A q \in User, c \in {"READ", "WRITE"} : On(h, q, i, c) <=> On(s, q, i, c)
      BY <1>8, <3>1
    <3>3. WritersGoOnAt(s, i)
      BY <2>1 DEF CallMayGoOn
    <3>4. \A q \in User, c \in {"READ", "WRITE"} :
            On(s, q, i, c) => (h.fp_revived[q] <=> s.fp_revived[q])
      BY <1>9
    <3> QED
      BY <3>2, <3>3, <3>4, GoOnSame
  <2>2. \A q \in User : ~ On(h, q, ip, "READ")
    BY <1>6, <1>8
  <2> QED
    BY <2>1, <2>2, GoOnParts DEF WritersGoOnAt
<1>11. \A q \in User : h.fp_suspended[q] <=> s.fp_suspended[q] \/ (q = p /\ ~ done.reply)
  BY <1>2, <1>a
<1>12. Chan(h) = Chan(s)
  BY <1>9, ChanSame
<1> QED
  BY <1>2, <1>3, <1>9, <1>10, <1>11, <1>12 DEF WentWell, Told

\* A reader that waits goes on before the data is written; it is the only one.
LEMMA WriteLemma ==
  ASSUME NEW s, Base(s), OneReader(s), NEW p \in User, NEW call \in Saved, NEW f, NEW ip,
         InOrder(s, p, call, f, ip), call.fs_call = "WRITE",
         find_filp(s, ip, "R") # {}, ~ (s.filp[f].filp_pos + call.nbytes > PIPE_SIZE),
         CallMayGoOn(s, ip, "WRITE"), NEW portion \in 0 .. call.nbytes,
         NEW done, done = WriteData(IF s.filp[f].filp_pos = 0 THEN release(s, ip, "READ", 1, FALSE) ELSE s,
                                    f, ip, call.nbytes, portion)
  PROVE  WentWell(s, p, done)
<1>1. /\ f \in Filp /\ s.filp[f].filp_count # 0 /\ s.filp[f].filp_ino = ip /\ ip \in Pipe
      /\ s.filp[f].filp_mode = End(call.fs_call)
      /\ f \in find_filp(s, ip, End(call.fs_call))
      /\ PositionRight(s.filp[f], s.inode[ip].i_size)
      /\ s.filp[f].filp_pos \in 0 .. PIPE_SIZE /\ s.inode[ip].i_size \in 0 .. PIPE_SIZE
      /\ call.nbytes \in Nat /\ call.nbytes >= 1 /\ call.fd \in Fd
      /\ call.fs_call \in {"READ", "WRITE"}
  BY InOrderLemma
<1>2. s.filp[f].filp_mode = "W" /\ s.filp[f].filp_pos = s.inode[ip].i_size
  BY <1>1 DEF End, PositionRight
<1>3. portion \in Nat /\ s.filp[f].filp_pos + portion <= PIPE_SIZE /\ portion \in 0 .. PIPE_SIZE
  BY <1>1, Sizes0
<1>4. s \in Loose /\ CallsRight(s) /\ EndsRight(s)
  BY DEF Base
\* After the release.
<1> DEFINE w == IF s.filp[f].filp_pos = 0 THEN release(s, ip, "READ", 1, FALSE) ELSE s
<1>5. /\ Base(w) /\ \A q \in User : ~ (Sleeps(w, q) /\ On(w, q, ip, "READ"))
      /\ w.filp = s.filp /\ w.inode = s.inode /\ w.fp_filp = s.fp_filp
      /\ w.fp_suspended = s.fp_suspended /\ w.panicked = s.panicked
      /\ WritersGoOn(w)
  <2>1. CASE s.filp[f].filp_pos = 0
    <3> DEFINE H == Hangers(s, ip, "READ")
    <3>0. w = release(s, ip, "READ", 1, FALSE)
      BY <2>1
    <3> HIDE DEF w
    <3>1. PICK R \in SUBSET H : /\ WokenBy(s, w, R)
                                /\ H # {} => \E v \in H : R = {v}
      <4>1. 1 \in {1, NR_PROCS}
        OBVIOUS
      <4> QED
        BY <1>4, <3>0, <4>1, ReleaseLemma
    <3>2. R = H
      <4>1. \A x, y \in H : x = y
        BY <1>1 DEF Hangers, OneReader
      <4> QED
        BY <3>1, <4>1
    <3>3. \A q \in H : q \in User /\ On(s, q, ip, "READ") /\ Sleeps(s, q)
      BY DEF Hangers, CallMayGoOn, NobodyRevived, Sleeps, On
    <3>h. \A q \in User : q \in R <=> On(s, q, ip, "READ")
      BY <3>2 DEF Hangers
    <3> HIDE DEF H
    <3>4. R \in SUBSET User /\ \A q \in R : Sleeps(s, q)
      BY <3>2, <3>3
    <3>5. Base(w)
      BY <3>1, <3>4, WakeBase
    <3>a. /\ \A q \in User : \A i, c : On(w, q, i, c) <=> On(s, q, i, c)
          /\ \A q \in User : Sleeps(w, q) <=> Sleeps(s, q) /\ q \notin R
          /\ \A i, bits : find_filp(w, i, bits) = find_filp(s, i, bits)
          /\ \A g : Holders(w, g) = Holders(s, g)
          /\ \A i : EndsOf(w, i) = EndsOf(s, i)
      BY <3>1, WakeSame
    <3>6. \A q \in User : ~ (Sleeps(w, q) /\ On(w, q, ip, "READ"))
      BY <3>a, <3>h
    <3>7. /\ w.filp = s.filp /\ w.inode = s.inode /\ w.fp_filp = s.fp_filp
          /\ w.fp_suspended = s.fp_suspended /\ w.panicked = s.panicked
          /\ \A q \in User : w.fp_revived[q] <=> q \in R \/ s.fp_revived[q]
      BY <3>1 DEF WokenBy
    <3>8. ASSUME NEW i \in Pipe, i # ip PROVE WritersGoOnAt(w, i)
      <4>1. \A q \in User, c \in {"READ", "WRITE"} : On(w, q, i, c) <=> On(s, q, i, c)
        BY <3>a
      <4>2. ASSUME NEW q \in User, NEW c, On(s, q, i, c) PROVE q \notin R
        BY <3>8, <3>h, <4>2 DEF On
      <4>3. \A q \in User, c \in {"READ", "WRITE"} :
              On(s, q, i, c) => (w.fp_revived[q] <=> s.fp_revived[q])
        BY <3>7, <4>2
      <4>4. WritersGoOnAt(s, i)
        BY <3>8 DEF CallMayGoOn
      <4> QED
        BY <4>1, <4>3, <4>4, GoOnSame
    <3>9. WritersGoOnAt(w, ip)
      <4> SUFFICES ASSUME NEW x \in User, NEW y \in User, On(w, x, ip, "READ"), On(w, y, ip, "WRITE")
                   PROVE  w.fp_revived[x] /\ ~ w.fp_revived[y]
        BY DEF WritersGoOnAt
      <4>1. On(s, x, ip, "READ") /\ On(s, y, ip, "WRITE")
        BY <3>a
      <4>2. w.fp_revived[x]
        BY <3>7, <3>h, <4>1
      <4>3. y \notin R
        BY <3>h, <4>1 DEF On
      <4>4. Hangers(s, ip, "READ") # {}
        BY <4>1 DEF Hangers
      <4>5. ~ s.fp_revived[y]
        BY <4>1, <4>4 DEF CallMayGoOn, NobodyRevived
      <4> QED
        BY <3>7, <4>2, <4>3, <4>5
    <3> QED
      BY <3>5, <3>6, <3>7, <3>8, <3>9, GoOnParts
  <2>2. CASE s.filp[f].filp_pos # 0
    <3>1. w = s
      BY <2>2
    <3>2. s.inode[ip].i_size # 0
      BY <1>2, <2>2
    <3>3. \A q \in User : ~ On(s, q, ip, "READ")
      <4> SUFFICES ASSUME NEW q \in User, On(s, q, ip, "READ") PROVE FALSE
        OBVIOUS
      <4>1. ~ s.fp_revived[q]
        BY DEF CallMayGoOn, NobodyRevived
      <4>2. Sleeps(s, q)
        BY <4>1 DEF Sleeps, On
      <4> QED
        BY <1>1, <3>2, <4>2 DEF Base, ReadersWait
    <3>4. WritersGoOn(s)
      BY <3>3, GoOnParts DEF CallMayGoOn, WritersGoOnAt
    <3> QED
      BY <3>1, <3>3, <3>4
  <2> QED
    BY <2>1, <2>2
<1>6. done = WriteData(w, f, ip, call.nbytes, portion)
  OBVIOUS
<1> HIDE DEF w
<1> DEFINE r == done.s
<1>7. /\ Base(r) /\ MovedAs(w, r)
      /\ \A g \in Filp : g # f => r.filp[g] = w.filp[g]
      /\ \A i \in Pipe : i # ip => r.inode[i] = w.inode[i]
      /\ r.inode[ip].i_size = w.inode[ip].i_size + portion
  <2>1. r = WriteData(w, f, ip, call.nbytes, portion).s
    BY <1>6
  <2>2. /\ w.filp[f].filp_count # 0 /\ w.filp[f].filp_mode = "W" /\ w.filp[f].filp_ino = ip
        /\ w.filp[f].filp_pos + portion <= PIPE_SIZE
    BY <1>1, <1>2, <1>3, <1>5
  <2>3. Base(w) /\ NoReaderAsleep(w, ip)
    BY <1>5 DEF NoReaderAsleep
  <2>4. f \in Filp /\ portion \in Nat
    BY <1>1, <1>3
  <2> HIDE DEF r
  <2>5. WroteAs(w, r, f, ip, portion)
    BY <2>1, <2>2, <2>3, <2>4, WriteDataBase
  <2> QED
    BY <2>5 DEF WroteAs
<1>8. /\ done.reply = TRUE
      /\ done.answer = [call |-> "WRITE", ip |-> ip,
                        n |-> IF portion = call.nbytes THEN portion ELSE ENOSPC]
  BY <1>6 DEF WriteData, Answer
<1> HIDE DEF r
<1>9. SharedAs(w, r) /\ r.fp_filp = w.fp_filp /\ r.fp_suspended = w.fp_suspended /\ r.panicked = w.panicked
  BY <1>7 DEF MovedAs, SharedAs
<1>10. WritersGoOn(r)
  BY <1>5, <1>9, GoOnShared
<1>11. Told(s, r, done.answer)
  <2>1. PICK g : g \in find_filp(s, ip, "R")
    OBVIOUS
  <2>2. g \in Filp /\ g # f /\ s.filp[g].filp_count # 0 /\ s.filp[g].filp_ino = ip
    BY <1>2, <2>1 DEF find_filp
  <2>3. g \in find_filp(w, ip, "R")
    BY <1>5, <2>1 DEF find_filp
  <2> DEFINE len == r.inode[ip].i_size - r.filp[g].filp_pos
             was == s.inode[ip].i_size - s.filp[g].filp_pos
  <2>4. \A x \in Filp : w.filp[x].filp_ino # ip => r.filp[x] = w.filp[x]
    BY <1>1, <1>5, <1>7
  <2>5. len = r.inode[ip].i_size - r.filp[g].filp_pos
    OBVIOUS
  <2>6. \A i \in Pipe : i # ip => r.inode[i] = w.inode[i]
    BY <1>7
  <2>7. Chan(r) = [Chan(w) EXCEPT ![ip].len = len]
    <3> HIDE DEF len
    <3> QED
      BY <1>1, <1>5, <1>7, <2>3, <2>4, <2>5, <2>6, ChanMoved
  <2>8. Chan(w) = Chan(s)
    BY <1>5, ChanSame
  <2>9. Chan(s)[ip].len = was /\ Chan(s)[ip].readers = 1
    BY <1>1, <1>4, <2>1, ChanReader DEF Chan
  <2>10. s.filp[g].filp_pos \in 0 .. PIPE_SIZE
    <3>1. s.filp[g] \in EndType
      BY <1>4, <2>2, LooseParts
    <3> QED
      BY <3>1 DEF EndType
  <2>11. len = was + portion /\ was + portion <= PIPE_SIZE
    <3>1. r.filp[g] = s.filp[g] /\ r.inode[ip].i_size = s.inode[ip].i_size + portion
      BY <1>5, <1>7, <2>2
    <3> QED
      BY <1>1, <1>2, <1>3, <2>10, <3>1, Sizes0
  <2> HIDE DEF len, was
  <2>12. \/ done.answer = [call |-> "WRITE", ip |-> ip, n |-> portion]
         \/ done.answer = [call |-> "WRITE", ip |-> ip, n |-> ENOSPC]
    BY <1>8
  <2>13. /\ Chan(s)[ip].readers > 0 /\ Chan(s)[ip].len + portion <= PIPE_SIZE
         /\ Chan(r) = [Chan(s) EXCEPT ![ip].len = Chan(s)[ip].len + portion]
    BY <2>7, <2>8, <2>9, <2>11
  <2> QED
    BY <1>1, <1>3, <2>12, <2>13 DEF Told
<1>12. \A q \in User : r.fp_suspended[q] <=> s.fp_suspended[q] \/ (q = p /\ ~ done.reply)
  BY <1>5, <1>8, <1>9
<1>13. r.fp_filp = s.fp_filp /\ r.panicked = s.panicked /\ done.reply \in BOOLEAN
  BY <1>5, <1>8, <1>9
<1> QED
  BY <1>7, <1>10, <1>11, <1>12, <1>13 DEF WentWell, r

LEMMA ReadLemma ==
  ASSUME NEW s, Base(s), NEW p \in User, NEW call \in Saved, NEW f, NEW ip,
         InOrder(s, p, call, f, ip), call.fs_call = "READ",
         ~ (s.filp[f].filp_pos >= s.inode[ip].i_size), CallMayGoOn(s, ip, "READ"),
         NEW done, done = ReadData(s, f, ip, call.nbytes)
  PROVE  WentWell(s, p, done)
<1>1. /\ f \in Filp /\ s.filp[f].filp_count # 0 /\ s.filp[f].filp_ino = ip /\ ip \in Pipe
      /\ s.filp[f].filp_mode = End(call.fs_call)
      /\ f \in find_filp(s, ip, End(call.fs_call))
      /\ PositionRight(s.filp[f], s.inode[ip].i_size)
      /\ s.filp[f].filp_pos \in 0 .. PIPE_SIZE /\ s.inode[ip].i_size \in 0 .. PIPE_SIZE
      /\ call.nbytes \in Nat /\ call.nbytes >= 1 /\ call.fd \in Fd
      /\ call.fs_call \in {"READ", "WRITE"}
  BY InOrderLemma
<1> DEFINE r == done.s
<1>2. TookAs(s, r, done.answer, f, ip)
  <2>1. /\ f \in Filp /\ call.nbytes \in Nat /\ call.nbytes >= 1
        /\ s.filp[f].filp_count # 0 /\ s.filp[f].filp_mode = "R" /\ s.filp[f].filp_ino = ip
        /\ s.filp[f].filp_pos < s.inode[ip].i_size
    BY <1>1 DEF End
  <2>2. r = ReadData(s, f, ip, call.nbytes).s /\ done.answer = ReadData(s, f, ip, call.nbytes).answer
    OBVIOUS
  <2> HIDE DEF r
  <2>3. TookAs(s, r, ReadData(s, f, ip, call.nbytes).answer, f, ip)
    BY <2>1, <2>2, ReadDataBase
  <2> QED
    BY <2>2, <2>3
<1>3. done.reply = TRUE
  BY DEF ReadData, Answer
<1> HIDE DEF r
<1>4. /\ Base(r) /\ MovedAs(s, r)
      /\ \A g \in Filp : s.filp[g].filp_ino # ip => r.filp[g] = s.filp[g]
      /\ \A i \in Pipe : i # ip => r.inode[i] = s.inode[i]
  BY <1>2 DEF TookAs
<1>5. PICK n \in 1 .. s.inode[ip].i_size - s.filp[f].filp_pos :
        /\ done.answer = [call |-> "READ", ip |-> ip, n |-> n]
        /\ r.inode[ip].i_size - r.filp[f].filp_pos = s.inode[ip].i_size - s.filp[f].filp_pos - n
  BY <1>2 DEF TookAs
<1>6. SharedAs(s, r) /\ r.fp_filp = s.fp_filp /\ r.fp_suspended = s.fp_suspended /\ r.panicked = s.panicked
  BY <1>4 DEF MovedAs, SharedAs
<1>7. WritersGoOn(r)
  <2>1. WritersGoOn(s)
    BY GoOnParts DEF CallMayGoOn
  <2> QED
    BY <1>6, <2>1, GoOnShared
<1>8. f \in find_filp(s, ip, "R")
  BY <1>1 DEF End
<1>9. Told(s, r, done.answer)
  <2> DEFINE len == r.inode[ip].i_size - r.filp[f].filp_pos
             was == s.inode[ip].i_size - s.filp[f].filp_pos
  <2>1. len = r.inode[ip].i_size - r.filp[f].filp_pos
    OBVIOUS
  <2>2. len = was - n /\ n \in 1 .. was /\ n \in 0 .. PIPE_SIZE
    BY <1>1, <1>5, Sizes0
  <2>3. EndsRight(s)
    BY DEF Base
  <2>4. Chan(s)[ip].len = was
    BY <1>1, <1>8, <2>3, ChanReader DEF Chan
  <2> HIDE DEF len, was
  <2>5. Chan(r) = [Chan(s) EXCEPT ![ip].len = len]
    BY <1>1, <1>4, <1>8, <2>1, ChanMoved
  <2>6. /\ n \in 1 .. Chan(s)[ip].len
        /\ Chan(r) = [Chan(s) EXCEPT ![ip].len = Chan(s)[ip].len - n]
    BY <2>2, <2>4, <2>5
  <2> QED
    BY <1>1, <1>5, <2>2, <2>6 DEF Told
<1>10. \A q \in User : r.fp_suspended[q] <=> s.fp_suspended[q] \/ (q = p /\ ~ done.reply)
  BY <1>3, <1>6
<1> QED
  BY <1>3, <1>4, <1>6, <1>7, <1>9, <1>10 DEF WentWell, r

\* An answer that leaves the tables alone.
LEMMA AnsweredLemma ==
  ASSUME NEW s, Base(s), WritersGoOn(s), NEW p \in User, NEW done, done.s = s, done.reply = TRUE,
         Told(s, s, done.answer)
  PROVE  WentWell(s, p, done)
  BY DEF WentWell

LEMMA CallLemma ==
  ASSUME NEW s, Base(s), OneReader(s), NEW p \in User, NEW call \in Saved, NEW f, NEW ip,
         InOrder(s, p, call, f, ip), CallMayGoOn(s, ip, call.fs_call), NEW portion \in Portions(call)
  PROVE  WentWell(s, p, read_write(s, p, call, portion))
<1>1. /\ f \in Filp /\ s.filp[f].filp_count # 0 /\ s.filp[f].filp_ino = ip /\ ip \in Pipe
      /\ s.filp[f].filp_mode = End(call.fs_call)
      /\ f \in find_filp(s, ip, End(call.fs_call))
      /\ PositionRight(s.filp[f], s.inode[ip].i_size)
      /\ s.filp[f].filp_pos \in 0 .. PIPE_SIZE /\ s.inode[ip].i_size \in 0 .. PIPE_SIZE
      /\ call.nbytes \in Nat /\ call.nbytes >= 1 /\ call.fd \in Fd
      /\ call.fs_call \in {"READ", "WRITE"}
  BY InOrderLemma
<1>2. /\ f = s.fp_filp[p][call.fd] /\ ip = s.filp[f].filp_ino /\ f # NIL_FILP
      /\ call.fs_call = "WRITE" => call.nbytes <= PIPE_SIZE
  BY DEF InOrder
<1>3. Chan(s)[ip] = ChanAt(s, ip)
  BY <1>1 DEF Chan
<1>4. CASE call.fs_call = "READ"
  <2> DEFINE done == read_write(s, p, call, portion)
  <2>1. done = IF s.filp[f].filp_pos >= s.inode[ip].i_size THEN ReadEmpty(s, p, call, ip)
               ELSE ReadData(s, f, ip, call.nbytes)
    <3>1. s.filp[f].filp_mode = "R"
      BY <1>1, <1>4 DEF End
    <3> QED
      BY <1>2, <1>4, <3>1 DEF read_write, do_read
  <2>2. CallMayGoOn(s, ip, "READ")
    BY <1>4
  <2> HIDE DEF done
  <2>3. CASE ~ (s.filp[f].filp_pos >= s.inode[ip].i_size)
    BY <1>4, <2>1, <2>2, <2>3, ReadLemma DEF done
  <2>4. CASE s.filp[f].filp_pos >= s.inode[ip].i_size /\ find_filp(s, ip, "W") = {}
    <3>1. done.s = s /\ done.reply = TRUE /\ done.answer = [call |-> "READ", ip |-> ip, n |-> 0]
      BY <2>1, <2>4 DEF ReadEmpty, Answer
    <3>2. WritersGoOn(s)
      BY <2>2, <1>4, GoOnParts DEF CallMayGoOn
    <3>3. Chan(s)[ip].writers = 0
      BY <1>3, <2>4, ChanNobody
    <3>4. Chan(s)[ip].len = 0
      <4>1. Chan(s)[ip].len = s.inode[ip].i_size - s.filp[f].filp_pos
        BY <1>1, <1>3, <1>4, ChanReader DEF Base, End
      <4>2. s.inode[ip].i_size = s.filp[f].filp_pos
        BY <1>1, <1>4, <2>4 DEF PositionRight, End
      <4> QED
        BY <1>1, <4>1, <4>2
    <3>5. Told(s, s, done.answer)
      BY <1>1, <3>1, <3>3, <3>4 DEF Told
    <3> QED
      BY <3>1, <3>2, <3>5, AnsweredLemma DEF done
  <2>5. CASE s.filp[f].filp_pos >= s.inode[ip].i_size /\ find_filp(s, ip, "W") # {}
    <3>1. done = ReadEmpty(s, p, call, ip)
      BY <2>1, <2>5
    <3>2. s.inode[ip].i_size = 0
      BY <1>1, <1>4, <2>5 DEF PositionRight, End
    <3>3. /\ Base(done.s) /\ ~ done.reply /\ done.answer = [call |-> "none"]
          /\ done.s.filp = s.filp /\ done.s.inode = s.inode /\ done.s.fp_filp = s.fp_filp
          /\ done.s.panicked = s.panicked
          /\ done.s.fp_suspended = [s.fp_suspended EXCEPT ![p] = TRUE]
          /\ OneReader(done.s) => WritersGoOn(done.s)
      BY <1>4, <2>2, <2>5, <3>1, <3>2, EmptyLemma
    <3>4. Chan(done.s) = Chan(s)
      BY <3>3, ChanSame
    <3>5. done.reply = FALSE
      BY <1>4, <2>5, <3>1, Zenon DEF ReadEmpty, Hung
    <3>6. \A q \in User : done.s.fp_suspended[q] <=> s.fp_suspended[q] \/ (q = p /\ ~ done.reply)
      <4>1. s.fp_suspended \in [User -> BOOLEAN]
        BY LooseParts DEF Base
      <4> QED
        BY <3>3, <4>1
    <3>7. WentWell(s, p, done)
      BY <3>3, <3>4, <3>5, <3>6 DEF WentWell, Told
    <3> QED
      BY <3>7 DEF done
  <2> QED
    BY <2>3, <2>4, <2>5
<1>5. CASE call.fs_call = "WRITE"
  <2> DEFINE done == read_write(s, p, call, portion)
             w == IF s.filp[f].filp_pos = 0 THEN release(s, ip, "READ", 1, FALSE) ELSE s
  <2>0. s.filp[f].filp_mode = "W"
    BY <1>1, <1>5 DEF End
  <2>a. ~ (call.nbytes > PIPE_SIZE)
    <3>1. call.nbytes <= PIPE_SIZE
      BY <1>2, <1>5
    <3>2. call.nbytes \in Nat /\ PIPE_SIZE \in Nat
      BY <1>1, Sizes0
    <3> QED
      BY <3>1, <3>2
  <2>1. done = IF find_filp(s, ip, "R") = {} THEN Answer(s, "WRITE", ip, EPIPE)
               ELSE IF s.filp[f].filp_pos + call.nbytes > PIPE_SIZE THEN Hung(suspend(s, p, call))
               ELSE WriteData(w, f, ip, call.nbytes, portion)
    <3>1. call.fs_call # "READ" /\ ~ (s.filp[f].filp_mode # "W" \/ call.nbytes > PIPE_SIZE)
      BY <1>5, <2>0, <2>a
    <3>2. done = do_write(s, p, call, portion)
      BY <3>1 DEF read_write
    <3> HIDE DEF done
    <3> QED
      BY <1>2, <3>1, <3>2 DEF do_write
  <2>2. CallMayGoOn(s, ip, "WRITE")
    BY <1>5
  <2>b. portion \in 0 .. call.nbytes
    BY <1>5, <1>2 DEF Portions
  <2> HIDE DEF done
  <2>3. CASE find_filp(s, ip, "R") = {}
    <3>1. done.s = s /\ done.reply = TRUE /\ done.answer = [call |-> "WRITE", ip |-> ip, n |-> EPIPE]
      BY <2>1, <2>3 DEF Answer
    <3>2. WritersGoOn(s)
      <4>1. ASSUME NEW q \in User, On(s, q, ip, "READ") PROVE FALSE
        <5>1. FilpOf(s, q) \in find_filp(s, s.filp[FilpOf(s, q)].filp_ino, End(s.fp_saved[q].fs_call))
          BY <4>1, HangsOnEnd DEF On
        <5>2. s.filp[FilpOf(s, q)].filp_ino = ip /\ End(s.fp_saved[q].fs_call) = "R"
          BY <4>1 DEF On, End
        <5> QED
          BY <2>3, <5>1, <5>2
      <4>2. WritersGoOnAt(s, ip)
        BY <4>1 DEF WritersGoOnAt
      <4> QED
        BY <2>2, <4>2, GoOnParts DEF CallMayGoOn
    <3>3. Chan(s)[ip].readers = 0
      BY <1>3, <2>3, ChanNobody
    <3>4. Told(s, s, done.answer)
      BY <1>1, <3>1, <3>3 DEF Told
    <3> QED
      BY <3>1, <3>2, <3>4, AnsweredLemma DEF done
  <2>4. CASE find_filp(s, ip, "R") # {} /\ s.filp[f].filp_pos + call.nbytes > PIPE_SIZE
    <3>1. done = Hung(suspend(s, p, call))
      BY <2>1, <2>4
    <3> QED
      BY <1>5, <2>2, <2>4, <3>1, HungLemma DEF done
  <2>5. CASE find_filp(s, ip, "R") # {} /\ ~ (s.filp[f].filp_pos + call.nbytes > PIPE_SIZE)
    <3>1. done = WriteData(w, f, ip, call.nbytes, portion)
      BY <2>1, <2>5
    <3> QED
      BY <1>5, <2>2, <2>5, <2>b, <3>1, WriteLemma DEF done
  <2> QED
    BY <2>3, <2>4, <2>5
<1> QED
  BY <1>1, <1>4, <1>5
-----------------------------------------------------------------------------
(* The steps of FS that finish or suspend a call.                          *)

LEMMA NobodyLeft ==
  ASSUME NEW s, Base(s), s.reviving = 0
  PROVE  \A q \in User : ~ s.fp_revived[q]
<1> DEFINE V == {q \in User : s.fp_revived[q]}
<1>1. IsFiniteSet(V) /\ Cardinality(V) = 0
  BY PartsFinite DEF Base, Agree
<1>2. V = {}
  BY <1>1, FS_EmptySet
<1> QED
  BY <1>2

LEMMA SomebodyLeft ==
  ASSUME NEW s, Base(s), s.reviving # 0
  PROVE  {q \in User : s.fp_revived[q]} # {}
<1>1. s.reviving = Cardinality({q \in User : s.fp_revived[q]})
  BY DEF Base, Agree
<1> QED
  BY <1>1, FS_EmptySet

LEMMA OneReaderNext ==
  ASSUME Base(fs'), OneSleepingReader
  PROVE  OneReader(fs')
<1> SUFFICES ASSUME NEW p \in User, NEW q \in User, NEW ip \in Pipe,
                    On(fs', p, ip, "READ"), On(fs', q, ip, "READ"), p # q
             PROVE  FALSE
  BY DEF OneReader
<1>1. CallsRight(fs')
  BY DEF Base
<1>2. Hangs(fs', p, ip, "READ", FALSE) /\ Hangs(fs', q, ip, "READ", FALSE)
  BY <1>1, HangsOn
<1> QED
  BY <1>2 DEF OneSleepingReader

FdsFree(s, q) == \A fd \in Fd : s.fp_filp[q][fd] = NIL_FILP

LEMMA FinishLemma ==
  ASSUME NEW s, NEW p \in User, NEW done, WentWell(s, p, done), Finish(p, done),
         user \in [User -> {"free", "running", "waiting"}], user[p] # "free",
         ~ s.fp_suspended[p], ~ s.panicked,
         \A q \in User : q # p => (user[q] = "waiting" <=> s.fp_suspended[q]),
         \A q \in User : user[q] = "free" => FdsFree(s, q),
         OneSleepingReader
  PROVE  PipesInv' /\ Told(s, fs', answer')
<1>1. /\ fs' = done.s /\ answer' = done.answer
      /\ user' = [user EXCEPT ![p] = IF done.reply THEN "running" ELSE "waiting"]
  BY DEF Finish
<1>2. /\ Base(fs') /\ fs'.fp_filp = s.fp_filp /\ fs'.panicked = s.panicked
      /\ done.reply \in BOOLEAN
      /\ \A q \in User : fs'.fp_suspended[q] <=> s.fp_suspended[q] \/ (q = p /\ ~ done.reply)
      /\ OneReader(fs') => WritersGoOn(fs')
      /\ Told(s, fs', answer')
  BY <1>1 DEF WentWell
<1>3. OneReader(fs')
  BY <1>2, OneReaderNext
<1>4. user' \in [User -> {"free", "running", "waiting"}]
  BY <1>1
<1>5. \A q \in User : user'[q] = "waiting" <=> fs'.fp_suspended[q]
  <2>1. user'[p] = "waiting" <=> ~ done.reply
    BY <1>1, <1>2
  <2>2. \A q \in User : q # p => user'[q] = user[q]
    BY <1>1
  <2> QED
    BY <1>2, <2>1, <2>2
<1>6. \A q \in User : user'[q] = "free" => \A fd \in Fd : fs'.fp_filp[q][fd] = NIL_FILP
  <2>1. \A q \in User : user'[q] = "free" => user[q] = "free"
    BY <1>1
  <2> QED
    BY <1>2, <2>1 DEF FdsFree
<1> QED
  BY <1>2, <1>3, <1>4, <1>5, <1>6 DEF PipesInv

LEMMA TransferStep ==
  ASSUME PipesInv, NEW p \in User, NEW call \in Saved, NEW portion \in 0 .. PIPE_SIZE,
         Transfer(p, call, portion), OneSleepingReader
  PROVE  PipesInv' /\ Told(fs, fs', answer')
<1>1. /\ Base(fs) /\ OneReader(fs) /\ WritersGoOn(fs) /\ ~ fs.panicked
      /\ user \in [User -> {"free", "running", "waiting"}]
      /\ \A q \in User : user[q] = "waiting" <=> fs.fp_suspended[q]
      /\ \A q \in User : user[q] = "free" => FdsFree(fs, q)
  BY DEF PipesInv, FdsFree
<1>2. /\ fs.reviving = 0 /\ user[p] = "running" /\ portion \in Portions(call)
      /\ Finish(p, read_write(fs, p, call, portion))
  BY DEF Transfer, AtReceive
<1>3. ~ fs.fp_suspended[p]
  BY <1>1, <1>2
<1>4. \A q \in User : ~ fs.fp_revived[q]
  BY <1>1, <1>2, NobodyLeft
<1> DEFINE f == fs.fp_filp[p][call.fd]
           ip == fs.filp[f].filp_ino
<1>5. CASE InOrder(fs, p, call, f, ip)
  <2>1. CallMayGoOn(fs, ip, call.fs_call)
    BY <1>1, <1>4, GoOnParts, <1>5, InOrderLemma DEF CallMayGoOn, NobodyRevived
  <2>2. WentWell(fs, p, read_write(fs, p, call, portion))
    BY <1>1, <1>2, <1>5, <2>1, CallLemma
  <2> QED
    BY <1>1, <1>2, <1>3, <2>2, FinishLemma
<1>6. CASE ~ InOrder(fs, p, call, f, ip)
  <2>1. read_write(fs, p, call, portion) = Refused(fs)
    <3>1. \/ f = NIL_FILP \/ fs.filp[f].filp_mode # End(call.fs_call)
          \/ (call.fs_call = "WRITE" /\ ~ (call.nbytes <= PIPE_SIZE))
      BY <1>3, <1>6 DEF InOrder
    <3>2. call.nbytes \in Nat /\ call.fs_call \in {"READ", "WRITE"} /\ PIPE_SIZE \in Nat
      BY Sizes0 DEF Saved, Sizes
    <3> HIDE DEF ip
    <3>3. CASE call.fs_call = "READ"
      <4>1. f = NIL_FILP \/ fs.filp[f].filp_mode # "R"
        BY <3>1, <3>3 DEF End
      <4> QED
        BY <3>3, <4>1 DEF read_write, do_read
    <3>4. CASE call.fs_call = "WRITE"
      <4>1. f = NIL_FILP \/ fs.filp[f].filp_mode # "W" \/ call.nbytes > PIPE_SIZE
        BY <3>1, <3>2, <3>4 DEF End
      <4> QED
        BY <3>4, <4>1 DEF read_write, do_write
    <3> QED
      BY <3>2, <3>3, <3>4
  <2>2. WentWell(fs, p, Refused(fs))
    <3>1. Told(fs, fs, Refused(fs).answer)
      BY DEF Told, Refused
    <3>2. Refused(fs).s = fs /\ Refused(fs).reply = TRUE
      BY DEF Refused
    <3> QED
      BY <1>1, <3>1, <3>2, AnsweredLemma
  <2> QED
    BY <1>1, <1>2, <1>3, <2>1, <2>2, FinishLemma
<1> QED
  BY <1>5, <1>6

LEMMA ResumedLemma ==
  ASSUME NEW s, Base(s), NEW p \in User, s.fp_revived[p], NEW r,
         r = [s EXCEPT !.fp_suspended[p] = FALSE, !.fp_revived[p] = FALSE,
                       !.fp_saved[p] = NoCall, !.reviving = @ - 1]
  PROVE  ForgottenAs(s, r, p)
<1>1. s \in Loose
  BY DEF Base
<1>2. /\ s.reviving - 1 \in Int
      /\ [s.fp_suspended EXCEPT ![p] = FALSE] \in [User -> BOOLEAN]
      /\ [s.fp_revived EXCEPT ![p] = FALSE] \in [User -> BOOLEAN]
      /\ [s.fp_saved EXCEPT ![p] = NoCall] \in [User -> Saved \cup {NoCall}]
  BY <1>1 DEF Loose
<1>3. r \in Loose
  BY <1>1, <1>2 DEF Loose
<1>4. /\ r.fp_filp = s.fp_filp /\ r.filp = s.filp /\ r.inode = s.inode /\ r.panicked = s.panicked
      /\ r.fp_suspended = [s.fp_suspended EXCEPT ![p] = FALSE]
      /\ r.fp_revived = [s.fp_revived EXCEPT ![p] = FALSE]
      /\ r.fp_saved = [s.fp_saved EXCEPT ![p] = NoCall]
      /\ r.reviving = s.reviving - 1 /\ r.susp_count = s.susp_count
  BY <1>1 DEF Loose
<1>5. \A q \in User : q # p => r.fp_saved[q] = s.fp_saved[q]
  BY <1>1, <1>4, LooseParts
<1> QED
  BY <1>3, <1>4, <1>5 DEF ForgottenAs

\* Of a pair that waits for each other the one that goes on may do so.
LEMMA ResumedMayGoOn ==
  ASSUME NEW s, NEW r, NEW p \in User, Base(s), OneReader(s), WritersGoOn(s), s.fp_revived[p],
         ForgottenAs(s, r, p), NEW ip \in Pipe, NEW fs_call \in {"READ", "WRITE"},
         On(s, p, ip, fs_call)
  PROVE  CallMayGoOn(r, ip, fs_call)
<1>1. s \in Loose
  BY DEF Base
<1>a. /\ \A q \in User : \A i, c : On(r, q, i, c) <=> On(s, q, i, c) /\ q # p
      /\ \A q \in User : Sleeps(r, q) <=> Sleeps(s, q) /\ q # p
      /\ \A q \in User : r.fp_revived[q] <=> s.fp_revived[q] /\ q # p
      /\ \A q \in User : r.fp_suspended[q] <=> s.fp_suspended[q] /\ q # p
      /\ \A q \in User : q # p => r.fp_saved[q] = s.fp_saved[q] /\ FilpOf(r, q) = FilpOf(s, q)
  BY <1>1, ForgetSame
<1>2. \A q \in User : \A i, c : On(r, q, i, c) <=> On(s, q, i, c) /\ q # p
  BY <1>a
<1>3. \A q \in User : r.fp_revived[q] <=> s.fp_revived[q] /\ q # p
  BY <1>a
<1>4. \A i \in Pipe : WritersGoOnAt(s, i)
  BY GoOnParts
<1>5. ASSUME NEW i \in Pipe, i # ip PROVE WritersGoOnAt(r, i)
  <2>1. \A c : ~ On(s, p, i, c)
    BY <1>5 DEF On
  <2>2. \A q \in User, c \in {"READ", "WRITE"} : On(r, q, i, c) <=> On(s, q, i, c)
    BY <1>2, <2>1
  <2>3. \A q \in User, c \in {"READ", "WRITE"} : On(s, q, i, c) => (r.fp_revived[q] <=> s.fp_revived[q])
    BY <1>3, <2>1
  <2> QED
    BY <1>4, <2>2, <2>3, GoOnSame
<1>6. ASSUME NEW x \in User, NEW w \in User, On(s, x, ip, "READ"), On(s, w, ip, "WRITE")
      PROVE  /\ ~ (s.fp_revived[x] /\ s.fp_revived[w])
             /\ ~ s.fp_revived[x] =>
                  \E v \in User : /\ On(s, v, ip, "WRITE") /\ s.fp_revived[v]
                                  /\ \A u \in User : On(s, u, ip, "WRITE") /\ s.fp_revived[u] => u = v
  BY <1>4, <1>6 DEF WritersGoOnAt
<1>7. CASE fs_call = "READ"
  <2>1. \A q \in User : ~ On(r, q, ip, "READ")
    BY <1>2, <1>7 DEF OneReader
  <2>2. NobodyRevived(r, ip, "WRITE")
    BY <1>2, <1>3, <1>6, <1>7 DEF NobodyRevived
  <2>3. WritersGoOnAt(r, ip)
    BY <2>1 DEF WritersGoOnAt
  <2> QED
    BY <1>5, <1>7, <2>2, <2>3 DEF CallMayGoOn
<1>8. CASE fs_call = "WRITE"
  <2>1. NobodyRevived(r, ip, "READ")
    BY <1>2, <1>3, <1>6, <1>8 DEF NobodyRevived
  <2>2. ASSUME Hangers(r, ip, "READ") # {} PROVE NobodyRevived(r, ip, "WRITE")
    <3>1. PICK x \in User : On(s, x, ip, "READ")
      BY <1>2, <2>2 DEF Hangers
    <3>2. ~ s.fp_revived[x]
      BY <1>6, <1>8, <3>1
    <3>3. PICK v \in User : /\ On(s, v, ip, "WRITE") /\ s.fp_revived[v]
                            /\ \A u \in User : On(s, u, ip, "WRITE") /\ s.fp_revived[u] => u = v
      BY <1>6, <1>8, <3>1, <3>2
    <3>4. p = v
      BY <1>8, <3>3
    <3> QED
      BY <1>2, <1>3, <3>3, <3>4 DEF NobodyRevived
  <2> QED
    BY <1>5, <1>8, <2>1, <2>2 DEF CallMayGoOn
<1> QED
  BY <1>7, <1>8

LEMMA GetWorkStep ==
  ASSUME PipesInv, NEW portion \in 0 .. PIPE_SIZE, get_work(portion), OneSleepingReader
  PROVE  PipesInv' /\ Told(fs, fs', answer')
<1>1. /\ Base(fs) /\ OneReader(fs) /\ WritersGoOn(fs) /\ ~ fs.panicked
      /\ user \in [User -> {"free", "running", "waiting"}]
      /\ \A q \in User : user[q] = "waiting" <=> fs.fp_suspended[q]
      /\ \A q \in User : user[q] = "free" => FdsFree(fs, q)
  BY DEF PipesInv, FdsFree
<1> DEFINE revived == {q \in User : fs.fp_revived[q]}
           p == Min(revived)
           call == fs.fp_saved[p]
           r == [fs EXCEPT !.fp_suspended[p] = FALSE, !.fp_revived[p] = FALSE,
                           !.fp_saved[p] = NoCall, !.reviving = @ - 1]
<1>2. revived # {}
  BY <1>1, SomebodyLeft DEF get_work
<1>3. portion \in Portions(call) /\ Finish(p, read_write(r, p, call, portion))
  BY <1>2 DEF get_work
<1>4. p \in revived
  <2>1. revived \in SUBSET Nat
    BY Sizes0
  <2> HIDE DEF revived
  <2> QED
    BY <1>2, <2>1, LeastExists
<1>5. p \in User /\ fs.fp_revived[p]
  BY <1>4
<1> HIDE DEF p, revived
<1>6. ForgottenAs(fs, r, p)
  BY <1>1, <1>5, ResumedLemma
<1> HIDE DEF r
<1>7. fs.fp_suspended[p] /\ CallRight(fs, p)
  BY <1>1, <1>5 DEF Base, CallsRight
<1>8. Base(r)
  BY <1>1, <1>5, <1>6, <1>7, ForgetBase
<1> DEFINE f == FilpOf(fs, p)
           ip == fs.filp[f].filp_ino
<1>9. /\ f \in Filp /\ ip \in Pipe /\ call \in Saved /\ On(fs, p, ip, call.fs_call)
  BY <1>1, <1>5, <1>7, HangsOnEnd
<1>a. call.fs_call \in {"READ", "WRITE"}
  BY <1>9 DEF Saved
<1>10. r.fp_filp = fs.fp_filp /\ r.filp = fs.filp /\ r.inode = fs.inode /\ r.panicked = fs.panicked
  BY <1>6 DEF ForgottenAs
<1>11. fs \in Loose
  BY <1>1 DEF Base
<1>12. /\ \A q \in User : r.fp_suspended[q] <=> fs.fp_suspended[q] /\ q # p
       /\ \A q \in User : \A i, c : On(r, q, i, c) <=> On(fs, q, i, c) /\ q # p
  <2>1. /\ \A q \in User : \A i, c : On(r, q, i, c) <=> On(fs, q, i, c) /\ q # p
        /\ \A q \in User : Sleeps(r, q) <=> Sleeps(fs, q) /\ q # p
        /\ \A q \in User : r.fp_revived[q] <=> fs.fp_revived[q] /\ q # p
        /\ \A q \in User : r.fp_suspended[q] <=> fs.fp_suspended[q] /\ q # p
        /\ \A q \in User : q # p => r.fp_saved[q] = fs.fp_saved[q] /\ FilpOf(r, q) = FilpOf(fs, q)
    BY <1>5, <1>6, <1>11, ForgetSame
  <2> QED
    BY <2>1
<1>13. InOrder(r, p, call, f, ip)
  <2>1. f = r.fp_filp[p][call.fd] /\ ip = r.filp[f].filp_ino
    BY <1>10 DEF FilpOf
  <2>2. f # NIL_FILP /\ r.filp[f].filp_mode = End(call.fs_call)
        /\ (call.fs_call = "WRITE" => call.nbytes <= PIPE_SIZE)
    BY <1>7, <1>10 DEF CallRight
  <2>3. ~ r.fp_suspended[p]
    BY <1>5, <1>12
  <2> QED
    BY <2>1, <2>2, <2>3 DEF InOrder
<1> HIDE DEF f, ip, call
<1>14. CallMayGoOn(r, ip, call.fs_call)
  BY <1>1, <1>5, <1>6, <1>9, <1>a, ResumedMayGoOn
<1>15. OneReader(r)
  BY <1>1, <1>12 DEF OneReader
<1>16. WentWell(r, p, read_write(r, p, call, portion))
  BY <1>3, <1>5, <1>8, <1>9, <1>13, <1>14, <1>15, CallLemma
<1>17. user[p] # "free" /\ ~ r.fp_suspended[p] /\ ~ r.panicked
  BY <1>1, <1>5, <1>7, <1>10, <1>12
<1>18. /\ \A q \in User : q # p => (user[q] = "waiting" <=> r.fp_suspended[q])
       /\ \A q \in User : user[q] = "free" => FdsFree(r, q)
  BY <1>1, <1>10, <1>12 DEF FdsFree
<1>19. PipesInv' /\ Told(r, fs', answer')
  BY <1>1, <1>3, <1>5, <1>16, <1>17, <1>18, FinishLemma
<1>20. Chan(r) = Chan(fs)
  BY <1>10, ChanSame
<1> QED
  BY <1>19, <1>20 DEF Told
-----------------------------------------------------------------------------
(* The steps of FS that open, share and close ends.                        *)

\* No end is opened, and what can still be read is as it was.
KeptAt(s, r, ip) ==
  /\ \A bits \in {"R", "W"} : find_filp(r, ip, bits) \subseteq find_filp(s, ip, bits)
  /\ \A f \in find_filp(r, ip, "R") :
       r.filp[f].filp_pos = s.filp[f].filp_pos /\ r.inode[ip].i_size = s.inode[ip].i_size

Kept(s, r) == \A ip \in Pipe : KeptAt(s, r, ip)

HeldAll(s, r) == \A ip \in Pipe : C!Held(Chan(s)[ip], Chan(r)[ip])

LEMMA KeptTwice ==
  ASSUME NEW s, NEW t, NEW r, Kept(s, t), Kept(t, r)
  PROVE  Kept(s, r)
  BY DEF Kept, KeptAt

LEMMA KeptSame ==
  ASSUME NEW s, NEW r, r.filp = s.filp, r.inode = s.inode
  PROVE  Kept(s, r)
  BY DEF Kept, KeptAt, find_filp

LEMMA FilpsFinite ==
  ASSUME NEW s, NEW ip, NEW bits
  PROVE  /\ IsFiniteSet(find_filp(s, ip, bits)) /\ Cardinality(find_filp(s, ip, bits)) \in Nat
         /\ Cardinality(find_filp(s, ip, bits)) = 0 <=> find_filp(s, ip, bits) = {}
<1>1. IsFiniteSet(find_filp(s, ip, bits))
  BY PartsFinite DEF find_filp
<1> QED
  BY <1>1, FS_EmptySet, FS_CardinalityType

LEMMA KeptHeld ==
  ASSUME NEW s, NEW r, EndsRight(s), EndsRight(r), NEW ip \in Pipe, KeptAt(s, r, ip)
  PROVE  C!Held(Chan(s)[ip], Chan(r)[ip])
<1> DEFINE old == ChanAt(s, ip)
           new == ChanAt(r, ip)
<1>1. Chan(s)[ip] = old /\ Chan(r)[ip] = new
  BY DEF Chan
<1>2. /\ find_filp(r, ip, "R") \subseteq find_filp(s, ip, "R")
      /\ find_filp(r, ip, "W") \subseteq find_filp(s, ip, "W")
  BY DEF KeptAt
<1>3. /\ old.readers = Cardinality(find_filp(s, ip, "R")) /\ new.readers = Cardinality(find_filp(r, ip, "R"))
      /\ old.writers = Cardinality(find_filp(s, ip, "W")) /\ new.writers = Cardinality(find_filp(r, ip, "W"))
  BY DEF ChanAt
<1>4. (old.readers = 0 => new.readers = 0) /\ (old.writers = 0 => new.writers = 0)
  BY <1>2, <1>3, FilpsFinite
<1>5. new.len = IF new.readers = 0 THEN 0 ELSE old.len
  <2>1. CASE find_filp(r, ip, "R") = {}
    BY <1>3, <2>1, FilpsFinite, ChanNobody
  <2>2. CASE find_filp(r, ip, "R") # {}
    <3>1. PICK f : f \in find_filp(r, ip, "R") /\ f \in find_filp(s, ip, "R")
      BY <1>2, <2>2
    <3>2. /\ new.len = r.inode[ip].i_size - r.filp[f].filp_pos /\ new.readers = 1
          /\ old.len = s.inode[ip].i_size - s.filp[f].filp_pos
      BY <3>1, ChanReader
    <3>3. r.filp[f].filp_pos = s.filp[f].filp_pos /\ r.inode[ip].i_size = s.inode[ip].i_size
      BY <3>1 DEF KeptAt
    <3> QED
      BY <3>2, <3>3
  <2> QED
    BY <2>1, <2>2
<1> HIDE DEF old, new
<1> QED
  BY <1>1, <1>4, <1>5 DEF C!Held

LEMMA ChangedLemma ==
  ASSUME PipesInv, NEW s, Changed(s), Base(s), OneReader(s) => WritersGoOn(s), ~ s.panicked,
         \A q \in User : s.fp_suspended[q] <=> fs.fp_suspended[q],
         \A q \in User : user[q] = "free" => FdsFree(s, q), OneSleepingReader
  PROVE  PipesInv' /\ answer' = [call |-> "none"]
<1>1. fs' = s /\ user' = user /\ answer' = [call |-> "none"]
  BY DEF Changed
<1>2. OneReader(fs')
  BY <1>1, OneReaderNext
<1>3. \A q \in User : user'[q] = "waiting" <=> fs'.fp_suspended[q]
  BY <1>1 DEF PipesInv
<1>4. user' \in [User -> {"free", "running", "waiting"}]
  BY <1>1 DEF PipesInv
<1>5. \A q \in User : user'[q] = "free" => \A fd \in Fd : fs'.fp_filp[q][fd] = NIL_FILP
  BY <1>1 DEF FdsFree
<1> QED
  BY <1>1, <1>2, <1>3, <1>4, <1>5 DEF PipesInv

LEMMA PipeStep ==
  ASSUME PipesInv, NEW p \in User, do_pipe(p), OneSleepingReader
  PROVE  PipesInv' /\ answer' = [call |-> "none"] /\ HeldAll(fs, fs')
<1>1. /\ Base(fs) /\ OneReader(fs) /\ WritersGoOn(fs) /\ ~ fs.panicked
      /\ user \in [User -> {"free", "running", "waiting"}]
      /\ \A q \in User : user[q] = "waiting" <=> fs.fp_suspended[q]
      /\ \A q \in User : user[q] = "free" => FdsFree(fs, q)
  BY DEF PipesInv, FdsFree
<1>2. user[p] = "running" /\ CanMakePipe(fs, p) /\ Changed(NewPipe(fs, p))
  BY DEF do_pipe
<1>3. ~ fs.fp_suspended[p] /\ fs \in Loose
  BY <1>1, <1>2 DEF Base
<1> DEFINE r == NewPipe(fs, p)
<1>4. PICK fd0, fd1, f0, f1, ip : MadeAs(fs, r, p, fd0, fd1, f0, f1, ip)
  BY <1>2, <1>3, NewPipeLemma
<1> HIDE DEF r
<1>5. Base(r)
  BY <1>1, <1>3, <1>4, MadeBase
<1>a. /\ \A q \in User : fs.fp_suspended[q] =>
           FilpOf(r, q) = FilpOf(fs, q) /\ r.filp[FilpOf(fs, q)] = fs.filp[FilpOf(fs, q)]
      /\ \A q \in User : \A i, c : On(r, q, i, c) <=> On(fs, q, i, c)
      /\ \A q \in User : Sleeps(r, q) <=> Sleeps(fs, q)
      /\ \A i, bits : i # ip => find_filp(r, i, bits) = find_filp(fs, i, bits)
      /\ \A bits : find_filp(fs, ip, bits) = {}
      /\ find_filp(r, ip, "R") = {f0} /\ find_filp(r, ip, "W") = {f1}
      /\ \A i : i # ip => EndsOf(r, i) = EndsOf(fs, i)
      /\ EndsOf(fs, ip) = {} /\ EndsOf(r, ip) = {f0, f1}
  <2>1. Base(fs) /\ ~ fs.fp_suspended[p]
    BY <1>1, <1>3
  <2>2. MadeFresh(fs, r, f0, f1, ip)
    BY <1>4, <2>1, MadeSame
  <2> QED
    BY <2>2, Zenon DEF MadeFresh
<1>6. /\ r.fp_suspended = fs.fp_suspended /\ r.fp_revived = fs.fp_revived /\ r.panicked = fs.panicked
      /\ \A q \in User : q # p => r.fp_filp[q] = fs.fp_filp[q]
  BY <1>4 DEF MadeAs
<1>7. WritersGoOn(r)
  <2>1. \A i \in Pipe : WritersGoOnAt(fs, i) => WritersGoOnAt(r, i)
    BY <1>6, <1>a, GoOnSame
  <2> QED
    BY <1>1, <2>1, GoOnParts
<1>8. PipesInv' /\ answer' = [call |-> "none"]
  <2>1. \A q \in User : user[q] = "free" => FdsFree(r, q)
    BY <1>1, <1>2, <1>6 DEF FdsFree
  <2>2. \A q \in User : r.fp_suspended[q] <=> fs.fp_suspended[q]
    BY <1>6
  <2>3. Changed(r) /\ ~ r.panicked
    BY <1>1, <1>2, <1>6 DEF r
  <2> QED
    BY <1>5, <1>7, <2>1, <2>2, <2>3, ChangedLemma
<1>9. fs' = r
  BY <1>2 DEF Changed, r
<1>10. ASSUME NEW i \in Pipe PROVE C!Held(Chan(fs)[i], Chan(r)[i])
  <2>1. EndsRight(fs) /\ EndsRight(r)
    BY <1>1, <1>5 DEF Base
  <2>2. CASE i = ip
    <3>1. ChanAt(fs, i).len = 0 /\ ChanAt(fs, i).readers = 0 /\ ChanAt(fs, i).writers = 0
      BY <1>a, <2>2, ChanNobody
    <3>2. ChanAt(r, i).len = r.inode[ip].i_size - r.filp[f0].filp_pos /\ ChanAt(r, i).readers = 1
      BY <1>a, <2>1, <2>2, ChanReader
    <3>3. ChanAt(r, i).writers = 1
      <4>1. Cardinality({f1}) = 1
        BY FS_Singleton
      <4> QED
        BY <1>a, <2>2, <4>1 DEF ChanAt
    <3>4. ChanAt(r, i).len = 0
      <4>1. r.inode[ip].i_size = 0 /\ r.filp[f0].filp_pos = 0
        BY <1>4 DEF MadeAs, NewEnd
      <4> QED
        BY <3>2, <4>1
    <3>5. ChanAt(fs, i) = C!Closed
      BY <3>1 DEF ChanAt, C!Closed
    <3>6. ChanAt(r, i) = C!Opened
      BY <3>2, <3>3, <3>4 DEF ChanAt, C!Opened
    <3> QED
      BY <3>5, <3>6 DEF Chan, C!Held
  <2>3. CASE i # ip
    <3>1. KeptAt(fs, r, i)
      <4>1. \A bits : find_filp(r, i, bits) = find_filp(fs, i, bits)
        BY <1>a, <2>3
      <4>2. r.inode[i] = fs.inode[i]
        BY <1>4, <2>3 DEF MadeAs
      <4>3. \A f \in find_filp(r, i, "R") : r.filp[f] = fs.filp[f]
        <5>1. ASSUME NEW f \in find_filp(r, i, "R") PROVE f # f0 /\ f # f1 /\ f \in Filp
          BY <1>4, <2>3, <5>1 DEF MadeAs, NewEnd, find_filp
        <5> QED
          BY <1>4, <5>1 DEF MadeAs
      <4> QED
        BY <4>1, <4>2, <4>3 DEF KeptAt
    <3> QED
      BY <2>1, <3>1, KeptHeld
  <2> QED
    BY <2>2, <2>3
<1> QED
  BY <1>8, <1>9, <1>10 DEF HeldAll

LEMMA SharedKept ==
  ASSUME NEW s, NEW r, Base(s), Base(r), SharedAs(s, r), r.inode = s.inode,
         \A g \in Filp : r.filp[g].filp_pos = s.filp[g].filp_pos
  PROVE  HeldAll(s, r)
<1>1. \A i, bits : find_filp(r, i, bits) = find_filp(s, i, bits)
  BY SharedSame
<1>2. \A ip \in Pipe : KeptAt(s, r, ip)
  BY <1>1 DEF KeptAt, find_filp
<1> QED
  BY <1>2, KeptHeld DEF Base, HeldAll

LEMMA DupStep ==
  ASSUME PipesInv, NEW p \in User, NEW fd \in Fd, Dup(p, fd), OneSleepingReader
  PROVE  PipesInv' /\ answer' = [call |-> "none"] /\ HeldAll(fs, fs')
<1>1. /\ Base(fs) /\ OneReader(fs) /\ WritersGoOn(fs) /\ ~ fs.panicked
      /\ user \in [User -> {"free", "running", "waiting"}]
      /\ \A q \in User : user[q] = "waiting" <=> fs.fp_suspended[q]
      /\ \A q \in User : user[q] = "free" => FdsFree(fs, q)
  BY DEF PipesInv, FdsFree
<1> DEFINE fd2 == Min(FreeFds(fs, p))
           r == do_dup(fs, p, fd, fd2)
<1>2. user[p] = "running" /\ fs.fp_filp[p][fd] # NIL_FILP /\ FreeFds(fs, p) # {} /\ Changed(r)
  BY DEF Dup
<1>3. fd2 \in Fd /\ fs.fp_filp[p][fd2] = NIL_FILP
  <2>1. FreeFds(fs, p) \in SUBSET Nat
    BY Sizes0 DEF FreeFds
  <2>2. fd2 \in FreeFds(fs, p)
    BY <1>2, <2>1, LeastExists
  <2> QED
    BY <2>2 DEF FreeFds
<1>4. ~ fs.fp_suspended[p]
  BY <1>1, <1>2
<1> HIDE DEF fd2
<1>5. /\ Base(r) /\ SharedAs(fs, r)
      /\ \A q \in User : q # p => r.fp_filp[q] = fs.fp_filp[q]
      /\ \A g \in Filp : r.filp[g].filp_pos = fs.filp[g].filp_pos
      /\ r.inode = fs.inode
  BY <1>1, <1>2, <1>3, <1>4, DupBase
<1> HIDE DEF r
<1>6. WritersGoOn(r)
  BY <1>1, <1>5, GoOnShared
<1>7. \A q \in User : r.fp_suspended[q] <=> fs.fp_suspended[q]
  BY <1>5 DEF SharedAs
<1>8. \A q \in User : user[q] = "free" => FdsFree(r, q)
  BY <1>1, <1>2, <1>5 DEF FdsFree
<1>9. ~ r.panicked
  BY <1>1, <1>5 DEF SharedAs
<1>10. PipesInv' /\ answer' = [call |-> "none"]
  BY <1>2, <1>5, <1>6, <1>7, <1>8, <1>9, ChangedLemma
<1>11. HeldAll(fs, r) /\ fs' = r
  BY <1>1, <1>2, <1>5, SharedKept DEF Changed
<1> QED
  BY <1>10, <1>11

LEMMA ForkStep ==
  ASSUME PipesInv, NEW p \in User, do_fork(p), OneSleepingReader
  PROVE  PipesInv' /\ answer' = [call |-> "none"] /\ HeldAll(fs, fs')
<1>1. /\ Base(fs) /\ OneReader(fs) /\ WritersGoOn(fs) /\ ~ fs.panicked
      /\ user \in [User -> {"free", "running", "waiting"}]
      /\ \A q \in User : user[q] = "waiting" <=> fs.fp_suspended[q]
      /\ \A q \in User : user[q] = "free" => FdsFree(fs, q)
  BY DEF PipesInv, FdsFree
<1> DEFINE I == {q \in User : user[q] = "free"}
           child == Min(I)
<1>2. /\ user[p] = "running" /\ I # {} /\ fs' = Copied(fs, p, child)
      /\ user' = [user EXCEPT ![child] = "running"] /\ answer' = [call |-> "none"]
  BY DEF do_fork
<1>3. child \in I
  <2>1. I \in SUBSET Nat
    BY Sizes0
  <2> HIDE DEF I
  <2> QED
    BY <1>2, <2>1, LeastExists
<1>4. child \in User /\ user[child] = "free" /\ p # child
  BY <1>2, <1>3
<1> HIDE DEF child, I
<1>5. /\ ~ fs.fp_suspended[p] /\ ~ fs.fp_suspended[child]
      /\ \A d \in Fd : fs.fp_filp[child][d] = NIL_FILP
  BY <1>1, <1>2, <1>4 DEF FdsFree
<1>6. /\ Base(fs') /\ SharedAs(fs, fs')
      /\ \A q \in User : q # child => fs'.fp_filp[q] = fs.fp_filp[q]
      /\ \A g \in Filp : fs'.filp[g].filp_pos = fs.filp[g].filp_pos
      /\ fs'.inode = fs.inode
  BY <1>1, <1>2, <1>4, <1>5, ForkBase
<1>7. OneReader(fs') /\ WritersGoOn(fs')
  BY <1>1, <1>6, GoOnShared
<1>8. ~ fs'.panicked
  BY <1>1, <1>6 DEF SharedAs
<1>9. user' \in [User -> {"free", "running", "waiting"}]
  BY <1>1, <1>2
<1>10. \A q \in User : user'[q] = "waiting" <=> fs'.fp_suspended[q]
  <2>1. \A q \in User : fs'.fp_suspended[q] <=> fs.fp_suspended[q]
    BY <1>6 DEF SharedAs
  <2>2. user'[child] = "running" /\ \A q \in User : q # child => user'[q] = user[q]
    BY <1>1, <1>2, <1>4
  <2> QED
    BY <1>1, <1>4, <2>1, <2>2
<1>11. \A q \in User : user'[q] = "free" => \A fd \in Fd : fs'.fp_filp[q][fd] = NIL_FILP
  <2>1. user'[child] = "running" /\ \A q \in User : q # child => user'[q] = user[q]
    BY <1>1, <1>2, <1>4
  <2> QED
    BY <1>1, <1>6, <2>1 DEF FdsFree
<1>12. HeldAll(fs, fs')
  BY <1>1, <1>6, SharedKept
<1> QED
  BY <1>2, <1>6, <1>7, <1>8, <1>9, <1>10, <1>11, <1>12 DEF PipesInv

\* What is given up takes nothing from those who still hold an end.
LEMMA DropKept ==
  ASSUME NEW s, NEW r, NEW p \in User, NEW fd \in Fd, NEW f, NEW ip, Base(s),
         DroppedAs(s, r, p, fd, f, ip), f # NIL_FILP
  PROVE  Kept(s, r)
<1>1. s \in Loose /\ Counted(s)
  BY DEF Base
<1>2. f = s.fp_filp[p][fd] /\ f \in Filp /\ s.filp[f].filp_count >= 1 /\ s.filp[f].filp_count \in Nat
  <2>1. f = s.fp_filp[p][fd]
    BY DEF DroppedAs
  <2>2. f \in Filp /\ s.filp[f].filp_count >= 1
    BY <1>1, <2>1, HeldInUse
  <2> QED
    BY <1>1, <2>1, <2>2, LooseParts DEF EndType
<1>3. ip = s.filp[f].filp_ino
  BY DEF DroppedAs
<1>4. Counted(r)
  BY DropCounted
<1>a. /\ \A g \in Filp : g # f => r.filp[g] = s.filp[g]
      /\ r.filp[f].filp_count = s.filp[f].filp_count - 1
  BY DEF DroppedAs
<1>b. s.filp[f].filp_count > 1 =>
        /\ r.filp[f].filp_ino = ip /\ r.filp[f].filp_mode = s.filp[f].filp_mode
        /\ r.filp[f].filp_pos = s.filp[f].filp_pos
  BY DEF DroppedAs
<1>c. \A i \in Pipe : i # ip => r.inode[i] = s.inode[i]
  BY DEF DroppedAs
<1>d. r.inode[ip].i_size = s.inode[ip].i_size \/ (r.inode[ip].i_count = 0 /\ r.inode[ip].i_size = 0)
  BY DEF DroppedAs
<1>5. \A g \in Filp : r.filp[g].filp_count # 0 =>
        /\ s.filp[g].filp_count # 0
        /\ r.filp[g].filp_ino = s.filp[g].filp_ino /\ r.filp[g].filp_mode = s.filp[g].filp_mode
        /\ r.filp[g].filp_pos = s.filp[g].filp_pos
  <2>1. r.filp[f].filp_count # 0 => s.filp[f].filp_count > 1
    BY <1>2, <1>a
  <2>2. s.filp[f].filp_count > 1 => s.filp[f].filp_count # 0
    BY <1>2
  <2> QED
    BY <1>3, <1>a, <1>b, <2>1, <2>2
<1> SUFFICES ASSUME NEW i \in Pipe PROVE KeptAt(s, r, i)
  BY DEF Kept
<1>6. \A bits : find_filp(r, i, bits) \subseteq find_filp(s, i, bits)
  BY <1>5 DEF find_filp
<1>7. ASSUME NEW g \in find_filp(r, i, "R")
      PROVE  r.filp[g].filp_pos = s.filp[g].filp_pos /\ r.inode[i].i_size = s.inode[i].i_size
  <2>1. g \in Filp /\ r.filp[g].filp_count # 0 /\ r.filp[g].filp_ino = i
    BY DEF find_filp
  <2>2. r.inode[i].i_count # 0
    <3>1. g \in EndsOf(r, i) /\ IsFiniteSet(EndsOf(r, i))
      BY <2>1, PartsFinite DEF EndsOf
    <3> QED
      BY <1>4, <3>1, FS_EmptySet DEF Counted
  <2>3. CASE i = ip
    BY <1>5, <1>d, <2>1, <2>2, <2>3
  <2>4. CASE i # ip
    BY <1>5, <1>c, <2>1, <2>4
  <2> QED
    BY <2>3, <2>4
<1> QED
  BY <1>6, <1>7 DEF KeptAt

LEMMA SharedKeeps ==
  ASSUME NEW s, NEW r, Base(s), SharedAs(s, r), r.inode = s.inode,
         \A g \in Filp : r.filp[g].filp_pos = s.filp[g].filp_pos
  PROVE  Kept(s, r)
<1>1. \A i, bits : find_filp(r, i, bits) = find_filp(s, i, bits)
  BY SharedSame
<1> QED
  BY <1>1 DEF Kept, KeptAt, find_filp

LEMMA KeptHeldAll ==
  ASSUME NEW s, NEW r, Base(s), Base(r), Kept(s, r)
  PROVE  HeldAll(s, r)
BY KeptHeld DEF Base, Kept, HeldAll

\* No reader and writer are suspended on one pipe, as when FS waits for a message.
Quiet(s) == \A a, b \in User, ip \in Pipe : ~ (On(s, a, ip, "READ") /\ On(s, b, ip, "WRITE"))

LEMMA QuietAtReceive ==
  ASSUME NEW s, WritersGoOn(s), \A q \in User : ~ s.fp_revived[q]
  PROVE  Quiet(s)
BY DEF WritersGoOn, Quiet

LEMMA QuietGoesOn ==
  ASSUME NEW s, Quiet(s)
  PROVE  WritersGoOn(s)
BY DEF WritersGoOn, Quiet

\* q is woken when p closes fd.
WokenBecause(s, p, fd, q) ==
  LET f == s.fp_filp[p][fd]
  IN  f # NIL_FILP /\ On(s, q, s.filp[f].filp_ino, WakesUp(s.filp[f].filp_mode))

\* What do_close() does for a process that is not suspended.
ClosedAs(s, r, p, fd) ==
  /\ Base(r) /\ Quiet(r) /\ Kept(s, r) /\ r.panicked = s.panicked
  /\ r.fp_suspended = s.fp_suspended
  /\ \A q \in User : \A i, c : On(r, q, i, c) <=> On(s, q, i, c)
  /\ \A q \in User : r.fp_revived[q] => s.fp_revived[q] \/ WokenBecause(s, p, fd, q)
  /\ \A q \in User, d \in Fd :
       r.fp_filp[q][d] = IF q = p /\ d = fd THEN NIL_FILP ELSE s.fp_filp[q][d]
  /\ \A g \in Filp : g # s.fp_filp[p][fd] => r.filp[g] = s.filp[g]

LEMMA ClosedLemma ==
  ASSUME NEW s, Base(s), Quiet(s), NEW p \in User, NEW fd \in Fd, NEW wild, ~ s.fp_suspended[p],
         \A q \in User : WokenBecause(s, p, fd, q) => ~ s.fp_revived[q],
         NEW r, r = do_close(s, p, fd, wild)
  PROVE  ClosedAs(s, r, p, fd)
<1> DEFINE f == s.fp_filp[p][fd]
           ip == s.filp[f].filp_ino
           c == WakesUp(s.filp[f].filp_mode)
           H == Hangers(s, ip, c)
<1>1. CASE f = NIL_FILP
  <2>1. r = s
    BY <1>1 DEF do_close
  <2>2. Kept(s, s)
    BY KeptSame
  <2> QED
    BY <1>1, <2>1, <2>2 DEF ClosedAs
<1>2. CASE f # NIL_FILP
  <2>1. PICK w : WokenBy(s, w, H) /\ DroppedAs(w, r, p, fd, f, ip)
    BY <1>2, CloseLemma
  <2>2. H \in SUBSET User /\ \A q \in User : q \in H <=> WokenBecause(s, p, fd, q)
    BY <1>2 DEF Hangers, WokenBecause
  <2>3. \A q \in H : Sleeps(s, q)
    BY <2>2 DEF Hangers, On, Sleeps
  <2>4. c = WakesUp(s.filp[f].filp_mode)
    OBVIOUS
  <2> HIDE DEF f, ip, c, H
  <2>5. Base(w)
    BY <2>1, <2>2, <2>3, WakeBase
  <2>6. /\ \A q \in User : \A i, k : On(w, q, i, k) <=> On(s, q, i, k)
        /\ \A q \in User : Sleeps(w, q) <=> Sleeps(s, q) /\ q \notin H
        /\ \A i, bits : find_filp(w, i, bits) = find_filp(s, i, bits)
        /\ \A g : Holders(w, g) = Holders(s, g)
        /\ \A i : EndsOf(w, i) = EndsOf(s, i)
    BY <2>1, WakeSame
  <2>7. /\ w.fp_filp = s.fp_filp /\ w.fp_suspended = s.fp_suspended
        /\ w.filp = s.filp /\ w.inode = s.inode /\ w.panicked = s.panicked
        /\ \A q \in User : w.fp_revived[q] <=> q \in H \/ s.fp_revived[q]
    BY <2>1 DEF WokenBy
  <2>8. \A q \in User : ~ (Sleeps(w, q) /\ On(w, q, ip, WakesUp(w.filp[f].filp_mode)))
    BY <2>4, <2>6, <2>7 DEF H, Hangers
  <2>9. ~ w.fp_suspended[p]
    BY <2>7
  <2>10. Base(r)
    BY <1>2, <2>1, <2>5, <2>8, <2>9, DropBase
  <2>11. \A q \in User : \A i, k : On(r, q, i, k) <=> On(w, q, i, k)
    <3>1. DroppedAs(w, r, p, fd, f, ip)
      BY <2>1
    <3> QED
      BY <1>2, <2>5, <2>9, <3>1, DropOn
  <2>12. Kept(s, r)
    <3>1. Kept(s, w)
      BY <2>7, KeptSame
    <3>2. Kept(w, r)
      BY <1>2, <2>1, <2>5, DropKept
    <3> QED
      BY <3>1, <3>2, KeptTwice
  <2>13. /\ r.panicked = w.panicked /\ r.fp_suspended = w.fp_suspended /\ r.fp_revived = w.fp_revived
         /\ \A q \in User, d \in Fd :
              r.fp_filp[q][d] = IF q = p /\ d = fd THEN NIL_FILP ELSE w.fp_filp[q][d]
         /\ \A g \in Filp : g # f => r.filp[g] = w.filp[g]
    <3>1. DroppedAs(w, r, p, fd, f, ip)
      BY <2>1
    <3> QED
      BY <3>1, Zenon DEF DroppedAs
  <2>14. \A q \in User : \A i, k : On(r, q, i, k) <=> On(s, q, i, k)
    BY <2>6, <2>11
  <2>15. Quiet(r)
    BY <2>14 DEF Quiet
  <2> QED
    BY <2>2, <2>7, <2>10, <2>12, <2>13, <2>14, <2>15 DEF ClosedAs, f
<1> QED
  BY <1>1, <1>2

\* Between two messages.
LEMMA AtRestLemma ==
  ASSUME PipesInv, AtReceive
  PROVE  /\ Base(fs) /\ Quiet(fs) /\ ~ fs.panicked
         /\ \A q \in User : ~ fs.fp_revived[q]
         /\ \A q \in User : user[q] = "waiting" <=> fs.fp_suspended[q]
         /\ \A q \in User : user[q] = "free" => FdsFree(fs, q)
<1>1. /\ Base(fs) /\ WritersGoOn(fs) /\ ~ fs.panicked
      /\ \A q \in User : user[q] = "waiting" <=> fs.fp_suspended[q]
      /\ \A q \in User : user[q] = "free" => FdsFree(fs, q)
  BY DEF PipesInv, FdsFree
<1>2. \A q \in User : ~ fs.fp_revived[q]
  BY <1>1, NobodyLeft DEF AtReceive
<1> QED
  BY <1>1, <1>2, QuietAtReceive

LEMMA CloseStep ==
  ASSUME PipesInv, NEW p \in User, NEW fd \in Fd, Close(p, fd), OneSleepingReader
  PROVE  PipesInv' /\ answer' = [call |-> "none"] /\ HeldAll(fs, fs')
<1> DEFINE r == do_close(fs, p, fd, FALSE)
<1>1. AtReceive /\ user[p] = "running" /\ Changed(r)
  BY DEF Close
<1>2. /\ Base(fs) /\ Quiet(fs) /\ ~ fs.panicked
      /\ \A q \in User : ~ fs.fp_revived[q]
      /\ \A q \in User : user[q] = "waiting" <=> fs.fp_suspended[q]
      /\ \A q \in User : user[q] = "free" => FdsFree(fs, q)
  BY <1>1, AtRestLemma
<1>3. ~ fs.fp_suspended[p]
  BY <1>1, <1>2
<1>4. \A q \in User : WokenBecause(fs, p, fd, q) => ~ fs.fp_revived[q]
  BY <1>2
<1>5. ClosedAs(fs, r, p, fd)
  BY <1>2, <1>3, <1>4, ClosedLemma
<1> HIDE DEF r
<1>6. /\ Base(r) /\ Quiet(r) /\ Kept(fs, r) /\ r.panicked = fs.panicked
      /\ r.fp_suspended = fs.fp_suspended
      /\ \A q \in User, d \in Fd :
           r.fp_filp[q][d] = IF q = p /\ d = fd THEN NIL_FILP ELSE fs.fp_filp[q][d]
  BY <1>5 DEF ClosedAs
<1>7. WritersGoOn(r)
  BY <1>6, QuietGoesOn
<1>8. ~ r.panicked /\ \A q \in User : r.fp_suspended[q] <=> fs.fp_suspended[q]
  BY <1>2, <1>6
<1>9. \A q \in User : user[q] = "free" => FdsFree(r, q)
  BY <1>2, <1>6 DEF FdsFree
<1>10. PipesInv' /\ answer' = [call |-> "none"]
  BY <1>1, <1>6, <1>7, <1>8, <1>9, ChangedLemma
<1>11. HeldAll(fs, r)
  BY <1>2, <1>6, KeptHeldAll
<1>12. fs' = r
  BY <1>1 DEF Changed
<1> QED
  BY <1>10, <1>11, <1>12

LEMMA Dup2Step ==
  ASSUME PipesInv, NEW p \in User, NEW fd \in Fd, NEW fd2 \in Fd, Dup2(p, fd, fd2), OneSleepingReader
  PROVE  PipesInv' /\ answer' = [call |-> "none"] /\ HeldAll(fs, fs')
<1> DEFINE t == do_close(fs, p, fd2, FALSE)
           r == do_dup(t, p, fd, fd2)
<1>1. /\ AtReceive /\ user[p] = "running" /\ fs.fp_filp[p][fd] # NIL_FILP /\ fd # fd2
      /\ Changed(r)
  BY DEF Dup2
<1>2. /\ Base(fs) /\ Quiet(fs) /\ ~ fs.panicked
      /\ \A q \in User : ~ fs.fp_revived[q]
      /\ \A q \in User : user[q] = "waiting" <=> fs.fp_suspended[q]
      /\ \A q \in User : user[q] = "free" => FdsFree(fs, q)
  BY <1>1, AtRestLemma
<1>3. ~ fs.fp_suspended[p] /\ \A q \in User : WokenBecause(fs, p, fd2, q) => ~ fs.fp_revived[q]
  BY <1>1, <1>2
<1>4. ClosedAs(fs, t, p, fd2)
  BY <1>2, <1>3, ClosedLemma
<1> HIDE DEF t
<1>5. /\ Base(t) /\ Quiet(t) /\ Kept(fs, t) /\ t.panicked = fs.panicked
      /\ t.fp_suspended = fs.fp_suspended
      /\ \A q \in User, d \in Fd :
           t.fp_filp[q][d] = IF q = p /\ d = fd2 THEN NIL_FILP ELSE fs.fp_filp[q][d]
  BY <1>4 DEF ClosedAs
<1>6. t.fp_filp[p][fd] # NIL_FILP /\ t.fp_filp[p][fd2] = NIL_FILP /\ ~ t.fp_suspended[p]
  BY <1>1, <1>3, <1>5
<1>7. /\ Base(r) /\ SharedAs(t, r)
      /\ \A q \in User : q # p => r.fp_filp[q] = t.fp_filp[q]
      /\ \A g \in Filp : r.filp[g].filp_pos = t.filp[g].filp_pos
      /\ r.inode = t.inode
  BY <1>5, <1>6, DupBase
<1> HIDE DEF r
<1>8. WritersGoOn(r)
  <2>1. WritersGoOn(t)
    BY <1>5, QuietGoesOn
  <2> QED
    BY <1>5, <1>7, <2>1, GoOnShared
<1>9. ~ r.panicked /\ \A q \in User : r.fp_suspended[q] <=> fs.fp_suspended[q]
  BY <1>2, <1>5, <1>7 DEF SharedAs
<1>10. \A q \in User : user[q] = "free" => FdsFree(r, q)
  <2>1. ASSUME NEW q \in User, user[q] = "free" PROVE FdsFree(r, q)
    <3>1. q # p /\ FdsFree(fs, q)
      BY <1>1, <1>2, <2>1
    <3>2. \A d \in Fd : r.fp_filp[q][d] = fs.fp_filp[q][d]
      BY <1>5, <1>7, <3>1
    <3> QED
      BY <3>1, <3>2 DEF FdsFree
  <2> QED
    BY <2>1
<1>11. PipesInv' /\ answer' = [call |-> "none"]
  BY <1>1, <1>7, <1>8, <1>9, <1>10, ChangedLemma
<1>12. HeldAll(fs, r)
  <2>1. Kept(t, r)
    BY <1>5, <1>7, SharedKeeps
  <2>2. Kept(fs, r)
    BY <1>5, <2>1, KeptTwice
  <2> QED
    BY <1>2, <1>7, <2>2, KeptHeldAll
<1>13. fs' = r
  BY <1>1 DEF Changed
<1> QED
  BY <1>11, <1>12, <1>13
-----------------------------------------------------------------------------
(* do_exit(): the loop over the descriptors.                               *)

LoopOf(s, p, wild, g) ==
  g = [n \in 0 .. NR_FDS |-> IF n = 0 THEN s ELSE do_close(g[n - 1], p, n - 1, wild)]

\* The tables after the first n turns of the loop, for each n up to m.
PartOf(s, p, wild, g, m) ==
  \A n \in 0 .. m : g[n] = IF n = 0 THEN s ELSE do_close(g[n - 1], p, n - 1, wild)

LEMMA LoopExists ==
  ASSUME NEW s, NEW p, NEW wild
  PROVE  \E g : LoopOf(s, p, wild, g)
<1> DEFINE I == {m \in 0 .. NR_FDS : ~ \E g : PartOf(s, p, wild, g, m)}
<1>1. ASSUME I # {} PROVE FALSE
  <2> DEFINE m == Min(I)
  <2>1. I \in SUBSET Nat
    OBVIOUS
  <2>2. m \in I /\ \A j \in I : m <= j
    <3> HIDE DEF I
    <3> QED
      BY <1>1, <2>1, LeastExists
  <2> HIDE DEF m
  <2>3. m \in 0 .. NR_FDS /\ ~ \E g : PartOf(s, p, wild, g, m)
    BY <2>2
  <2>4. m # 0
    <3>1. SUFFICES ASSUME m = 0 PROVE FALSE
      OBVIOUS
    <3>2. PartOf(s, p, wild, [n \in {0} |-> s], m)
      BY <3>1 DEF PartOf
    <3> QED
      BY <2>3, <3>2
  <2>5. m - 1 \in 0 .. NR_FDS /\ m - 1 \in Nat /\ ~ (m <= m - 1)
    BY <2>3, <2>4, Sizes0
  <2>6. PICK g : PartOf(s, p, wild, g, m - 1)
    BY <2>2, <2>5
  <2> DEFINE h == [n \in 0 .. m |-> IF n = m THEN do_close(g[m - 1], p, m - 1, wild) ELSE g[n]]
  <2>7. ASSUME NEW n \in 0 .. m
        PROVE  h[n] = IF n = 0 THEN s ELSE do_close(h[n - 1], p, n - 1, wild)
    <3>1. CASE n = m
      <4>1. h[n] = do_close(g[m - 1], p, m - 1, wild)
        BY <3>1
      <4>2. n # 0 /\ h[n - 1] = g[m - 1]
        BY <2>3, <2>4, <3>1
      <4> QED
        BY <3>1, <4>1, <4>2
    <3>2. CASE n # m
      <4>1. n \in 0 .. m - 1 /\ h[n] = g[n]
        BY <2>3, <3>2
      <4>2. g[n] = IF n = 0 THEN s ELSE do_close(g[n - 1], p, n - 1, wild)
        BY <2>6, <4>1 DEF PartOf
      <4>3. n # 0 => h[n - 1] = g[n - 1]
        BY <2>3, <3>2
      <4> QED
        BY <4>1, <4>2, <4>3
    <3> QED
      BY <3>1, <3>2
  <2> HIDE DEF h
  <2>8. PartOf(s, p, wild, h, m)
    BY <2>7 DEF PartOf
  <2> QED
    BY <2>3, <2>8
<1>2. NR_FDS \in 0 .. NR_FDS
  BY Sizes0
<1>3. PICK g : PartOf(s, p, wild, g, NR_FDS)
  BY <1>1, <1>2
<1> DEFINE h == [n \in 0 .. NR_FDS |-> g[n]]
<1>4. ASSUME NEW n \in 0 .. NR_FDS
      PROVE  h[n] = IF n = 0 THEN s ELSE do_close(h[n - 1], p, n - 1, wild)
  <2>1. h[n] = g[n] /\ (n # 0 => h[n - 1] = g[n - 1])
    BY Sizes0
  <2>2. g[n] = IF n = 0 THEN s ELSE do_close(g[n - 1], p, n - 1, wild)
    BY <1>3 DEF PartOf
  <2> QED
    BY <2>1, <2>2
<1>5. h = [n \in 0 .. NR_FDS |-> h[n]]
  OBVIOUS
<1> HIDE DEF h
<1>6. LoopOf(s, p, wild, h)
  BY <1>4, <1>5 DEF LoopOf
<1> QED
  BY <1>6

LEMMA LoopLemma ==
  ASSUME NEW s, NEW p, NEW wild
  PROVE  \A n \in 0 .. NR_FDS :
           ClosedBelow(s, p, wild)[n] =
             IF n = 0 THEN s ELSE do_close(ClosedBelow(s, p, wild)[n - 1], p, n - 1, wild)
<1> DEFINE g == ClosedBelow(s, p, wild)
<1>1. g = CHOOSE h : LoopOf(s, p, wild, h)
  BY DEF ClosedBelow, LoopOf
<1> HIDE DEF g
<1>2. LoopOf(s, p, wild, g)
  BY <1>1, LoopExists
<1>3. \A n \in 0 .. NR_FDS : g[n] = IF n = 0 THEN s ELSE do_close(g[n - 1], p, n - 1, wild)
  BY <1>2 DEF LoopOf
<1> QED
  BY <1>3 DEF g

\* p has no two descriptors of one end.
Distinct(s, p) ==
  \A fd, fd2 \in Fd :
    fd # fd2 /\ s.fp_filp[p][fd] # NIL_FILP /\ s.fp_filp[p][fd2] # NIL_FILP =>
      s.fp_filp[p][fd] # s.fp_filp[p][fd2]

\* The tables t of the loop, when the descriptors of p below n are closed: each sleeper who was
\* woken was woken because of one of them.
LoopInv(s, t, p, n) ==
  /\ Base(t) /\ Quiet(t) /\ Kept(s, t) /\ t.panicked = s.panicked
  /\ t.fp_suspended = s.fp_suspended
  /\ \A q \in User : \A i, c : On(t, q, i, c) <=> On(s, q, i, c)
  /\ \A q \in User : t.fp_revived[q] => \E d \in Fd : d < n /\ WokenBecause(s, p, d, q)
  /\ \A q \in User, d \in Fd :
       t.fp_filp[q][d] = IF q = p /\ d < n THEN NIL_FILP ELSE s.fp_filp[q][d]
  /\ \A d \in Fd : d >= n /\ s.fp_filp[p][d] # NIL_FILP =>
       t.filp[s.fp_filp[p][d]] = s.filp[s.fp_filp[p][d]]

\* Nobody is woken because of two descriptors.
LEMMA WokenOnce ==
  ASSUME NEW s, Base(s), NEW p \in User, Distinct(s, p), NEW q \in User, NEW d \in Fd, NEW n \in Fd,
         WokenBecause(s, p, d, q), WokenBecause(s, p, n, q)
  PROVE  d = n
<1> DEFINE f == s.fp_filp[p][d]
           g == s.fp_filp[p][n]
<1>1. s \in Loose /\ Counted(s) /\ EndsRight(s)
  BY DEF Base
<1>2. /\ f # NIL_FILP /\ On(s, q, s.filp[f].filp_ino, WakesUp(s.filp[f].filp_mode))
      /\ g # NIL_FILP /\ On(s, q, s.filp[g].filp_ino, WakesUp(s.filp[g].filp_mode))
  BY DEF WokenBecause
<1>3. f \in Filp /\ s.filp[f].filp_count >= 1 /\ g \in Filp /\ s.filp[g].filp_count >= 1
  <2>1. s.fp_filp[p][d] # NIL_FILP /\ s.fp_filp[p][n] # NIL_FILP
    BY <1>2
  <2> HIDE DEF f, g
  <2>2. s.fp_filp[p][d] \in Filp /\ s.filp[s.fp_filp[p][d]].filp_count >= 1
    BY <1>1, <2>1, HeldInUse
  <2>3. s.fp_filp[p][n] \in Filp /\ s.filp[s.fp_filp[p][n]].filp_count >= 1
    BY <1>1, <2>1, HeldInUse
  <2> QED
    BY <2>2, <2>3 DEF f, g
<1>4. s.filp[f].filp_count # 0 /\ s.filp[g].filp_count # 0
  BY <1>3
<1>5. SUFFICES ASSUME d # n PROVE FALSE
  OBVIOUS
<1>6. f # g
  BY <1>2, <1>5 DEF Distinct
<1> HIDE DEF f, g
<1>7. s.filp[f].filp_ino = s.filp[g].filp_ino
  BY <1>2 DEF On
<1>8. s.filp[f].filp_mode \in {"R", "W"} /\ s.filp[g].filp_mode \in {"R", "W"}
  BY <1>1, <1>3, <1>4 DEF EndsRight
<1>9. s.filp[f].filp_mode = s.filp[g].filp_mode
  <2>1. WakesUp(s.filp[f].filp_mode) = WakesUp(s.filp[g].filp_mode)
    BY <1>2 DEF On
  <2> QED
    BY <1>8, <2>1 DEF WakesUp
<1> QED
  BY <1>1, <1>3, <1>4, <1>6, <1>7, <1>9 DEF EndsRight

LEMMA LoopStep ==
  ASSUME NEW s, Base(s), NEW p \in User, ~ s.fp_suspended[p], Distinct(s, p), NEW t, NEW n \in Fd,
         LoopInv(s, t, p, n), NEW wild, NEW r, r = do_close(t, p, n, wild)
  PROVE  LoopInv(s, r, p, n + 1)
<1> DEFINE f == s.fp_filp[p][n]
<1>1. /\ Base(t) /\ Quiet(t) /\ Kept(s, t) /\ t.panicked = s.panicked
      /\ t.fp_suspended = s.fp_suspended
      /\ \A q \in User : \A i, c : On(t, q, i, c) <=> On(s, q, i, c)
      /\ \A q \in User : t.fp_revived[q] => \E d \in Fd : d < n /\ WokenBecause(s, p, d, q)
      /\ \A q \in User, d \in Fd :
           t.fp_filp[q][d] = IF q = p /\ d < n THEN NIL_FILP ELSE s.fp_filp[q][d]
      /\ \A d \in Fd : d >= n /\ s.fp_filp[p][d] # NIL_FILP =>
           t.filp[s.fp_filp[p][d]] = s.filp[s.fp_filp[p][d]]
  BY DEF LoopInv
<1>2. n \in Nat /\ Fd \subseteq Nat
  BY Sizes0
<1>3. t.fp_filp[p][n] = f
  BY <1>1, <1>2
<1>4. f # NIL_FILP => t.filp[f] = s.filp[f]
  BY <1>1, <1>2
<1> HIDE DEF f
<1>5. \A q \in User : WokenBecause(t, p, n, q) <=> WokenBecause(s, p, n, q)
  BY <1>1, <1>3, <1>4 DEF WokenBecause, f
<1>6. ASSUME NEW q \in User, WokenBecause(t, p, n, q) PROVE ~ t.fp_revived[q]
  <2>1. SUFFICES ASSUME t.fp_revived[q] PROVE FALSE
    OBVIOUS
  <2>2. PICK d \in Fd : d < n /\ WokenBecause(s, p, d, q)
    BY <1>1, <2>1
  <2>3. WokenBecause(s, p, n, q)
    BY <1>5, <1>6
  <2>4. d = n
    BY <2>2, <2>3, WokenOnce
  <2> QED
    BY <1>2, <2>2, <2>4
<1>7. ~ t.fp_suspended[p]
  BY <1>1
<1>8. ClosedAs(t, r, p, n)
  BY <1>1, <1>6, <1>7, ClosedLemma
<1>9. /\ Base(r) /\ Quiet(r) /\ Kept(t, r) /\ r.panicked = t.panicked
      /\ r.fp_suspended = t.fp_suspended
      /\ \A q \in User : \A i, c : On(r, q, i, c) <=> On(t, q, i, c)
      /\ \A q \in User : r.fp_revived[q] => t.fp_revived[q] \/ WokenBecause(t, p, n, q)
      /\ \A q \in User, d \in Fd :
           r.fp_filp[q][d] = IF q = p /\ d = n THEN NIL_FILP ELSE t.fp_filp[q][d]
      /\ \A g \in Filp : g # t.fp_filp[p][n] => r.filp[g] = t.filp[g]
  BY <1>8 DEF ClosedAs
<1>10. Kept(s, r)
  BY <1>1, <1>9, KeptTwice
<1>11. ASSUME NEW q \in User, r.fp_revived[q]
       PROVE  \E d \in Fd : d < n + 1 /\ WokenBecause(s, p, d, q)
  <2>1. CASE t.fp_revived[q]
    <3>1. PICK d \in Fd : d < n /\ WokenBecause(s, p, d, q)
      BY <1>1, <2>1
    <3>2. d < n + 1
      BY <1>2, <3>1
    <3> QED
      BY <3>1, <3>2
  <2>2. CASE WokenBecause(t, p, n, q)
    <3>1. n < n + 1 /\ WokenBecause(s, p, n, q)
      BY <1>2, <1>5, <2>2
    <3> QED
      BY <3>1
  <2> QED
    BY <1>9, <1>11, <2>1, <2>2
<1>12. \A q \in User, d \in Fd :
         r.fp_filp[q][d] = IF q = p /\ d < n + 1 THEN NIL_FILP ELSE s.fp_filp[q][d]
  <2>1. \A d \in Fd : d < n + 1 <=> d = n \/ d < n
    BY <1>2
  <2> QED
    BY <1>1, <1>9, <2>1
<1>13. ASSUME NEW d \in Fd, d >= n + 1, s.fp_filp[p][d] # NIL_FILP
       PROVE  r.filp[s.fp_filp[p][d]] = s.filp[s.fp_filp[p][d]]
  <2>1. d # n /\ d >= n
    BY <1>2, <1>13
  <2>2. s.fp_filp[p][d] # f
    BY <1>13, <2>1 DEF Distinct, f
  <2>3. s.fp_filp[p][d] \in Filp
    BY <1>13, HeldInUse DEF Base
  <2>4. t.filp[s.fp_filp[p][d]] = s.filp[s.fp_filp[p][d]]
    BY <1>1, <1>13, <2>1
  <2> QED
    BY <1>3, <1>9, <2>2, <2>3, <2>4
<1>14. /\ r.panicked = s.panicked /\ r.fp_suspended = s.fp_suspended
       /\ \A q \in User : \A i, c : On(r, q, i, c) <=> On(s, q, i, c)
  BY <1>1, <1>9
<1> QED
  BY <1>9, <1>10, <1>11, <1>12, <1>13, <1>14 DEF LoopInv

LEMMA LoopEnd ==
  ASSUME NEW s, Base(s), Quiet(s), \A q \in User : ~ s.fp_revived[q],
         NEW p \in User, ~ s.fp_suspended[p], Distinct(s, p), NEW wild
  PROVE  LoopInv(s, ClosedBelow(s, p, wild)[NR_FDS], p, NR_FDS)
<1> DEFINE g == ClosedBelow(s, p, wild)
           I == {n \in 0 .. NR_FDS : ~ LoopInv(s, g[n], p, n)}
<1>1. \A n \in 0 .. NR_FDS : g[n] = IF n = 0 THEN s ELSE do_close(g[n - 1], p, n - 1, wild)
  BY LoopLemma
<1> HIDE DEF g
<1>2. ASSUME I # {} PROVE FALSE
  <2> DEFINE m == Min(I)
  <2>1. I \in SUBSET Nat
    OBVIOUS
  <2>2. m \in I /\ \A j \in I : m <= j
    <3> HIDE DEF I
    <3> QED
      BY <1>2, <2>1, LeastExists
  <2> HIDE DEF m
  <2>3. m \in 0 .. NR_FDS /\ ~ LoopInv(s, g[m], p, m)
    BY <2>2
  <2>4. LoopInv(s, s, p, 0)
    <3>1. Kept(s, s)
      BY KeptSame
    <3>2. \A d \in Fd : ~ (d < 0)
      BY Sizes0
    <3> QED
      BY <3>1, <3>2 DEF LoopInv
  <2>5. m # 0
    <3>1. m = 0 => g[m] = s
      BY <1>1, <2>3
    <3> QED
      BY <2>3, <2>4, <3>1
  <2>6. m - 1 \in 0 .. NR_FDS /\ m - 1 \in Fd /\ ~ (m <= m - 1) /\ (m - 1) + 1 = m
    BY <2>3, <2>5, Sizes0 DEF Fd
  <2>7. LoopInv(s, g[m - 1], p, m - 1)
    BY <2>2, <2>6
  <2>8. g[m] = do_close(g[m - 1], p, m - 1, wild)
    BY <1>1, <2>3, <2>5
  <2> DEFINE k == m - 1
             t == g[k]
             r == g[m]
  <2>9. k \in Fd /\ LoopInv(s, t, p, k) /\ r = do_close(t, p, k, wild)
    BY <2>6, <2>7, <2>8
  <2>10. k + 1 = m
    BY <2>6
  <2> HIDE DEF k, t, r
  <2>11. LoopInv(s, r, p, k + 1)
    BY <2>9, LoopStep
  <2> QED
    BY <2>3, <2>10, <2>11 DEF r
<1>3. NR_FDS \in 0 .. NR_FDS
  BY Sizes0
<1> QED
  BY <1>2, <1>3 DEF g

\* Who hangs on a pipe and has no other descriptor closes it in one turn.
LEMMA SleeperLoop ==
  ASSUME NEW s, NEW p, NEW wild, NEW d \in Fd,
         \A k \in Fd : k # d => s.fp_filp[p][k] = NIL_FILP,
         NEW c, c = do_close(s, p, d, wild), \A k \in Fd : c.fp_filp[p][k] = NIL_FILP
  PROVE  ClosedBelow(s, p, wild)[NR_FDS] = c
<1> DEFINE g == ClosedBelow(s, p, wild)
           I == {n \in 0 .. NR_FDS : g[n] # IF n <= d THEN s ELSE c}
<1>1. \A n \in 0 .. NR_FDS : g[n] = IF n = 0 THEN s ELSE do_close(g[n - 1], p, n - 1, wild)
  BY LoopLemma
<1> HIDE DEF g
<1>d. d \in Nat /\ d < NR_FDS /\ NR_FDS \in Nat
  BY Sizes0 DEF Fd
<1>c. ASSUME NEW t, NEW k \in Fd, t.fp_filp[p][k] = NIL_FILP PROVE do_close(t, p, k, wild) = t
  BY <1>c, Zenon DEF do_close
<1>2. ASSUME I # {} PROVE FALSE
  <2> DEFINE m == Min(I)
  <2>1. I \in SUBSET Nat
    OBVIOUS
  <2>2. m \in I /\ \A j \in I : m <= j
    <3> HIDE DEF I
    <3> QED
      BY <1>2, <2>1, LeastExists
  <2> HIDE DEF m
  <2>3. m \in 0 .. NR_FDS /\ g[m] # IF m <= d THEN s ELSE c
    BY <2>2
  <2>4. m # 0
    BY <1>1, <1>d, <2>3
  <2>5. m - 1 \in 0 .. NR_FDS /\ m - 1 \in Fd /\ ~ (m <= m - 1)
    BY <2>3, <2>4, Sizes0 DEF Fd
  <2>6. g[m - 1] = IF m - 1 <= d THEN s ELSE c
    BY <2>2, <2>5
  <2>7. g[m] = do_close(g[m - 1], p, m - 1, wild)
    BY <1>1, <2>3, <2>4
  <2>8. CASE m <= d
    <3>1. m - 1 <= d /\ m - 1 # d
      BY <1>d, <2>3, <2>8
    <3>2. do_close(s, p, m - 1, wild) = s
      BY <1>c, <2>5, <3>1
    <3> QED
      BY <2>3, <2>6, <2>7, <2>8, <3>1, <3>2
  <2>9. CASE m = d + 1
    <3>1. m - 1 = d /\ ~ (m <= d)
      BY <1>d, <2>9
    <3>2. g[m - 1] = s
      BY <1>d, <2>6, <3>1
    <3>3. g[m] = c
      BY <2>7, <3>1, <3>2
    <3> QED
      BY <2>3, <3>1, <3>3
  <2>10. CASE m > d + 1
    <3>1. ~ (m - 1 <= d) /\ ~ (m <= d)
      BY <1>d, <2>3, <2>10
    <3>2. do_close(c, p, m - 1, wild) = c
      BY <1>c, <2>5
    <3> QED
      BY <2>3, <2>6, <2>7, <3>1, <3>2
  <2> QED
    BY <1>d, <2>3, <2>8, <2>9, <2>10
<1>3. NR_FDS \in 0 .. NR_FDS /\ ~ (NR_FDS <= d)
  BY <1>d
<1>4. g[NR_FDS] = c
  BY <1>2, <1>3
<1> QED
  BY <1>4 DEF g

\* Ended() for a process that sleeps.
EndedOf(s, r, p) ==
  /\ r \in Loose
  /\ r.fp_filp = s.fp_filp /\ r.filp = s.filp /\ r.inode = s.inode /\ r.panicked = s.panicked
  /\ r.fp_revived = s.fp_revived /\ r.reviving = s.reviving
  /\ r.fp_suspended = [s.fp_suspended EXCEPT ![p] = FALSE]
  /\ r.fp_saved = [s.fp_saved EXCEPT ![p] = NoCall]
  /\ r.susp_count = s.susp_count - 1

LEMMA EndedLemma ==
  ASSUME NEW s \in Loose, NEW p \in User, s.fp_suspended[p], ~ s.fp_revived[p], NEW r, r = Ended(s, p)
  PROVE  EndedOf(s, r, p)
<1> DEFINE call == IF s.fp_revived[p] THEN s.fp_saved[p] ELSE NoCall
           susp == [s.fp_suspended EXCEPT ![p] = FALSE]
           saved == [s.fp_saved EXCEPT ![p] = call]
<1>1. r = [s EXCEPT !.susp_count = @ - 1, !.fp_suspended[p] = FALSE,
                    !.fp_saved[p] = IF s.fp_revived[p] THEN @ ELSE NoCall]
  BY DEF Ended
<1>2. call = NoCall
  OBVIOUS
<1>3. r = [s EXCEPT !.susp_count = s.susp_count - 1, !.fp_suspended = susp, !.fp_saved = saved]
  BY <1>1 DEF Loose
<1>4. susp \in [User -> BOOLEAN] /\ saved \in [User -> Saved \cup {NoCall}] /\ s.susp_count - 1 \in Int
  BY <1>2 DEF Loose
<1>5. susp = [s.fp_suspended EXCEPT ![p] = FALSE] /\ saved = [s.fp_saved EXCEPT ![p] = NoCall]
  BY <1>2
<1> HIDE DEF call, susp, saved
<1>6. r \in Loose
  BY <1>3, <1>4 DEF Loose
<1>7. /\ r.fp_filp = s.fp_filp /\ r.filp = s.filp /\ r.inode = s.inode /\ r.panicked = s.panicked
      /\ r.fp_revived = s.fp_revived /\ r.reviving = s.reviving
      /\ r.fp_suspended = susp /\ r.fp_saved = saved /\ r.susp_count = s.susp_count - 1
  BY <1>3 DEF Loose
<1> QED
  BY <1>5, <1>6, <1>7 DEF EndedOf

LEMMA EndedForgets ==
  ASSUME NEW s \in Loose, NEW p \in User, ~ s.fp_revived[p], NEW r, EndedOf(s, r, p)
  PROVE  ForgottenAs(s, r, p)
<1>1. r.fp_revived = [s.fp_revived EXCEPT ![p] = FALSE]
  <2>1. s.fp_revived \in [User -> BOOLEAN]
    BY LooseParts
  <2>2. s.fp_revived[p] = FALSE
    BY <2>1
  <2> QED
    BY <2>1, <2>2 DEF EndedOf
<1>2. \A q \in User : q # p => r.fp_saved[q] = s.fp_saved[q]
  BY LooseParts DEF EndedOf
<1> QED
  BY <1>1, <1>2 DEF EndedOf, ForgottenAs

\* It does not matter which comes first.
LEMMA DroppedEnded ==
  ASSUME NEW s, NEW u, NEW c, NEW r, NEW p \in User, NEW d \in Fd, NEW f, NEW ip,
         DroppedAs(s, c, p, d, f, ip), EndedOf(s, u, p), EndedOf(c, r, p)
  PROVE  DroppedAs(u, r, p, d, f, ip)
<1>1. /\ c.fp_suspended = s.fp_suspended /\ c.fp_revived = s.fp_revived
      /\ c.fp_saved = s.fp_saved /\ c.panicked = s.panicked
      /\ c.susp_count = s.susp_count /\ c.reviving = s.reviving
  BY Zenon DEF DroppedAs
<1>2. /\ u.fp_filp = s.fp_filp /\ u.filp = s.filp /\ u.inode = s.inode
      /\ r \in Loose /\ r.fp_filp = c.fp_filp /\ r.filp = c.filp /\ r.inode = c.inode
  BY DEF EndedOf
<1>3. /\ r.fp_suspended = u.fp_suspended /\ r.fp_revived = u.fp_revived
      /\ r.fp_saved = u.fp_saved /\ r.panicked = u.panicked
      /\ r.susp_count = u.susp_count /\ r.reviving = u.reviving
  BY <1>1 DEF EndedOf
<1>4. f = u.fp_filp[p][d] /\ ip = u.filp[f].filp_ino
  <2>1. f = s.fp_filp[p][d] /\ ip = s.filp[f].filp_ino
    BY DEF DroppedAs
  <2> QED
    BY <1>2, <2>1
<1>5. \A q \in User, k \in Fd :
        r.fp_filp[q][k] = IF q = p /\ k = d THEN NIL_FILP ELSE u.fp_filp[q][k]
  <2>1. \A q \in User, k \in Fd :
          c.fp_filp[q][k] = IF q = p /\ k = d THEN NIL_FILP ELSE s.fp_filp[q][k]
    BY DEF DroppedAs
  <2> QED
    BY <1>2, <2>1
<1>6. /\ \A g \in Filp : g # f => r.filp[g] = u.filp[g]
      /\ r.filp[f].filp_count = u.filp[f].filp_count - 1
      /\ \A i \in Pipe : i # ip => r.inode[i] = u.inode[i]
  BY <1>2, Zenon DEF DroppedAs
<1>7. /\ u.filp[f].filp_count > 1 =>
           /\ r.filp[f].filp_ino = ip /\ r.filp[f].filp_mode = u.filp[f].filp_mode
           /\ r.filp[f].filp_pos = u.filp[f].filp_pos
           /\ r.inode = u.inode
      /\ u.filp[f].filp_count = 1 => r.inode[ip].i_count = u.inode[ip].i_count - 1
      /\ r.inode[ip].i_size = u.inode[ip].i_size \/ (r.inode[ip].i_count = 0 /\ r.inode[ip].i_size = 0)
  BY <1>2, Zenon DEF DroppedAs
<1>8. r \in Loose
  BY <1>2
<1> QED
  BY <1>3, <1>4, <1>5, <1>6, <1>7, <1>8, Zenon DEF DroppedAs

\* What do_exit() leaves of p and of the pipes.
GoneAs(s, r, p) ==
  /\ Base(r) /\ Quiet(r) /\ Kept(s, r) /\ r.panicked = s.panicked
  /\ \A q \in User : r.fp_suspended[q] <=> s.fp_suspended[q] /\ q # p
  /\ \A q \in User, d \in Fd : r.fp_filp[q][d] = IF q = p THEN NIL_FILP ELSE s.fp_filp[q][d]

\* The end of a process that does not hang.
LEMMA RunnerGone ==
  ASSUME NEW s, Base(s), Quiet(s), \A q \in User : ~ s.fp_revived[q],
         NEW p \in User, ~ s.fp_suspended[p], Distinct(s, p), NEW wild,
         NEW r, r = Ended(ClosedBelow(s, p, wild)[NR_FDS], p)
  PROVE  GoneAs(s, r, p)
<1> DEFINE t == ClosedBelow(s, p, wild)[NR_FDS]
<1>1. LoopInv(s, t, p, NR_FDS)
  BY LoopEnd
<1> HIDE DEF t
<1>2. /\ Base(t) /\ Quiet(t) /\ Kept(s, t) /\ t.panicked = s.panicked
      /\ t.fp_suspended = s.fp_suspended
      /\ \A q \in User, d \in Fd :
           t.fp_filp[q][d] = IF q = p /\ d < NR_FDS THEN NIL_FILP ELSE s.fp_filp[q][d]
  BY <1>1 DEF LoopInv
<1>3. r = t
  <2>1. ~ t.fp_suspended[p]
    BY <1>2
  <2> QED
    BY <2>1 DEF Ended, t
<1>4. \A d \in Fd : d < NR_FDS
  BY Sizes0 DEF Fd
<1> QED
  BY <1>2, <1>3, <1>4 DEF GoneAs

\* The end of a process that hangs on a pipe, its only descriptor.
LEMMA SleeperGone ==
  ASSUME NEW s, Base(s), Quiet(s), \A q \in User : ~ s.fp_revived[q],
         NEW p \in User, s.fp_suspended[p],
         \A fd, fd2 \in Fd : fd # fd2 => s.fp_filp[p][fd] = NIL_FILP \/ s.fp_filp[p][fd2] = NIL_FILP,
         NEW wild, NEW r, r = Ended(ClosedBelow(s, p, wild)[NR_FDS], p)
  PROVE  GoneAs(s, r, p)
<1> DEFINE d == s.fp_saved[p].fd
           f == s.fp_filp[p][d]
           ip == s.filp[f].filp_ino
           H == Hangers(s, ip, WakesUp(s.filp[f].filp_mode))
           c == do_close(s, p, d, wild)
<1>1. /\ f \in Filp /\ ip \in Pipe /\ d \in Fd
      /\ s.fp_saved[p] \in Saved
      /\ On(s, p, ip, s.fp_saved[p].fs_call)
  BY HangsOnEnd, Zenon DEF FilpOf
<1>2. f # NIL_FILP /\ s.filp[f].filp_mode = End(s.fp_saved[p].fs_call)
  BY DEF Base, CallsRight, CallRight, FilpOf
<1>k. s.fp_saved[p].fs_call \in {"READ", "WRITE"}
  <2>0. s.fp_saved[p] \in Saved
    BY DEF Base, CallsRight, CallRight
  <2> DEFINE call == s.fp_saved[p]
  <2>1. call \in Saved
    BY <2>0
  <2> HIDE DEF call
  <2>2. call.fs_call \in {"READ", "WRITE"}
    BY <2>1 DEF Saved
  <2> QED
    BY <2>2 DEF call
<1> HIDE DEF d
<1>3. PICK w : WokenBy(s, w, H) /\ DroppedAs(w, c, p, d, f, ip)
  BY <1>1, <1>2, CloseLemma
\* Nobody is woken: he would wait for p as p for him.
<1>4. H = {}
  <2> SUFFICES ASSUME NEW q \in User, On(s, q, ip, WakesUp(s.filp[f].filp_mode)) PROVE FALSE
    BY DEF Hangers
  <2> HIDE DEF f, ip, H, c
  <2>2. CASE s.fp_saved[p].fs_call = "READ"
    <3>1. On(s, p, ip, "READ") /\ On(s, q, ip, "WRITE")
      BY <1>1, <1>2, <2>2 DEF End, WakesUp
    <3> QED
      BY <1>1, <3>1 DEF Quiet
  <2>3. CASE s.fp_saved[p].fs_call = "WRITE"
    <3>1. On(s, q, ip, "READ") /\ On(s, p, ip, "WRITE")
      BY <1>1, <1>2, <2>3 DEF End, WakesUp
    <3> QED
      BY <1>1, <3>1 DEF Quiet
  <2> QED
    BY <1>k, <2>2, <2>3
<1>5. \A q \in User : ~ On(s, q, ip, WakesUp(s.filp[f].filp_mode))
  BY <1>4 DEF Hangers
<1>6. ClosedBelow(s, p, wild)[NR_FDS] = c
  <2>1. \A k \in Fd : k # d => s.fp_filp[p][k] = NIL_FILP
    <3>1. d \in Fd /\ s.fp_filp[p][d] # NIL_FILP
      BY <1>1, <1>2
    <3> HIDE DEF f, ip, H, c
    <3> QED
      BY <3>1
  <2>2. \A k \in Fd : c.fp_filp[p][k] = NIL_FILP
    <3>1. \A k \in Fd : c.fp_filp[p][k] = IF p = p /\ k = d THEN NIL_FILP ELSE w.fp_filp[p][k]
      BY <1>3, Zenon DEF DroppedAs
    <3>2. w.fp_filp = s.fp_filp
      <4>1. WokenBy(s, w, H)
        BY <1>3
      <4> QED
        BY <4>1, Zenon DEF WokenBy
    <3> QED
      BY <2>1, <3>1, <3>2
  <2>3. c = do_close(s, p, d, wild)
    OBVIOUS
  <2> HIDE DEF c, f, ip, H
  <2> QED
    BY <1>1, <2>1, <2>2, <2>3, SleeperLoop
<1> HIDE DEF f, ip, H, c
<1>7. /\ w \in Loose /\ w.fp_filp = s.fp_filp /\ w.fp_suspended = s.fp_suspended
      /\ w.filp = s.filp /\ w.inode = s.inode /\ w.panicked = s.panicked
      /\ \A q \in User : ~ w.fp_revived[q]
  BY <1>3, <1>4 DEF WokenBy
<1>8. Base(w)
  <2>1. WokenBy(s, w, {}) /\ {} \in SUBSET User /\ \A q \in {} : Sleeps(s, q)
    BY <1>3, <1>4
  <2> QED
    BY <2>1, WakeBase
<1>9. /\ \A q \in User : \A i, k : On(w, q, i, k) <=> On(s, q, i, k)
      /\ \A q \in User : Sleeps(w, q) <=> Sleeps(s, q) /\ q \notin H
      /\ \A i, bits : find_filp(w, i, bits) = find_filp(s, i, bits)
      /\ \A g : Holders(w, g) = Holders(s, g)
      /\ \A i : EndsOf(w, i) = EndsOf(s, i)
  BY <1>3, WakeSame
<1>10. c \in Loose /\ c.fp_suspended[p] /\ ~ c.fp_revived[p] /\ c.panicked = w.panicked
  <2>1. c \in Loose /\ c.fp_suspended = w.fp_suspended /\ c.fp_revived = w.fp_revived /\ c.panicked = w.panicked
    BY <1>3, Zenon DEF DroppedAs
  <2> QED
    BY <1>7, <2>1
<1>11. r = Ended(c, p)
  BY <1>6
<1>12. EndedOf(c, r, p)
  BY <1>10, <1>11, EndedLemma
<1> DEFINE u == Ended(w, p)
<1>13. EndedOf(w, u, p)
  BY <1>7, EndedLemma
<1> HIDE DEF u
<1>14. ForgottenAs(w, u, p)
  BY <1>7, <1>13, EndedForgets
<1>15. Base(u)
  BY <1>7, <1>8, <1>14, ForgetBase
<1>16. /\ \A q \in User : \A i, k : On(u, q, i, k) <=> On(w, q, i, k) /\ q # p
       /\ \A q \in User : Sleeps(u, q) <=> Sleeps(w, q) /\ q # p
       /\ \A q \in User : u.fp_revived[q] <=> w.fp_revived[q] /\ q # p
       /\ \A q \in User : u.fp_suspended[q] <=> w.fp_suspended[q] /\ q # p
       /\ \A q \in User : q # p => u.fp_saved[q] = w.fp_saved[q] /\ FilpOf(u, q) = FilpOf(w, q)
  BY <1>7, <1>14, ForgetSame
<1>17. DroppedAs(u, r, p, d, f, ip)
  BY <1>1, <1>3, <1>12, <1>13, DroppedEnded
<1>18. u.fp_filp = s.fp_filp /\ u.filp = s.filp /\ u.inode = s.inode /\ u.panicked = s.panicked
  BY <1>7, <1>13 DEF EndedOf
<1>19. ~ u.fp_suspended[p]
  BY <1>16
<1>20. \A q \in User : ~ (Sleeps(u, q) /\ On(u, q, ip, WakesUp(u.filp[f].filp_mode)))
  BY <1>5, <1>9, <1>16, <1>18
<1>21. Base(r)
  BY <1>1, <1>2, <1>15, <1>17, <1>19, <1>20, DropBase
<1>22. \A q \in User : \A i, k : On(r, q, i, k) <=> On(u, q, i, k)
  <2>1. d \in Fd /\ f # NIL_FILP
    BY <1>1, <1>2
  <2>2. Base(u) /\ DroppedAs(u, r, p, d, f, ip) /\ ~ u.fp_suspended[p]
    BY <1>15, <1>17, <1>19
  <2> QED
    BY <2>1, <2>2, DropOn
<1>23. Quiet(r)
  <2>1. \A q \in User : \A i, k : On(r, q, i, k) => On(s, q, i, k)
    BY <1>9, <1>16, <1>22
  <2> QED
    BY <2>1 DEF Quiet
<1>24. Kept(s, r)
  <2>1. Kept(s, u)
    BY <1>18, KeptSame
  <2>2. Kept(u, r)
    BY <1>1, <1>2, <1>15, <1>17, DropKept
  <2> QED
    BY <2>1, <2>2, KeptTwice
<1>25. r.fp_suspended = u.fp_suspended /\ r.panicked = u.panicked
       /\ \A q \in User, k \in Fd :
            r.fp_filp[q][k] = IF q = p /\ k = d THEN NIL_FILP ELSE u.fp_filp[q][k]
  BY <1>17, Zenon DEF DroppedAs
<1>26. \A k \in Fd : k # d => s.fp_filp[p][k] = NIL_FILP
  BY <1>1, <1>2 DEF f
<1>27. \A q \in User, k \in Fd : r.fp_filp[q][k] = IF q = p THEN NIL_FILP ELSE s.fp_filp[q][k]
  BY <1>18, <1>25, <1>26
<1>28. \A q \in User : r.fp_suspended[q] <=> s.fp_suspended[q] /\ q # p
  BY <1>7, <1>16, <1>25
<1> QED
  BY <1>18, <1>21, <1>23, <1>24, <1>25, <1>27, <1>28 DEF GoneAs

LEMMA ExitStep ==
  ASSUME PipesInv, NEW p \in User, NEW wild \in BOOLEAN, do_exit(p, wild), TidyExits, OneSleepingReader
  PROVE  PipesInv' /\ answer' = [call |-> "none"] /\ HeldAll(fs, fs')
<1> DEFINE r == Ended(ClosedBelow(fs, p, wild)[NR_FDS], p)
<1>1. /\ AtReceive /\ user[p] # "free" /\ fs' = r
      /\ user' = [user EXCEPT ![p] = "free"] /\ answer' = [call |-> "none"]
  BY DEF do_exit
<1>2. /\ Base(fs) /\ Quiet(fs) /\ ~ fs.panicked
      /\ \A q \in User : ~ fs.fp_revived[q]
      /\ \A q \in User : user[q] = "waiting" <=> fs.fp_suspended[q]
      /\ \A q \in User : user[q] = "free" => FdsFree(fs, q)
  BY <1>1, AtRestLemma
<1>3. user \in [User -> {"free", "running", "waiting"}]
  BY DEF PipesInv
<1>4. user'[p] = "free" /\ \A q \in User : q # p => user'[q] = user[q]
  BY <1>1, <1>3
<1>5. \A fd, fd2 \in Fd :
        fd # fd2 /\ fs.fp_filp[p][fd] # NIL_FILP /\ fs.fp_filp[p][fd2] # NIL_FILP =>
          fs.fp_filp[p][fd] # fs.fp_filp[p][fd2] /\ ~ fs.fp_suspended[p]
  BY <1>1, <1>4 DEF TidyExits
<1>6. GoneAs(fs, r, p)
  <2>1. CASE fs.fp_suspended[p]
    <3>1. \A fd, fd2 \in Fd :
            fd # fd2 => fs.fp_filp[p][fd] = NIL_FILP \/ fs.fp_filp[p][fd2] = NIL_FILP
      BY <1>5, <2>1
    <3> QED
      BY <1>2, <2>1, <3>1, SleeperGone
  <2>2. CASE ~ fs.fp_suspended[p]
    <3>1. Distinct(fs, p)
      BY <1>5 DEF Distinct
    <3> QED
      BY <1>2, <2>2, <3>1, RunnerGone
  <2> QED
    BY <2>1, <2>2
<1> HIDE DEF r
<1>7. /\ Base(fs') /\ Quiet(fs') /\ Kept(fs, fs') /\ fs'.panicked = fs.panicked
      /\ \A q \in User : fs'.fp_suspended[q] <=> fs.fp_suspended[q] /\ q # p
      /\ \A q \in User, d \in Fd :
           fs'.fp_filp[q][d] = IF q = p THEN NIL_FILP ELSE fs.fp_filp[q][d]
  BY <1>1, <1>6 DEF GoneAs
<1>8. OneReader(fs') /\ WritersGoOn(fs')
  BY <1>7, OneReaderNext, QuietGoesOn
<1>9. user' \in [User -> {"free", "running", "waiting"}]
  BY <1>1, <1>3
<1>10. \A q \in User : user'[q] = "waiting" <=> fs'.fp_suspended[q]
  BY <1>2, <1>4, <1>7
<1>11. \A q \in User : user'[q] = "free" => \A fd \in Fd : fs'.fp_filp[q][fd] = NIL_FILP
  BY <1>2, <1>4, <1>7 DEF FdsFree
<1>12. HeldAll(fs, fs')
  BY <1>2, <1>7, KeptHeldAll
<1> QED
  BY <1>1, <1>2, <1>7, <1>8, <1>9, <1>10, <1>11, <1>12 DEF PipesInv
-----------------------------------------------------------------------------
(* The theorems.                                                           *)

LEMMA PipesInit == Init => PipesInv
<1> SUFFICES ASSUME Init PROVE PipesInv
  OBVIOUS
<1>1. /\ fs = [fp_filp      |-> [p \in User |-> [fd \in Fd |-> NIL_FILP]],
               fp_suspended |-> [p \in User |-> FALSE],
               fp_revived   |-> [p \in User |-> FALSE],
               fp_saved     |-> [p \in User |-> NoCall],
               filp  |-> [f \in Filp |-> FreeFilp],
               inode |-> [ip \in Pipe |-> FreeInode],
               susp_count |-> 0, reviving |-> 0, panicked |-> FALSE]
      /\ user = [p \in User |-> IF p = INIT_PROC_NR THEN "running" ELSE "free"]
  BY DEF Init
<1>2. /\ fs.fp_filp = [p \in User |-> [fd \in Fd |-> NIL_FILP]]
      /\ fs.fp_suspended = [p \in User |-> FALSE]
      /\ fs.fp_revived = [p \in User |-> FALSE]
      /\ fs.filp = [f \in Filp |-> FreeFilp]
      /\ fs.inode = [ip \in Pipe |-> FreeInode]
      /\ fs.susp_count = 0 /\ fs.reviving = 0 /\ ~ fs.panicked
  BY <1>1
<1>3. fs \in Loose
  BY <1>1, Sizes0 DEF Loose, FreeFilp, FreeInode
<1>4. /\ \A q \in User, d \in Fd : fs.fp_filp[q][d] = NIL_FILP
      /\ \A q \in User : ~ fs.fp_suspended[q] /\ ~ fs.fp_revived[q]
      /\ \A f \in Filp : fs.filp[f].filp_count = 0
      /\ \A ip \in Pipe : fs.inode[ip].i_count = 0
  BY <1>2 DEF FreeFilp, FreeInode
<1>5. Counted(fs)
  <2>1. \A f \in Filp : Holders(fs, f) = {}
    BY <1>4, Sizes0 DEF Holders
  <2>2. \A ip \in Pipe : EndsOf(fs, ip) = {}
    BY <1>4 DEF EndsOf
  <2> QED
    BY <1>4, <2>1, <2>2, FS_EmptySet DEF Counted
<1>6. Agree(fs)
  <2>1. {q \in User : Sleeps(fs, q)} = {} /\ {q \in User : fs.fp_revived[q]} = {}
    BY <1>4 DEF Sleeps
  <2> QED
    BY <1>2, <2>1, FS_EmptySet DEF Agree
<1>7. EndsRight(fs) /\ PositionsRight(fs) /\ CallsRight(fs) /\ PartnersRight(fs) /\ ReadersWait(fs)
  BY <1>4 DEF EndsRight, PositionsRight, CallsRight, PartnersRight, ReadersWait, Sleeps
<1>8. OneReader(fs) /\ WritersGoOn(fs)
  BY <1>4 DEF OneReader, WritersGoOn, On
<1>9. /\ user \in [User -> {"free", "running", "waiting"}]
      /\ \A p \in User : user[p] # "waiting"
  BY <1>1
<1> QED
  BY <1>2, <1>3, <1>4, <1>5, <1>6, <1>7, <1>8, <1>9 DEF PipesInv, Base

\* One step of FS: the invariant holds again, and what it did is a step of the channels.
LEMMA StepLemma ==
  ASSUME PipesInv, TidyNext
  PROVE  PipesInv' /\ (Told(fs, fs', answer') \/ (answer' = [call |-> "none"] /\ HeldAll(fs, fs')))
<1>1. OneSleepingReader /\ TidyExits
  BY DEF TidyNext
<1>2. ASSUME NEW done \in 0 .. PIPE_SIZE, get_work(done) PROVE PipesInv' /\ Told(fs, fs', answer')
  BY <1>1, <1>2, GetWorkStep
<1>3. ASSUME NEW p \in User, NEW call \in Saved, NEW done \in 0 .. PIPE_SIZE, Transfer(p, call, done)
      PROVE  PipesInv' /\ Told(fs, fs', answer')
  BY <1>1, <1>3, TransferStep
<1>4. ASSUME NEW p \in User, do_pipe(p)
      PROVE  PipesInv' /\ answer' = [call |-> "none"] /\ HeldAll(fs, fs')
  BY <1>1, <1>4, PipeStep
<1>5. ASSUME NEW p \in User, do_fork(p)
      PROVE  PipesInv' /\ answer' = [call |-> "none"] /\ HeldAll(fs, fs')
  BY <1>1, <1>5, ForkStep
<1>6. ASSUME NEW p \in User, NEW fd \in Fd, Close(p, fd)
      PROVE  PipesInv' /\ answer' = [call |-> "none"] /\ HeldAll(fs, fs')
  BY <1>1, <1>6, CloseStep
<1>7. ASSUME NEW p \in User, NEW fd \in Fd, Dup(p, fd)
      PROVE  PipesInv' /\ answer' = [call |-> "none"] /\ HeldAll(fs, fs')
  BY <1>1, <1>7, DupStep
<1>8. ASSUME NEW p \in User, NEW fd \in Fd, NEW fd2 \in Fd, Dup2(p, fd, fd2)
      PROVE  PipesInv' /\ answer' = [call |-> "none"] /\ HeldAll(fs, fs')
  BY <1>1, <1>8, Dup2Step
<1>9. ASSUME NEW p \in User, NEW wild \in BOOLEAN, do_exit(p, wild)
      PROVE  PipesInv' /\ answer' = [call |-> "none"] /\ HeldAll(fs, fs')
  BY <1>1, <1>9, ExitStep
<1>10. Next
  BY DEF TidyNext
<1> QED
  BY <1>2, <1>3, <1>4, <1>5, <1>6, <1>7, <1>8, <1>9, <1>10 DEF Next

LEMMA InvariantNext == PipesInv /\ [TidyNext]_vars => PipesInv'
<1> SUFFICES ASSUME PipesInv, [TidyNext]_vars PROVE PipesInv'
  OBVIOUS
<1>1. CASE TidyNext
  BY <1>1, StepLemma
<1>2. CASE UNCHANGED vars
  BY <1>2 DEF vars, PipesInv
<1> QED
  BY <1>1, <1>2

\* Whatever FS is asked, and whoever it tries again or sees die, the tables keep the invariant,
\* as long as the known faults of do_exit() and pipe_check() are kept out.
THEOREM PipesInvariant == TidySpec => []PipesInv
BY PipesInit, InvariantNext, PTL DEF TidySpec

LEMMA EndsBounded ==
  ASSUME NEW s, Base(s), NEW ip \in Pipe
  PROVE  s.inode[ip].i_count \in 0 .. 2
<1> DEFINE A == find_filp(s, ip, "R")
           B == find_filp(s, ip, "W")
<1>1. EndsRight(s) /\ s.inode[ip].i_count = Cardinality(EndsOf(s, ip))
  BY DEF Base, Counted
<1>2. EndsOf(s, ip) = A \cup B
  BY <1>1 DEF EndsRight, EndsOf, find_filp
<1>3. ASSUME NEW bits PROVE IsFiniteSet(find_filp(s, ip, bits)) /\ Cardinality(find_filp(s, ip, bits)) \in 0 .. 1
  <2>1. CASE find_filp(s, ip, bits) = {}
    BY <2>1, FS_EmptySet
  <2>2. ASSUME NEW f \in find_filp(s, ip, bits)
        PROVE  IsFiniteSet(find_filp(s, ip, bits)) /\ Cardinality(find_filp(s, ip, bits)) \in 0 .. 1
    <3>1. find_filp(s, ip, bits) = {f}
      BY <1>1, OneSlot
    <3>2. IsFiniteSet({f}) /\ Cardinality({f}) = 1
      BY FS_Singleton
    <3> QED
      BY <3>1, <3>2
  <2> QED
    BY <2>1, <2>2
<1>4. IsFiniteSet(A) /\ IsFiniteSet(B) /\ Cardinality(A) \in 0 .. 1 /\ Cardinality(B) \in 0 .. 1
  BY <1>3
<1> HIDE DEF A, B
<1>5. /\ IsFiniteSet(A \cup B) /\ IsFiniteSet(A \cap B)
      /\ Cardinality(A \cup B) = Cardinality(A) + Cardinality(B) - Cardinality(A \cap B)
  BY <1>4, FS_Union, FS_Intersection
<1>6. Cardinality(A \cap B) \in Nat /\ Cardinality(A \cup B) \in Nat
  BY <1>5, FS_CardinalityType
<1>7. Cardinality(A \cup B) \in 0 .. 2
  BY <1>4, <1>5, <1>6
<1> QED
  BY <1>1, <1>2, <1>7

LEMMA TypesRight ==
  ASSUME NEW s, Base(s)
  PROVE  s \in Tables
<1>1. s \in Loose
  BY DEF Base
<1>2. s.susp_count \in 0 .. NR_PROCS /\ s.reviving \in 0 .. NR_PROCS
  <2>1. {q \in User : Sleeps(s, q)} \in SUBSET User /\ {q \in User : s.fp_revived[q]} \in SUBSET User
    OBVIOUS
  <2>2. s.susp_count \in 0 .. NR_PROCS - 2 /\ s.reviving \in 0 .. NR_PROCS - 2
    BY <2>1, PartsFinite DEF Base, Agree
  <2> QED
    BY <2>2, Sizes0
<1>3. ASSUME NEW f \in Filp PROVE s.filp[f].filp_count \in 0 .. NR_FDS * NR_PROCS
  <2>1. Holders(s, f) \in SUBSET (User \X Fd)
    BY DEF Holders
  <2>2. s.filp[f].filp_count = Cardinality(Holders(s, f))
    BY DEF Base, Counted
  <2> HIDE DEF Holders
  <2> QED
    BY <2>1, <2>2, PartsFinite
<1>4. \A ip \in Pipe : s.inode[ip].i_count \in 0 .. 2
  BY EndsBounded
<1> DEFINE N == 0 .. NR_FDS * NR_PROCS
           Ends == [filp_mode : {"R", "W", "none"}, filp_count : N,
                    filp_ino : Pipe \cup {-1}, filp_pos : 0 .. PIPE_SIZE]
           Nodes == [i_count : 0 .. 2, i_size : 0 .. PIPE_SIZE]
<1> HIDE DEF N
<1>5. \A f \in Filp : s.filp[f] \in Ends
  <2>1. \A f \in Filp : s.filp[f] \in EndType /\ s.filp[f].filp_count \in N
    BY <1>1, <1>3, LooseParts DEF N
  <2> QED
    BY <2>1 DEF EndType
<1>6. \A ip \in Pipe : s.inode[ip] \in Nodes
  <2>1. \A ip \in Pipe : s.inode[ip] \in InodeType
    BY <1>1, LooseParts
  <2> QED
    BY <1>4, <2>1 DEF InodeType
<1> HIDE DEF Ends, Nodes
<1>7. s.filp \in [Filp -> Ends] /\ s.inode \in [Pipe -> Nodes]
  <2>1. s.filp \in [Filp -> EndType] /\ s.inode \in [Pipe -> InodeType]
    BY <1>1, LooseParts
  <2> QED
    BY <1>5, <1>6, <2>1
<1>8. s \in [fp_filp      : [User -> [Fd -> Filp \cup {NIL_FILP}]],
             fp_suspended : [User -> BOOLEAN],
             fp_revived   : [User -> BOOLEAN],
             fp_saved     : [User -> Saved \cup {NoCall}],
             filp  : [Filp -> Ends], inode : [Pipe -> Nodes],
             susp_count : 0 .. NR_PROCS, reviving : 0 .. NR_PROCS, panicked : BOOLEAN]
  BY <1>1, <1>2, <1>7 DEF Loose
<1> QED
  BY <1>8 DEF Tables, Ends, Nodes, N

\* susp_count is the number of processes that sleep on pipes and reviving that of those who are
\* to go on; each filp slot counts its descriptors, across fork, dup, close and exit, each i-node
\* its ends, and the dead hold none.
THEOREM CountsAreRight == TidySpec => []CountsRight
<1>1. PipesInv => CountsRight
  <2> SUFFICES ASSUME PipesInv PROVE CountsRight
    OBVIOUS
  <2>1. Base(fs) /\ Counted(fs) /\ Agree(fs)
    BY DEF PipesInv, Base
  <2>2. TypeOK
    BY <2>1, TypesRight DEF PipesInv, TypeOK
  <2>3. CountsAgree
    BY <2>1 DEF Agree, CountsAgree, Sleeps, Asleep
  <2>4. DescriptorsCounted
    BY <2>1 DEF PipesInv, Counted, Holders, EndsOf, DescriptorsCounted
  <2> QED
    BY <2>2, <2>3, <2>4 DEF CountsRight
<1> QED
  BY <1>1, PipesInvariant, PTL

\* Exactly the processes that FS has not answered are suspended; each sleeper can be woken by one
\* who holds the other end, so close() and exit() have woken all others; and when FS waits for a
\* message no reader and writer wait for each other.
THEOREM SleepersAreWoken == TidySpec => []SleepersWoken
<1>1. PipesInv => SleepersWoken
  <2> SUFFICES ASSUME PipesInv PROVE SleepersWoken
    OBVIOUS
  <2>1. Base(fs) /\ WritersGoOn(fs) /\ CallsRight(fs) /\ PartnersRight(fs)
    BY DEF PipesInv, Base
  <2>2. WaitersSuspended
    BY DEF PipesInv, WaitersSuspended
  <2>3. SleepersHavePartner
    <3> SUFFICES ASSUME NEW p \in User, Asleep(p)
                 PROVE  find_filp(fs, fs.filp[FilpOf(fs, p)].filp_ino,
                                  IF fs.fp_saved[p].fs_call = "READ" THEN "W" ELSE "R") # {}
      BY DEF SleepersHavePartner, FilpOf
    <3>1. fs.fp_suspended[p] /\ Sleeps(fs, p)
      BY DEF Asleep, Sleeps
    <3> DEFINE ip == fs.filp[FilpOf(fs, p)].filp_ino
    <3>2. ip \in Pipe /\ fs.fp_saved[p] \in Saved /\ On(fs, p, ip, fs.fp_saved[p].fs_call)
      BY <2>1, <3>1, HangsOnEnd
    <3>3. fs.fp_saved[p].fs_call \in {"READ", "WRITE"}
      <4> DEFINE call == fs.fp_saved[p]
      <4>1. call \in Saved
        BY <3>2
      <4> HIDE DEF call
      <4>2. call.fs_call \in {"READ", "WRITE"}
        BY <4>1 DEF Saved
      <4> QED
        BY <4>2 DEF call
    <3> HIDE DEF ip
    <3> QED
      BY <2>1, <3>1, <3>2, <3>3 DEF PartnersRight, ip
  <2>4. NoStandoff
    <3> SUFFICES ASSUME fs.reviving = 0, NEW ip \in Pipe, NEW p \in User, NEW q \in User,
                        Hangs(fs, p, ip, "READ", FALSE), Hangs(fs, q, ip, "WRITE", FALSE)
                 PROVE  FALSE
      BY DEF NoStandoff
    <3>1. On(fs, p, ip, "READ") /\ On(fs, q, ip, "WRITE")
      BY <2>1, HangsOn
    <3>2. Quiet(fs)
      BY <2>1, NobodyLeft, QuietAtReceive
    <3> QED
      BY <3>1, <3>2 DEF Quiet
  <2> QED
    BY <2>2, <2>3, <2>4 DEF SleepersWoken
<1> QED
  BY <1>1, PipesInvariant, PTL

\* get_work() always finds the process that reviving speaks of.
THEOREM FSDoesNotPanic == TidySpec => []NeverPanics
<1>1. PipesInv => NeverPanics
  BY DEF PipesInv, NeverPanics
<1> QED
  BY <1>1, PipesInvariant, PTL

LEMMA ChanIsNext == ChannelOf' = Chan(fs')
BY DEF ChannelOf, Chan, ChanAt

\* Processes are told of what is in the pipe, and nothing else.
LEMMA ToldNext ==
  ASSUME Base(fs), Told(fs, fs', answer')
  PROVE  C!Next
<1> DEFINE old == Chan(fs)
           new == Chan(fs')
<1>1. ChannelOf = old /\ ChannelOf' = new
  BY ChanIs, ChanIsNext
<1>2. \A ip \in Pipe : C!Held(old[ip], old[ip])
  <2>1. EndsRight(fs) /\ \A ip \in Pipe : KeptAt(fs, fs, ip)
    BY DEF Base, KeptAt
  <2> QED
    BY <2>1, KeptHeld
<1>3. \/ answer' = [call |-> "none"] /\ new = old
      \/ \E ip \in Pipe : /\ answer' = [call |-> "READ", ip |-> ip, n |-> 0]
                          /\ old[ip].len = 0 /\ old[ip].writers = 0 /\ new = old
      \/ \E ip \in Pipe : /\ answer' = [call |-> "WRITE", ip |-> ip, n |-> EPIPE]
                          /\ old[ip].readers = 0 /\ new = old
      \/ \E ip \in Pipe, n \in 0 .. PIPE_SIZE :
           /\ answer' = [call |-> "READ", ip |-> ip, n |-> n]
           /\ n \in 1 .. old[ip].len
           /\ new = [old EXCEPT ![ip].len = old[ip].len - n]
      \/ \E ip \in Pipe, n \in 0 .. PIPE_SIZE :
           /\ answer' = [call |-> "WRITE", ip |-> ip, n |-> n]
                \/ answer' = [call |-> "WRITE", ip |-> ip, n |-> ENOSPC]
           /\ old[ip].readers > 0 /\ old[ip].len + n <= PIPE_SIZE
           /\ new = [old EXCEPT ![ip].len = old[ip].len + n]
  BY DEF Told
<1> HIDE DEF old, new
<1>4. CASE answer' = [call |-> "none"] /\ new = old
  <2>1. C!Hold
    BY <1>1, <1>2, <1>4 DEF C!Hold, C!NoAnswer
  <2> QED
    BY <2>1 DEF C!Next
<1>5. ASSUME NEW ip \in Pipe, answer' = [call |-> "READ", ip |-> ip, n |-> 0],
             old[ip].len = 0, old[ip].writers = 0, new = old
      PROVE  C!Next
  <2>1. C!EndOfFile(ip)
    BY <1>1, <1>5 DEF C!EndOfFile, C!answered
  <2> QED
    BY <2>1 DEF C!Next
<1>6. ASSUME NEW ip \in Pipe, answer' = [call |-> "WRITE", ip |-> ip, n |-> EPIPE],
             old[ip].readers = 0, new = old
      PROVE  C!Next
  <2>1. C!BrokenPipe(ip)
    BY <1>1, <1>6 DEF C!BrokenPipe, C!answered, C!EPIPE, EPIPE
  <2> QED
    BY <2>1 DEF C!Next
<1>7. ASSUME NEW ip \in Pipe, NEW n \in 0 .. PIPE_SIZE,
             answer' = [call |-> "READ", ip |-> ip, n |-> n], n \in 1 .. old[ip].len,
             new = [old EXCEPT ![ip].len = old[ip].len - n]
      PROVE  C!Next
  <2>1. C!Read(ip, n)
    BY <1>1, <1>7 DEF C!Read, C!answered
  <2> QED
    BY <2>1 DEF C!Next
<1>8. ASSUME NEW ip \in Pipe, NEW n \in 0 .. PIPE_SIZE,
             \/ answer' = [call |-> "WRITE", ip |-> ip, n |-> n]
             \/ answer' = [call |-> "WRITE", ip |-> ip, n |-> ENOSPC],
             old[ip].readers > 0, old[ip].len + n <= PIPE_SIZE,
             new = [old EXCEPT ![ip].len = old[ip].len + n]
      PROVE  C!Next
  <2>1. CASE answer' = [call |-> "WRITE", ip |-> ip, n |-> n]
    <3>1. C!Write(ip, n)
      BY <1>1, <1>8, <2>1 DEF C!Write, C!answered
    <3> QED
      BY <3>1 DEF C!Next
  <2>2. CASE answer' = [call |-> "WRITE", ip |-> ip, n |-> ENOSPC]
    <3>1. C!WriteFails(ip, n)
      BY <1>1, <1>8, <2>2 DEF C!WriteFails, C!answered, C!ENOSPC, ENOSPC
    <3> QED
      BY <3>1 DEF C!Next
  <2> QED
    BY <1>8, <2>1, <2>2
<1> QED
  BY <1>3, <1>4, <1>5, <1>6, <1>7, <1>8

LEMMA ChannelInit == Init => C!Init
<1> SUFFICES ASSUME Init PROVE C!Init
  OBVIOUS
<1>1. \A f \in Filp : fs.filp[f].filp_count = 0
  BY DEF Init, FreeFilp
<1>2. \A ip \in Pipe : \A bits : find_filp(fs, ip, bits) = {}
  BY <1>1 DEF find_filp
<1>3. ASSUME NEW ip \in Pipe PROVE ChanAt(fs, ip) = C!Closed
  <2>1. ChanAt(fs, ip).len = 0 /\ ChanAt(fs, ip).readers = 0 /\ ChanAt(fs, ip).writers = 0
    BY <1>2, ChanNobody
  <2> QED
    BY <2>1 DEF ChanAt, C!Closed
<1>4. ChannelOf = [ip \in Pipe |-> C!Closed]
  BY <1>3, ChanIs DEF Chan
<1>5. answer = C!NoAnswer
  BY DEF Init, C!NoAnswer
<1> QED
  BY <1>4, <1>5 DEF C!Init

LEMMA ChannelNext == PipesInv /\ [TidyNext]_vars => [C!Next]_(C!vars)
<1> SUFFICES ASSUME PipesInv, [TidyNext]_vars PROVE [C!Next]_(C!vars)
  OBVIOUS
<1>1. CASE TidyNext
  <2>1. Told(fs, fs', answer') \/ (answer' = [call |-> "none"] /\ HeldAll(fs, fs'))
    BY <1>1, StepLemma
  <2>2. CASE Told(fs, fs', answer')
    BY <2>2, ToldNext DEF PipesInv
  <2>3. CASE answer' = [call |-> "none"] /\ HeldAll(fs, fs')
    <3>1. C!Hold
      BY <2>3, ChanIs, ChanIsNext DEF HeldAll, C!Hold, C!NoAnswer
    <3> QED
      BY <3>1 DEF C!Next
  <2> QED
    BY <2>1, <2>2, <2>3
<1>2. CASE UNCHANGED vars
  <2>1. fs' = fs /\ answer' = answer
    BY <1>2 DEF vars
  <2>2. ChannelOf' = ChannelOf
    BY <2>1, ChanIs, ChanIsNext
  <2> QED
    BY <2>1, <2>2 DEF C!vars
<1> QED
  BY <1>1, <1>2

\* What processes see of a pipe is a channel: read() takes what is there and reports the end only
\* when nothing is left and nobody can write, write() fails only when nobody can read or the disk
\* is full, and suspension, revival, dup, fork and exit in between lose nothing and add nothing.
THEOREM PipesAreChannels == TidySpec => ImplementsChannel
BY PipesInvariant, ChannelInit, ChannelNext, PTL DEF TidySpec, ImplementsChannel, C!Spec
=============================================================================
