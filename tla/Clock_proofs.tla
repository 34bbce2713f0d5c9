----------------------------- MODULE Clock_proofs -----------------------------
(***************************************************************************)
(* Theorems about the clock task: it loses no tick to the interrupts that  *)
(* come in the middle of do_clocktick(), it is late with no alarm, and     *)
(* nobody runs for more than two quanta while another user waits.          *)
(***************************************************************************)
EXTENDS Clock, FiniteSetTheorems, SequenceTheorems, WellFoundedInduction, TLAPS

Pc == {"receive", "tick", "add", "subtract", "alarms", "quantum"}

Clocks ==
  [pc : Pc, realtime : 0 .. MaxTicks, lost : 0 .. MaxLost, t : 0 .. MaxLost,
   alarm : [Timed -> 0 .. MAX_P_LONG], next_alarm : 0 .. MAX_P_LONG,
   sched_ticks : 1 .. SCHED_RATE, rdy : Seq(User), bill : User \cup {IDLE},
   prev : User \cup {IDLE}, server : BOOLEAN, ticks : 0 .. MaxTicks, ran : Nat]

\* What was read of lost_ticks is still in it.
Copied == IF c.pc \in {"add", "subtract"} THEN c.t <= c.lost ELSE c.t = 0

\* next_alarm is never later than an alarm, also when that was copied or turned off.
NextIsFirst == \A p \in Timed : c.alarm[p] # 0 => c.next_alarm <= c.alarm[p]

\* The alarms that are due go off before the task looks at anything else.
Punctual ==
  c.pc \in {"quantum", "receive"} => \A p \in Timed : c.alarm[p] # 0 => c.alarm[p] > c.realtime

\* Who runs heads the queue, and is billed.
Billed ==
  /\ \A i, j \in 1 .. Len(c.rdy) : c.rdy[i] = c.rdy[j] => i = j
  /\ ~ c.server => c.bill = IF c.rdy = <<>> THEN IDLE ELSE Head(c.rdy)

\* Whoever has been ahead of another user has used what the quantum has lost, and one more
\* quantum if the last one ended with it.
Shares ==
  c.ran > 0 =>
    /\ Len(c.rdy) >= 2 /\ c.bill = Head(c.rdy)
    /\ c.ran <= SCHED_RATE - c.sched_ticks + IF c.prev = c.bill THEN SCHED_RATE ELSE 0

ClockInv ==
  /\ c \in Clocks /\ Copied /\ TicksCounted /\ NextIsFirst /\ Punctual /\ Billed /\ Shares
-----------------------------------------------------------------------------
(* The constants, and the earliest of some alarms.                         *)

LEMMA Bounds ==
  /\ SCHED_RATE \in Nat /\ SCHED_RATE >= 1
  /\ MaxTicks \in Nat /\ MaxLost \in Nat /\ MaxDelta \in Nat
  /\ MAX_P_LONG \in Nat /\ MAX_P_LONG >= MaxTicks + MaxDelta
  /\ \A d \in Deltas : d \in Nat /\ d <= MaxDelta
<1>1. SCHED_RATE \in Nat /\ SCHED_RATE >= 1
  BY BoundsAssumption
<1>2. MaxTicks \in Nat /\ MaxLost \in Nat /\ MaxDelta \in Nat
  BY BoundsAssumption
<1>3. \A d \in Deltas : d \in 0 .. MaxDelta
  BY BoundsAssumption
<1> QED
  BY <1>1, <1>2, <1>3 DEF MAX_P_LONG

\* A set of naturals that is not empty has a least element.
LEMMA LeastExists ==
  ASSUME NEW I \in SUBSET Nat, I # {}
  PROVE  Min(I) \in I /\ \A j \in I : Min(I) <= j
<1> DEFINE R == OpToRel(<, Nat)
<1>1. \A m, n \in Nat : m < n => <<m, n>> \in R
  BY Zenon DEF OpToRel
<1>2. IsWellFoundedOn(R, Nat)
  BY NatLessThanWellFounded
<1> HIDE DEF R
<1>3. PICK i \in I : \A j \in I : ~ (<<j, i>> \in R)
  BY <1>2, WFMin
<1>4. ASSUME NEW j \in I PROVE i <= j
  <2>1. i \in Nat /\ j \in Nat
    OBVIOUS
  <2>2. ~ (j < i)
    BY <1>1, <1>3, <2>1
  <2> QED
    BY <2>1, <2>2
<1> QED
  BY <1>3, <1>4 DEF Min

LEMMA EarliestLemma ==
  ASSUME NEW alarm \in [Timed -> 0 .. MAX_P_LONG]
  PROVE  /\ Earliest(alarm) \in 0 .. MAX_P_LONG
         /\ \A p \in Timed : alarm[p] # 0 => Earliest(alarm) <= alarm[p]
<1> DEFINE I == {MAX_P_LONG} \cup {alarm[p] : p \in {q \in Timed : alarm[q] # 0}}
<1>1. I \subseteq 0 .. MAX_P_LONG /\ I # {}
  BY Bounds
<1>2. \A p \in Timed : alarm[p] # 0 => alarm[p] \in I
  OBVIOUS
<1>3. Earliest(alarm) = Min(I)
  BY DEF Earliest
<1> HIDE DEF I
<1>4. I \subseteq Nat
  BY <1>1
<1>5. Min(I) \in I /\ \A j \in I : Min(I) <= j
  BY <1>1, <1>4, LeastExists
<1> QED
  BY <1>1, <1>2, <1>3, <1>5
-----------------------------------------------------------------------------
(* The parts of the invariant that are about time.                         *)

TimeInv == c \in Clocks /\ Copied /\ TicksCounted /\ NextIsFirst /\ Punctual

LEMMA TimeInit == Init => TimeInv
BY Bounds DEF Init, TimeInv, Clocks, Pc, Copied, TicksCounted, NextIsFirst, Punctual

\* What c \in Clocks says of the fields.
LEMMA Fields ==
  ASSUME c \in Clocks
  PROVE  /\ c.pc \in Pc /\ c.realtime \in Nat /\ c.lost \in Nat /\ c.t \in Nat /\ c.ticks \in Nat
         /\ c.lost <= MaxLost /\ c.t <= MaxLost /\ c.ticks <= MaxTicks
BY Bounds DEF Clocks

\* The ticks, stage by stage of do_clocktick().
Sums(k) ==
  /\ k.pc \in {"tick", "add"} => k.realtime + k.lost + 1 = k.ticks
  /\ k.pc = "subtract" => k.realtime + k.lost - k.t = k.ticks
  /\ k.pc \in {"receive", "alarms", "quantum"} => k.realtime + k.lost = k.ticks

LEMMA SumsLemma == ASSUME c \in Clocks PROVE TicksCounted <=> Sums(c)
<1> USE Fields
<1>1. CASE c.pc \in {"tick", "add"}
  BY <1>1 DEF TicksCounted, Sums
<1>2. CASE c.pc = "subtract"
  BY <1>2 DEF TicksCounted, Sums
<1>3. CASE c.pc \in {"receive", "alarms", "quantum"}
  BY <1>3 DEF TicksCounted, Sums
<1> QED
  BY <1>1, <1>2, <1>3 DEF Pc

LEMMA SumsNext == ASSUME c' \in Clocks, Sums(c') PROVE TicksCounted'
<1>1. c'.realtime \in Nat /\ c'.lost \in Nat /\ c'.t \in Nat /\ c'.ticks \in Nat /\ c'.pc \in Pc
  BY Bounds DEF Clocks
<1>2. CASE c'.pc \in {"tick", "add"}
  BY <1>1, <1>2 DEF TicksCounted, Sums
<1>3. CASE c'.pc = "subtract"
  BY <1>1, <1>3 DEF TicksCounted, Sums
<1>4. CASE c'.pc \in {"receive", "alarms", "quantum"}
  BY <1>1, <1>4 DEF TicksCounted, Sums
<1> QED
  BY <1>1, <1>2, <1>3, <1>4 DEF Pc

LEMMA TimeTick ==
  ASSUME TimeInv, interrupt \/ CopyLost \/ AddTicks \/ SubtractLost
  PROVE  TimeInv'
<1>1. /\ c \in Clocks /\ Copied /\ NextIsFirst /\ Punctual /\ Sums(c)
      /\ c.pc \in Pc /\ c.realtime \in Nat /\ c.lost \in Nat /\ c.t \in Nat /\ c.ticks \in Nat
      /\ c.lost <= MaxLost /\ c.t <= MaxLost /\ c.ticks <= MaxTicks
  BY SumsLemma, Fields DEF TimeInv
<1>2. /\ c' \in Clocks /\ Sums(c') /\ Copied'
      /\ c'.alarm = c.alarm /\ c'.next_alarm = c.next_alarm
      /\ c'.pc \in {"receive", "quantum"} => c'.pc = c.pc /\ c'.realtime = c.realtime
  <2>1. CASE interrupt
    <3>1. CASE c.pc = "receive"
      <4>1. c' = [c EXCEPT !.pc = "tick", !.ticks = @ + 1] /\ c.ticks < MaxTicks
        BY <2>1, <3>1 DEF interrupt, Waits, To, Clocks
      <4>2. /\ c'.pc = "tick" /\ c'.realtime = c.realtime /\ c'.lost = c.lost /\ c'.t = c.t
            /\ c'.ticks = c.ticks + 1 /\ c'.alarm = c.alarm /\ c'.next_alarm = c.next_alarm
        BY <1>1, <4>1 DEF Clocks
      <4>3. c.ticks + 1 \in 0 .. MaxTicks
        BY <1>1, <4>1, Bounds
      <4>4. c' \in Clocks
        BY <1>1, <4>1, <4>3 DEF Clocks, Pc
      <4> QED
        BY <1>1, <3>1, <4>2, <4>4 DEF Copied, Sums
    <3>2. CASE c.pc # "receive"
      <4>1. c' = [c EXCEPT !.ticks = @ + 1, !.lost = @ + 1] /\ c.ticks < MaxTicks /\ c.lost < MaxLost
        BY <2>1, <3>2 DEF interrupt, Waits
      <4>2. /\ c'.pc = c.pc /\ c'.realtime = c.realtime /\ c'.lost = c.lost + 1 /\ c'.t = c.t
            /\ c'.ticks = c.ticks + 1 /\ c'.alarm = c.alarm /\ c'.next_alarm = c.next_alarm
        BY <1>1, <4>1 DEF Clocks
      <4>3. c.ticks + 1 \in 0 .. MaxTicks /\ c.lost + 1 \in 0 .. MaxLost
        BY <1>1, <4>1, Bounds
      <4>4. c' \in Clocks
        BY <1>1, <4>1, <4>3 DEF Clocks, Pc
      <4> QED
        BY <1>1, <3>2, <4>2, <4>4 DEF Copied, Sums
    <3> QED
      BY <3>1, <3>2
  <2>2. CASE CopyLost
    <3>1. c.pc = "tick" /\ c' = [c EXCEPT !.pc = "add", !.t = c.lost]
      BY <2>2 DEF CopyLost, To, Clocks
    <3>2. /\ c'.pc = "add" /\ c'.realtime = c.realtime /\ c'.lost = c.lost /\ c'.t = c.lost
          /\ c'.ticks = c.ticks /\ c'.alarm = c.alarm /\ c'.next_alarm = c.next_alarm
      BY <1>1, <3>1 DEF Clocks
    <3>3. c' \in Clocks
      BY <1>1, <3>1, Bounds DEF Clocks, Pc
    <3> QED
      BY <1>1, <3>1, <3>2, <3>3 DEF Copied, Sums
  <2>3. CASE AddTicks
    <3>1. c.pc = "add" /\ c' = [c EXCEPT !.pc = "subtract", !.realtime = @ + c.t + 1]
      BY <2>3 DEF AddTicks, To, Clocks
    <3>2. c.t <= c.lost /\ c.realtime + c.lost + 1 = c.ticks
      BY <1>1, <3>1 DEF Copied, Sums
    <3>3. c.realtime + c.t + 1 \in 0 .. MaxTicks
      BY <1>1, <3>2, Bounds
    <3>4. /\ c'.pc = "subtract" /\ c'.realtime = c.realtime + c.t + 1 /\ c'.lost = c.lost /\ c'.t = c.t
          /\ c'.ticks = c.ticks /\ c'.alarm = c.alarm /\ c'.next_alarm = c.next_alarm
      BY <1>1, <3>1 DEF Clocks
    <3>5. c' \in Clocks
      BY <1>1, <3>1, <3>3 DEF Clocks, Pc
    <3> QED
      BY <1>1, <3>1, <3>2, <3>3, <3>4, <3>5 DEF Copied, Sums
  <2>4. CASE SubtractLost
    <3>1. c.pc = "subtract" /\ c' = [c EXCEPT !.lost = @ - c.t, !.t = 0, !.pc = "alarms"]
      BY <2>4 DEF SubtractLost, Seen, Clocks
    <3>2. c.t <= c.lost /\ c.realtime + c.lost - c.t = c.ticks
      BY <1>1, <3>1 DEF Copied, Sums
    <3>3. c.lost - c.t \in 0 .. MaxLost /\ 0 \in 0 .. MaxLost
      BY <1>1, <3>2, Bounds
    <3>4. /\ c'.pc = "alarms" /\ c'.realtime = c.realtime /\ c'.lost = c.lost - c.t /\ c'.t = 0
          /\ c'.ticks = c.ticks /\ c'.alarm = c.alarm /\ c'.next_alarm = c.next_alarm
      BY <1>1, <3>1 DEF Clocks
    <3>5. c' \in Clocks
      BY <1>1, <3>1, <3>3 DEF Clocks, Pc
    <3> QED
      BY <1>1, <3>1, <3>2, <3>3, <3>4, <3>5 DEF Copied, Sums
  <2> QED
    BY <2>1, <2>2, <2>3, <2>4
<1>3. TicksCounted'
  BY <1>2, SumsNext
<1>4. NextIsFirst' /\ Punctual'
  BY <1>1, <1>2 DEF NextIsFirst, Punctual
<1> QED
  BY <1>2, <1>3, <1>4 DEF TimeInv

LEMMA TimeAlarms ==
  ASSUME TimeInv, Alarms
  PROVE  TimeInv'
<1> USE Bounds DEF TimeInv
<1> DEFINE due   == {p \in Timed : c.alarm[p] # 0 /\ c.alarm[p] <= c.realtime}
           alarm == [p \in Timed |-> IF p \in due THEN 0 ELSE c.alarm[p]]
<1>1. c.pc = "alarms"
  BY DEF Alarms
<1>2. CASE c.next_alarm > c.realtime
  <2>1. c' = [c EXCEPT !.pc = "quantum"]
    BY <1>2 DEF Alarms, To
  <2>2. c' \in Clocks /\ Copied' /\ TicksCounted' /\ NextIsFirst'
    BY <1>1, <2>1 DEF Clocks, Pc, Copied, TicksCounted, NextIsFirst
  <2>3. \A p \in Timed : c.alarm[p] # 0 => c.alarm[p] > c.realtime
    BY <1>2 DEF NextIsFirst, Clocks
  <2>4. Punctual'
    BY <2>1, <2>3 DEF Punctual, Clocks
  <2> QED
    BY <2>2, <2>4
<1>3. CASE ~ (c.next_alarm > c.realtime)
  <2>1. c' = [To("quantum") EXCEPT !.alarm = alarm, !.next_alarm = Earliest(alarm)]
    BY <1>3 DEF Alarms
  <2>2. alarm \in [Timed -> 0 .. MAX_P_LONG]
    BY DEF Clocks
  <2>3. \A p \in Timed : alarm[p] # 0 => alarm[p] > c.realtime
    BY DEF Clocks
  <2> HIDE DEF alarm
  <2>4. /\ Earliest(alarm) \in 0 .. MAX_P_LONG
        /\ \A p \in Timed : alarm[p] # 0 => Earliest(alarm) <= alarm[p]
    BY <2>2, EarliestLemma
  <2> QED
    BY <1>1, <2>1, <2>2, <2>3, <2>4
       DEF To, Clocks, Pc, Copied, TicksCounted, NextIsFirst, Punctual
<1> QED
  BY <1>2, <1>3

\* Between two messages.
LEMMA TimeMessages ==
  ASSUME TimeInv, do_setalarm \/ Fork \/ TurnOff
  PROVE  TimeInv'
<1> USE Bounds DEF TimeInv
<1>1. CASE do_setalarm
  <2>1. PICK p \in Timed, delta \in Deltas :
          LET at    == IF delta = 0 THEN 0 ELSE c.realtime + delta
              alarm == [c.alarm EXCEPT ![p] = at]
          IN  Waits /\ c' = [c EXCEPT !.alarm = alarm, !.next_alarm = Earliest(alarm)]
    BY <1>1 DEF do_setalarm
  <2> DEFINE at    == IF delta = 0 THEN 0 ELSE c.realtime + delta
             alarm == [c.alarm EXCEPT ![p] = at]
  <2>2. at \in 0 .. MAX_P_LONG /\ (at # 0 => at > c.realtime)
    <3>1. c.realtime \in Nat /\ c.realtime <= MaxTicks
      BY DEF Clocks
    <3>2. delta \in Nat /\ delta <= MaxDelta
      BY <2>1, Bounds
    <3> QED
      BY <3>1, <3>2, Bounds
  <2>3. /\ alarm \in [Timed -> 0 .. MAX_P_LONG]
        /\ \A q \in Timed : alarm[q] # 0 => alarm[q] > c.realtime
    BY <2>1, <2>2 DEF Clocks, Waits, Punctual
  <2>4. Waits /\ c' = [c EXCEPT !.alarm = alarm, !.next_alarm = Earliest(alarm)]
    BY <2>1
  <2> HIDE DEF alarm
  <2>5. /\ Earliest(alarm) \in 0 .. MAX_P_LONG
        /\ \A q \in Timed : alarm[q] # 0 => Earliest(alarm) <= alarm[q]
    BY <2>3, EarliestLemma
  <2> QED
    BY <2>3, <2>4, <2>5 DEF Waits, Clocks, Pc, Copied, TicksCounted, NextIsFirst, Punctual
<1>2. CASE Fork
  <2>1. PICK p, child \in User : Waits /\ c' = [c EXCEPT !.alarm[child] = c.alarm[p]]
    BY <1>2 DEF Fork
  <2>2. p \in Timed /\ child \in Timed
    BY DEF Timed
  <2> QED
    BY <2>1, <2>2 DEF Waits, Clocks, Pc, Copied, TicksCounted, NextIsFirst, Punctual
<1>3. CASE TurnOff
  <2>1. PICK p \in User : Waits /\ c' = [c EXCEPT !.alarm[p] = 0]
    BY <1>3 DEF TurnOff
  <2>2. p \in Timed
    BY DEF Timed
  <2>3. c' = [c EXCEPT !.alarm = [@ EXCEPT ![p] = 0]] /\ c.pc = "receive"
    BY <2>1 DEF Waits
  <2>4. [c.alarm EXCEPT ![p] = 0] \in [Timed -> 0 .. MAX_P_LONG]
    BY <2>2 DEF Clocks
  <2>5. c' \in Clocks /\ c'.alarm = [c.alarm EXCEPT ![p] = 0]
    BY <2>3, <2>4 DEF Clocks
  <2>6. /\ c'.pc = c.pc /\ c'.realtime = c.realtime /\ c'.lost = c.lost /\ c'.t = c.t
        /\ c'.ticks = c.ticks /\ c'.next_alarm = c.next_alarm
    BY <2>3 DEF Clocks
  <2>7. \A q \in Timed : c'.alarm[q] = c.alarm[q] \/ c'.alarm[q] = 0
    BY <2>5 DEF Clocks
  <2> QED
    BY <2>3, <2>5, <2>6, <2>7 DEF Copied, TicksCounted, NextIsFirst, Punctual
<1> QED
  BY <1>1, <1>2, <1>3
-----------------------------------------------------------------------------
(* The parts that are about users and servers.                             *)

ShareInv == c \in Clocks /\ Billed /\ Shares

LEMMA ShareInit == Init => ShareInv
BY Bounds DEF Init, ShareInv, Clocks, Pc, Billed, Shares

\* A tick before its end, and alarms, change nothing of it.
LEMMA ShareSame ==
  ASSUME ShareInv, c' \in Clocks,
         c'.rdy = c.rdy, c'.bill = c.bill, c'.prev = c.prev, c'.server = c.server,
         c'.ran = c.ran, c'.sched_ticks = c.sched_ticks
  PROVE  ShareInv'
BY DEF ShareInv, Billed, Shares

\* sched() when the queue is as it should be: who heads it comes last.
LEMMA Rotated ==
  ASSUME NEW q \in Seq(User), q # <<>>, \A i, j \in 1 .. Len(q) : q[i] = q[j] => i = j
  PROVE  LET r == Append(Tail(q), Head(q))
         IN  /\ r \in Seq(User) /\ Len(r) = Len(q)
             /\ \A i, j \in 1 .. Len(r) : r[i] = r[j] => i = j
             /\ Len(q) >= 2 => Head(r) # Head(q)
<1> DEFINE r == Append(Tail(q), Head(q))
<1>1. Len(q) \in Nat /\ Len(q) >= 1
  BY LenProperties, EmptySeq
<1>2. Tail(q) \in Seq(User) /\ Len(Tail(q)) = Len(q) - 1
      /\ \A i \in 1 .. Len(q) - 1 : Tail(q)[i] = q[i + 1]
  BY HeadTailProperties
<1>3. Head(q) \in User /\ Head(q) = q[1]
  BY HeadTailProperties
<1>4. /\ r \in Seq(User) /\ Len(r) = Len(q)
      /\ \A i \in 1 .. Len(q) - 1 : r[i] = q[i + 1]
      /\ r[Len(q)] = q[1]
  BY <1>1, <1>2, <1>3, AppendProperties
<1> HIDE DEF r
<1>5. \A i \in 1 .. Len(q) : r[i] = q[IF i = Len(q) THEN 1 ELSE i + 1]
  BY <1>1, <1>4
<1>6. \A i, j \in 1 .. Len(r) : r[i] = r[j] => i = j
  BY <1>1, <1>4, <1>5
<1>7. Len(q) >= 2 => Head(r) # Head(q)
  <2> SUFFICES ASSUME Len(q) >= 2 PROVE r[1] # q[1]
    BY <1>1, <1>3, <1>4
  <2> QED
    BY <1>1, <1>4
<1> QED
  BY <1>4, <1>6, <1>7 DEF r

\* What happens to users and servers changes no time.
LEMMA TimeSame ==
  ASSUME TimeInv, c' \in Clocks,
         c'.pc = c.pc \/ (c.pc = "quantum" /\ c'.pc = "receive"),
         c'.realtime = c.realtime, c'.lost = c.lost, c'.t = c.t, c'.ticks = c.ticks,
         c'.alarm = c.alarm, c'.next_alarm = c.next_alarm
  PROVE  TimeInv'
<1>1. Sums(c) /\ Copied /\ NextIsFirst /\ Punctual
  BY SumsLemma DEF TimeInv
<1>2. Sums(c') /\ Copied' /\ NextIsFirst' /\ Punctual'
  BY <1>1 DEF Sums, Copied, NextIsFirst, Punctual
<1> QED
  BY <1>2, SumsNext DEF TimeInv

LEMMA ShareEnd ==
  ASSUME TimeInv, ShareInv, EndOfTick
  PROVE  TimeInv' /\ ShareInv'
<1> DEFINE over   == c.sched_ticks = 1
           rotate == over /\ c.bill = c.prev /\ c.rdy # <<>>
           rdy    == IF rotate THEN Append(Tail(c.rdy), Head(c.rdy)) ELSE c.rdy
           sched  == IF over THEN SCHED_RATE ELSE c.sched_ticks - 1
           prev   == IF over THEN c.bill ELSE c.prev
           bill   == IF c.server THEN c.bill ELSE IF rdy = <<>> THEN IDLE ELSE Head(rdy)
           alone  == Len(c.rdy) < 2 \/ c.server
           stays  == c.rdy # <<>> /\ rdy # <<>> /\ Head(c.rdy) = Head(rdy)
           ran    == IF ~ stays THEN 0 ELSE IF alone THEN c.ran ELSE c.ran + 1
<1>1. /\ c \in Clocks /\ Billed /\ Shares /\ c.pc = "quantum"
      /\ c.rdy \in Seq(User) /\ c.ran \in Nat /\ c.server \in BOOLEAN
      /\ c.bill \in User \cup {IDLE} /\ c.prev \in User \cup {IDLE}
      /\ c.sched_ticks \in Nat /\ 1 <= c.sched_ticks /\ c.sched_ticks <= SCHED_RATE
      /\ Len(c.rdy) \in Nat
  BY Bounds, LenProperties DEF ShareInv, EndOfTick, Clocks
<1>2. c' = [c EXCEPT !.pc = "receive", !.sched_ticks = sched, !.prev = prev, !.rdy = rdy,
                     !.bill = bill, !.ran = ran]
  <2>1. Quantum(c) = [c EXCEPT !.sched_ticks = sched, !.prev = prev, !.rdy = rdy]
    BY <1>1 DEF Quantum, Clocks
  <2> HIDE DEF sched, prev, rdy
  <2> DEFINE q == [c EXCEPT !.sched_ticks = sched, !.prev = prev, !.rdy = rdy]
  <2>2. q.server = c.server /\ q.bill = c.bill /\ q.rdy = rdy
    BY <1>1 DEF Clocks
  <2>3. Pick(q) = [q EXCEPT !.bill = bill]
    BY <2>2 DEF Pick
  <2>4. Pick(q).rdy = rdy
    BY <1>1, <2>3 DEF Clocks
  <2>5. c' = [Pick(q) EXCEPT !.pc = "receive", !.ran = ran]
    <3>1. c' = [Pick(q) EXCEPT !.pc = "receive",
                  !.ran = IF ~ (c.rdy # <<>> /\ Pick(q).rdy # <<>> /\ Head(c.rdy) = Head(Pick(q).rdy))
                          THEN 0 ELSE IF Len(c.rdy) < 2 \/ c.server THEN @ ELSE @ + 1]
      BY <2>1 DEF EndOfTick
    <3>2. Pick(q).ran = c.ran
      BY <1>1, <2>3 DEF Clocks
    <3> QED
      BY <2>4, <3>1, <3>2
  <2> QED
    BY <1>1, <2>3, <2>5 DEF Clocks
<1>3. /\ rdy \in Seq(User) /\ Len(rdy) = Len(c.rdy)
      /\ \A i, j \in 1 .. Len(rdy) : rdy[i] = rdy[j] => i = j
      /\ rotate /\ Len(c.rdy) >= 2 => Head(rdy) # Head(c.rdy)
  <2>1. CASE rotate
    BY <1>1, <2>1, Rotated DEF Billed
  <2>2. CASE ~ rotate
    BY <1>1, <2>2 DEF Billed
  <2> QED
    BY <2>1, <2>2
<1>4. rdy # <<>> => Head(rdy) \in User
  BY <1>3, HeadTailProperties
<1>5. rdy = <<>> <=> c.rdy = <<>>
  BY <1>1, <1>3, EmptySeq, LenProperties
<1>6. /\ sched \in 1 .. SCHED_RATE /\ sched \in Nat
      /\ prev \in User \cup {IDLE} /\ ran \in Nat
  BY <1>1, Bounds
<1>7. bill \in User \cup {IDLE}
  BY <1>1, <1>4
<1>8. /\ ~ c.server => bill = IF rdy = <<>> THEN IDLE ELSE Head(rdy)
      /\ c.server => bill = c.bill
      /\ ~ rotate => rdy = c.rdy
  OBVIOUS
<1> HIDE DEF rdy, bill
<1>9. ran > 0 => /\ Len(rdy) >= 2 /\ bill = Head(rdy)
                 /\ ran <= SCHED_RATE - sched + IF prev = bill THEN SCHED_RATE ELSE 0
  <2> SUFFICES ASSUME ran > 0
               PROVE  /\ Len(rdy) >= 2 /\ bill = Head(rdy)
                      /\ ran <= SCHED_RATE - sched + IF prev = bill THEN SCHED_RATE ELSE 0
    OBVIOUS
  <2>1. stays /\ (alone => c.ran > 0)
    <3> HIDE DEF stays, alone
    <3> QED
      OBVIOUS
  <2>2. Len(c.rdy) >= 2
    BY <1>1, <2>1 DEF Shares
  <2>3. ~ rotate /\ rdy = c.rdy
    BY <1>3, <1>8, <2>1, <2>2
  <2>4. c.bill = Head(c.rdy) /\ bill = c.bill
    BY <1>1, <1>8, <2>1, <2>2, <2>3 DEF Shares, Billed
  <2>5. over => c.bill # c.prev
    BY <2>1, <2>3
  <2>6. c.ran <= SCHED_RATE - c.sched_ticks + IF c.prev = c.bill THEN SCHED_RATE ELSE 0
    BY <1>1, Bounds DEF Shares
  <2>7. ran <= c.ran + 1 /\ (c.server => ran = c.ran)
    <3>1. c.server => alone
      OBVIOUS
    <3> HIDE DEF stays, alone
    <3> QED
      BY <1>1, <2>1, <3>1
  <2> HIDE DEF stays, alone, ran
  <2>8. CASE over
    <3>1. sched = SCHED_RATE /\ prev = bill /\ c.sched_ticks = 1
      BY <2>4, <2>8
    <3>2. c.ran <= SCHED_RATE - 1
      BY <1>1, <2>4, <2>5, <2>6, <2>8, Bounds
    <3>3. ran <= SCHED_RATE - sched + SCHED_RATE
      BY <1>1, <1>6, <2>7, <3>1, <3>2, Bounds
    <3> QED
      BY <2>2, <2>3, <2>4, <3>1, <3>3
  <2>9. CASE ~ over
    <3>1. sched = c.sched_ticks - 1 /\ prev = c.prev
      BY <2>9
    <3> DEFINE more == IF c.prev = c.bill THEN SCHED_RATE ELSE 0
    <3>2. more \in Nat /\ c.ran <= SCHED_RATE - c.sched_ticks + more
      BY <2>6, Bounds
    <3>3. (IF prev = bill THEN SCHED_RATE ELSE 0) = more
      BY <2>4, <3>1
    <3> HIDE DEF more
    <3>4. c.ran \in Nat /\ c.sched_ticks \in Nat /\ ran \in Nat /\ SCHED_RATE \in Nat
      BY <1>1, <1>6, Bounds
    <3>5. ran <= SCHED_RATE - sched + more
      BY <2>7, <3>1, <3>2, <3>4
    <3> QED
      BY <2>2, <2>3, <2>4, <3>3, <3>5
  <2> QED
    BY <2>8, <2>9
<1> HIDE DEF sched, prev, ran
<1>10. /\ c' \in Clocks
       /\ c'.rdy = rdy /\ c'.bill = bill /\ c'.prev = prev /\ c'.server = c.server
       /\ c'.ran = ran /\ c'.sched_ticks = sched
  BY <1>1, <1>2, <1>3, <1>6, <1>7 DEF Clocks, Pc
<1>11. /\ c'.pc = "receive" /\ c'.realtime = c.realtime /\ c'.lost = c.lost /\ c'.t = c.t
       /\ c'.ticks = c.ticks /\ c'.alarm = c.alarm /\ c'.next_alarm = c.next_alarm
  BY <1>1, <1>2 DEF Clocks
<1>12. TimeInv'
  BY <1>1, <1>10, <1>11, TimeSame
<1>13. ShareInv'
  BY <1>3, <1>9, <1>8, <1>10 DEF ShareInv, Billed, Shares
<1> QED
  BY <1>12, <1>13

\* Users and servers, between two messages to the clock task.
LEMMA ShareMessages ==
  ASSUME TimeInv, ShareInv, Call \/ ServerRuns \/ Answer \/ ServerWaits
  PROVE  TimeInv' /\ ShareInv'
<1>1. /\ c \in Clocks /\ Billed /\ Shares
      /\ c.rdy \in Seq(User) /\ c.ran \in Nat /\ c.server \in BOOLEAN
      /\ c.bill \in User \cup {IDLE} /\ Len(c.rdy) \in Nat
  BY LenProperties DEF ShareInv, Clocks
<1>2. CASE Call
  <2>1. c' = [c EXCEPT !.rdy = Tail(@), !.server = TRUE, !.ran = 0]
    BY <1>2 DEF Call
  <2>2. c.rdy # <<>>
    BY <1>2 DEF Call
  <2>3. c.rdy \in Seq(User)
    BY <1>1
  <2>4. /\ Tail(c.rdy) \in Seq(User) /\ Len(Tail(c.rdy)) = Len(c.rdy) - 1
        /\ \A i \in 1 .. Len(Tail(c.rdy)) : Tail(c.rdy)[i] = c.rdy[i + 1]
    BY <2>2, <2>3, HeadTailProperties
  <2>5. \A i, j \in 1 .. Len(Tail(c.rdy)) : Tail(c.rdy)[i] = Tail(c.rdy)[j] => i = j
    BY <1>1, <2>4 DEF Billed
  <2>6. c' \in Clocks /\ c'.rdy = Tail(c.rdy) /\ c'.server = TRUE /\ c'.ran = 0
    BY <1>1, <2>1, <2>4 DEF Clocks
  <2>7. /\ c'.pc = c.pc /\ c'.realtime = c.realtime /\ c'.lost = c.lost /\ c'.t = c.t
        /\ c'.ticks = c.ticks /\ c'.alarm = c.alarm /\ c'.next_alarm = c.next_alarm
    BY <1>1, <2>1 DEF Clocks
  <2>8. ShareInv'
    BY <2>5, <2>6 DEF ShareInv, Billed, Shares
  <2>9. TimeInv'
    BY <2>6, <2>7, TimeSame
  <2> QED
    BY <2>8, <2>9
<1>3. CASE ServerRuns
  <2>1. c' = [c EXCEPT !.server = TRUE]
    BY <1>3 DEF ServerRuns
  <2>2. /\ c' \in Clocks /\ c'.server = TRUE /\ c'.rdy = c.rdy /\ c'.ran = c.ran
        /\ c'.bill = c.bill /\ c'.prev = c.prev /\ c'.sched_ticks = c.sched_ticks
    BY <1>1, <2>1 DEF Clocks
  <2>3. /\ c'.pc = c.pc /\ c'.realtime = c.realtime /\ c'.lost = c.lost /\ c'.t = c.t
        /\ c'.ticks = c.ticks /\ c'.alarm = c.alarm /\ c'.next_alarm = c.next_alarm
    BY <1>1, <2>1 DEF Clocks
  <2>4. ShareInv'
    BY <1>1, <2>2 DEF ShareInv, Billed, Shares
  <2>5. TimeInv'
    BY <2>2, <2>3, TimeSame
  <2> QED
    BY <2>4, <2>5
<1>4. CASE Answer
  <2>1. PICK p \in User \ Range(c.rdy) : c.server /\ c' = [c EXCEPT !.rdy = Append(@, p)]
    BY <1>4 DEF Answer
  <2> DEFINE r == Append(c.rdy, p)
  <2>2. /\ r \in Seq(User) /\ Len(r) = Len(c.rdy) + 1 /\ r[Len(c.rdy) + 1] = p
        /\ \A i \in 1 .. Len(c.rdy) : r[i] = c.rdy[i]
    BY <1>1, AppendProperties
  <2>3. \A i \in 1 .. Len(c.rdy) : c.rdy[i] # p
    BY <1>1, LenProperties DEF Range
  <2> HIDE DEF r
  <2>4. \A i, j \in 1 .. Len(r) : r[i] = r[j] => i = j
    BY <1>1, <2>2, <2>3 DEF Billed
  <2>5. /\ c' \in Clocks /\ c'.server = c.server /\ c'.rdy = r /\ c'.ran = c.ran
        /\ c'.bill = c.bill /\ c'.prev = c.prev /\ c'.sched_ticks = c.sched_ticks
    BY <1>1, <2>1, <2>2 DEF Clocks, r
  <2>6. /\ c'.pc = c.pc /\ c'.realtime = c.realtime /\ c'.lost = c.lost /\ c'.t = c.t
        /\ c'.ticks = c.ticks /\ c'.alarm = c.alarm /\ c'.next_alarm = c.next_alarm
    BY <1>1, <2>1 DEF Clocks
  <2>7. Len(c.rdy) >= 2 => Len(r) >= 2 /\ Head(r) = Head(c.rdy)
    BY <1>1, <2>2
  <2>8. Billed'
    BY <2>1, <2>4, <2>5 DEF Billed
  <2>9. Shares'
    BY <1>1, <2>5, <2>7 DEF Shares
  <2>10. TimeInv'
    BY <2>5, <2>6, TimeSame
  <2> QED
    BY <2>5, <2>8, <2>9, <2>10 DEF ShareInv
<1>5. CASE ServerWaits
  <2> DEFINE bill == IF c.rdy = <<>> THEN IDLE ELSE Head(c.rdy)
  <2>1. c' = [c EXCEPT !.server = FALSE, !.bill = bill]
    BY <1>1, <1>5 DEF ServerWaits, Pick, Clocks
  <2>2. bill \in User \cup {IDLE}
    BY <1>1, HeadTailProperties
  <2>3. c.ran > 0 => bill = c.bill
    BY <1>1 DEF Shares
  <2> HIDE DEF bill
  <2>4. /\ c' \in Clocks /\ c'.server = FALSE /\ c'.rdy = c.rdy /\ c'.ran = c.ran
        /\ c'.bill = bill /\ c'.prev = c.prev /\ c'.sched_ticks = c.sched_ticks
    BY <1>1, <2>1, <2>2 DEF Clocks
  <2>5. /\ c'.pc = c.pc /\ c'.realtime = c.realtime /\ c'.lost = c.lost /\ c'.t = c.t
        /\ c'.ticks = c.ticks /\ c'.alarm = c.alarm /\ c'.next_alarm = c.next_alarm
    BY <1>1, <2>1 DEF Clocks
  <2>6. Billed'
    BY <1>1, <2>4 DEF Billed, bill
  <2>7. Shares'
    BY <1>1, <2>3, <2>4 DEF Shares
  <2>8. TimeInv'
    BY <2>4, <2>5, TimeSame
  <2> QED
    BY <2>4, <2>6, <2>7, <2>8 DEF ShareInv
<1> QED
  BY <1>2, <1>3, <1>4, <1>5
-----------------------------------------------------------------------------
(* The theorems.                                                           *)

LEMMA InvariantNext == ClockInv /\ [Next]_c => ClockInv'
<1> SUFFICES ASSUME TimeInv, ShareInv, [Next]_c PROVE TimeInv' /\ ShareInv'
  BY DEF ClockInv, TimeInv, ShareInv
<1>1. CASE interrupt \/ CopyLost \/ AddTicks \/ SubtractLost \/ Alarms \/ do_setalarm \/ Fork \/ TurnOff
  <2>1. TimeInv'
    BY <1>1, TimeTick, TimeAlarms, TimeMessages
  <2>2. /\ c'.rdy = c.rdy /\ c'.bill = c.bill /\ c'.prev = c.prev /\ c'.server = c.server
        /\ c'.ran = c.ran /\ c'.sched_ticks = c.sched_ticks
    <3>1. c \in Clocks
      BY DEF ShareInv
    <3>2. CASE interrupt
      BY <3>1, <3>2 DEF Clocks, interrupt, To
    <3>3. CASE CopyLost \/ AddTicks
      BY <3>1, <3>3 DEF Clocks, CopyLost, AddTicks, To
    <3>4. CASE SubtractLost
      BY <3>1, <3>4 DEF Clocks, SubtractLost, Seen
    <3>5. CASE Alarms
      BY <3>1, <3>5 DEF Clocks, Alarms, To
    <3>6. CASE do_setalarm
      BY <3>1, <3>6 DEF Clocks, do_setalarm
    <3>7. CASE Fork \/ TurnOff
      BY <3>1, <3>7 DEF Clocks, Fork, TurnOff
    <3> QED
      BY <1>1, <3>2, <3>3, <3>4, <3>5, <3>6, <3>7
  <2> QED
    BY <2>1, <2>2, ShareSame DEF TimeInv
<1>2. CASE EndOfTick
  BY <1>2, ShareEnd
<1>3. CASE Call \/ ServerRuns \/ Answer \/ ServerWaits
  BY <1>3, ShareMessages
<1>4. CASE UNCHANGED c
  BY <1>4 DEF TimeInv, ShareInv, Copied, TicksCounted, NextIsFirst, Punctual, Billed, Shares
<1> QED
  BY <1>1, <1>2, <1>3, <1>4 DEF Next

\* Every step of the clock task, of interrupts, users and servers keeps the invariant.
THEOREM Invariant == Spec => []ClockInv
<1>1. Init => ClockInv
  BY TimeInit, ShareInit DEF ClockInv, TimeInv, ShareInv
<1> QED
  BY <1>1, InvariantNext, PTL DEF Spec

\* No clock interrupt is lost or counted twice, however many come while do_clocktick() is
\* busy with lost_ticks; no alarm is overdue when the task waits again, although fork, exec
\* and exit change alarms behind its back; and sched() lets nobody run for more than two
\* quanta while another user is ready.
THEOREM TimeIsKept == Spec => []TimeKept
<1>1. ClockInv => TypeOK
  <2> SUFFICES ASSUME ClockInv PROVE TypeOK
    OBVIOUS
  <2>1. c \in Clocks
    BY DEF ClockInv
  <2>2. Range(c.rdy) \subseteq User
    BY <2>1, LenProperties DEF Clocks, Range
  <2> QED
    BY <2>1, <2>2 DEF TypeOK, Clocks, Pc
<1>2. ClockInv => NoneOverdue
  BY DEF ClockInv, NoneOverdue, Waits, NextIsFirst, Punctual
<1>3. ClockInv => TimeShared
  <2> SUFFICES ASSUME ClockInv PROVE c.ran <= 2 * SCHED_RATE
    BY DEF TimeShared
  <2>1. c.ran \in Nat /\ c.sched_ticks \in Nat /\ c.sched_ticks >= 1 /\ SCHED_RATE \in Nat
    BY Bounds DEF ClockInv, Clocks
  <2>2. c.ran > 0 => c.ran <= SCHED_RATE - c.sched_ticks + IF c.prev = c.bill THEN SCHED_RATE ELSE 0
    BY DEF ClockInv, Shares
  <2> QED
    BY <2>1, <2>2
<1>4. ClockInv => TicksCounted
  BY DEF ClockInv
<1> QED
  BY <1>1, <1>2, <1>3, <1>4, Invariant, PTL DEF TimeKept
=============================================================================
