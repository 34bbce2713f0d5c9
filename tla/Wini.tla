--------------------------------- MODULE Wini -------------------------------
(***************************************************************************)
(* The winchester task (kernel/wini.c): partitions are read from the disk, *)
(* put on block boundaries and sorted; a request that fails is tried again *)
(* after a reset of the controller, which forgets the drives' parameters.  *)
(* What the controller answers is chosen freely.                           *)
(***************************************************************************)
EXTENDS Integers, Sequences, FiniteSets, FiniteSetsExt

CONSTANTS NR_DRIVES, Heads, MaxSec, Cylinders,    \* the drives, as the BIOS tells it
          MAX_ERRORS,
          Tables,           \* bound: partition tables, four records of a start and a size
          Blocks            \* bound: the blocks of a device that are asked for

DEV_PER_DRIVE == 5
SECTORS == 2                \* BLOCK_SIZE/SECTOR_SIZE
Drive == 0 .. NR_DRIVES - 1
Device == 0 .. NR_DRIVES * DEV_PER_DRIVE - 1
NoPartition == [low |-> 0, size |-> 0]

VARIABLE w    \* the task: where it is, its request, wini[]; the tables on the disks; which
              \* drives' parameters the controller knows, and the sectors it moved last

TypeOK ==
  /\ w.pc \in {"probe", "boot", "idle", "loop", "reset", "specify", "wait_specify", "command",
               "wait", "end"}
  /\ w.device \in Device /\ w.errors \in 0 .. MAX_ERRORS + 1 /\ w.left \in 0 .. SECTORS
  /\ w.probing \in Drive \cup {NR_DRIVES} /\ w.drives \in 0 .. NR_DRIVES
  /\ w.specified \subseteq Drive /\ w.need_reset \in BOOLEAN
  /\ DOMAIN w.wini = Device /\ w.moved \in Seq(Int)

Start == [cylinder |-> 0, head |-> 0, sector |-> 1]

\* The whole disk is device 0 of a drive.
Whole == [low |-> 0, size |-> Cylinders * Heads * MaxSec]

Init ==
  \E disk \in [Drive -> Tables] :
    w = [pc |-> "probe", device |-> 0, block |-> 0, at |-> Start,
         errors |-> 0, left |-> 0, ok |-> FALSE, moved |-> <<>>,
         need_reset |-> FALSE, todo |-> <<>>, specified |-> {}, booting |-> TRUE,
         probing |-> 0, drives |-> NR_DRIVES, disk |-> disk,
         wini |-> [d \in Device |-> IF d % DEV_PER_DRIVE = 0 THEN Whole ELSE NoPartition]]

To(pc) == [w EXCEPT !.pc = pc]
-----------------------------------------------------------------------------
(* The partition tables.                                                   *)

\* The start goes up to a whole block.
Aligned(part) ==
  LET adjust == part.low % SECTORS
  IN  [low |-> part.low + adjust, size |-> part.size - adjust]

\* Two neighbours stand the wrong way around; empty ones come last.
Swapped(a, b) == b.low # 0 /\ (a.low = 0 \/ a.low > b.low)

\* One pass of the bubble sort, of the first j comparisons.
Pass(parts) ==
  LET f[j \in 0 .. 3] ==
        IF j = 0 THEN parts
        ELSE LET s == f[j - 1]
             IN  IF Swapped(s[j], s[j + 1])
                 THEN [s EXCEPT ![j] = s[j + 1], ![j + 1] = s[j]] ELSE s
  IN  f[3]

sort(parts) == Pass(Pass(Pass(Pass(parts))))

copy_prt(wini, drive, table) ==
  LET parts == sort([i \in 1 .. 4 |-> Aligned(table[i])])
  IN  [d \in Device |-> IF d \div DEV_PER_DRIVE = drive /\ d % DEV_PER_DRIVE # 0
                        THEN parts[d % DEV_PER_DRIVE] ELSE wini[d]]
-----------------------------------------------------------------------------
(* A request, and what init_params() asks of the task itself.              *)

Position(sector) ==
  [cylinder |-> sector \div (Heads * MaxSec), sector |-> (sector % MaxSec) + 1,
   head |-> (sector % (Heads * MaxSec)) \div MaxSec]

\* A request beyond the end of the device fails at once.
Ask(s, device, block) ==
  LET sector == block * SECTORS
      part   == s.wini[device]
  IN  IF sector + SECTORS > part.size THEN [s EXCEPT !.pc = "end", !.device = device, !.ok = FALSE]
      ELSE [s EXCEPT !.pc = "loop", !.device = device, !.block = block,
                     !.errors = 0, !.ok = FALSE, !.moved = <<>>,
                     !.at = Position(part.low + sector)]

w_do_rdwt ==
  \E device \in Device, block \in Blocks :
    /\ w.pc = "idle" /\ device \div DEV_PER_DRIVE < w.drives     \* otherwise EIO
    /\ w' = Ask(w, device, block)

Tried(s) == [s EXCEPT !.errors = @ + 1]

Attempt ==
  LET u == Tried(w)
  IN  /\ w.pc = "loop"
      /\ w' = IF u.errors > MAX_ERRORS THEN To("end")
              ELSE [u EXCEPT !.pc = IF w.need_reset THEN "reset" ELSE "command"]

\* In the end of a reset the request goes on, or init_params().
Continue == IF w.booting THEN "boot" ELSE "command"

Fail == [To("loop") EXCEPT !.need_reset = TRUE]

\* win_init() is a series of commands for the drives.
Commands == [i \in 1 .. 2 * NR_DRIVES |-> IF i <= NR_DRIVES THEN i - 1 ELSE NR_DRIVES]

\* The strobe; then the drive is not busy and has no error, or no reset took place.
w_reset ==
  /\ w.pc = "reset"
  /\ \/ w' = [To("specify") EXCEPT !.need_reset = FALSE, !.specified = {}, !.todo = Commands]
     \/ w' = [To(Continue) EXCEPT !.need_reset = TRUE, !.specified = {}]

\* w_do_rdwt() does not look at what w_reset() returns.
Unspecified == [To(Continue) EXCEPT !.need_reset = TRUE]

win_init ==
  /\ w.pc = "specify"
  /\ IF w.todo = <<>> THEN w' = To(Continue)
     ELSE w' = To("wait_specify") \/ w' = Unspecified

SpecifyDone ==
  /\ w.pc = "wait_specify"
  /\ \/ w' = Unspecified
     \/ w' = [To("specify") EXCEPT !.todo = Tail(@),
                !.specified = IF w.todo[1] \in Drive THEN @ \cup {w.todo[1]} ELSE @]

\* com_out(): the drive is busy, or does not want data; or the buffer's address is wrong,
\* for which the controller need not be reset.
w_transfer ==
  /\ w.pc = "command"
  /\ \/ w' = Fail
     \/ w' = To("loop")
     \/ w' = [To("wait") EXCEPT !.left = SECTORS, !.moved = <<>>]

\* Without the parameters the controller takes another sector for the one it is told, -1.
Specified(s) == s.device \div DEV_PER_DRIVE \in s.specified
Moves(s) ==
  IF Specified(s)
  THEN (s.at.cylinder * Heads + s.at.head) * MaxSec + s.at.sector - 1 + Len(s.moved) ELSE -1

\* An interrupt for every sector.  A busy controller passes for one without errors.
Sector ==
  /\ w.pc = "wait"
  /\ \/ w' = Fail
     \/ w' = [w EXCEPT !.moved = Append(@, Moves(w)), !.left = @ - 1,
                       !.ok = (w.left = 1), !.pc = IF w.left = 1 THEN "end" ELSE "wait"]
-----------------------------------------------------------------------------
(* Start, and the end of a request.                                        *)

\* init_params(): a reset; without one there are no drives.
Probe == w.pc = "probe" /\ w' = To("reset")

Boot ==
  /\ w.pc = "boot"
  /\ w' = IF w.need_reset THEN [To("idle") EXCEPT !.drives = 0, !.booting = FALSE]
          ELSE [Ask(w, 0, 0) EXCEPT !.booting = FALSE]

\* The table is taken when it could be read and is valid (no other sector looks like one); the
\* next drive follows.
Table ==
  LET next == w.probing + 1
      \* Is there another drive?
      Further(s) ==
        IF next = NR_DRIVES THEN [s EXCEPT !.pc = "idle", !.probing = NR_DRIVES]
        ELSE [Ask(s, next * DEV_PER_DRIVE, 0) EXCEPT !.probing = next]
  IN  /\ w.pc = "end" /\ w.probing < NR_DRIVES
      /\ \/ w' = Further(w)
         \/ w.ok /\ w.moved[1] = 0 /\ w' = Further([w EXCEPT !.wini = copy_prt(@, w.probing, w.disk[w.probing])])

\* What the next request sets anew is forgotten.
Reply ==
  /\ w.pc = "end" /\ w.probing = NR_DRIVES
  /\ w' = [To("idle") EXCEPT !.device = 0, !.block = 0, !.at = Start, !.errors = 0, !.left = 0,
                             !.ok = FALSE, !.moved = <<>>]

Steps ==
  \/ Probe \/ Boot \/ Table \/ Attempt \/ w_reset \/ win_init \/ SpecifyDone \/ w_transfer
  \/ Sector \/ Reply

Next == Steps \/ w_do_rdwt

\* The controller interrupts after every command that it took.
Spec == Init /\ [][Next]_w /\ WF_w(Steps)
-----------------------------------------------------------------------------
\* The table's partitions in the order of their starts, the empty ones last.
Ordered(table) ==
  LET Before(i, j) == (table[i].low # 0 /\ (table[j].low = 0 \/ table[i].low < table[j].low))
                      \/ (table[i].low = table[j].low /\ i < j)
  IN  [n \in 1 .. 4 |-> table[CHOOSE i \in 1 .. 4 : Cardinality({j \in 1 .. 4 : Before(j, i)}) = n - 1]]

\* The sectors that a device stands for (copy_prt(), sort()).
PartitionOf(device) ==
  IF device % DEV_PER_DRIVE = 0 THEN Whole
  ELSE Ordered(w.disk[device \div DEV_PER_DRIVE])[device % DEV_PER_DRIVE]

\* What is reported as done was done with neighbouring sectors inside the partition that the
\* device is, the same ones for a block every time, whatever failed before: transfers, resets, or
\* reading a table.  Transfers for a drive whose parameters got lost are the known fault.
RightSectors ==
  w.pc = "end" /\ w.ok /\ Specified(w) =>
    LET part  == PartitionOf(w.device)
        first == part.low + (part.low % SECTORS) + w.block * SECTORS
    IN  /\ w.moved = [i \in 1 .. SECTORS |-> first + i - 1]
        /\ first + SECTORS <= part.low + part.size

\* A request is given up some time (MAX_ERRORS).
Answered == w.pc # "idle" ~> w.pc = "idle"
=============================================================================
