------------------------------ MODULE MCMemory ------------------------------
(***************************************************************************)
(* Small instances of what happens to memory: Core, which clicks a process *)
(* gets; Copies, which bytes are moved to them and from them; and MM, who  *)
(* gives them back.  They meet in the process table only, which each sees  *)
(* from one side, so that one run takes them one after the other: "on"     *)
(* says which one a behaviour is about.                                    *)
(***************************************************************************)
EXTENDS Core

VARIABLES on, k, mm, work

all == <<on, k, mm, work, mem, mp_seg, result>>

prog(sep, text, data, tot, stk) ==
  [sep |-> sep, text |-> text, data |-> data, tot |-> tot, stk |-> stk]

\* Separate and combined, with and without a gap, with odd ends of clicks.
Files == {prog(TRUE, 16, 8, 32, 16), prog(FALSE, 8, 24, 48, 12), prog(FALSE, 16, 0, 32, 16)}
-----------------------------------------------------------------------------
\* Alarms go off, and INIT collects what is left.
Reaped == INSTANCE MM WITH
  NR_PROCS <- 5, LAST_FEW <- 1, MaxPid <- 5, Signals <- {14}, Uids <- {}, SetuidFiles <- {},
  Ttys <- {}, Calls <- {"FORK", "EXIT", "WAIT", "ALARM"}, MaxDrift <- 1, RootKillsAll <- FALSE
-----------------------------------------------------------------------------
\* A memory of 72 words, of which MM has 8 to 13 and FS the next 16 or those after them.
Word == [a \in 0 .. 71 |-> IF a % 5 = 0 THEN 0 ELSE a]
FirstMap0 == [T |-> [vir |-> 0, phys |-> 0, len |-> 1], D |-> [vir |-> 0, phys |-> 1, len |-> 1],
              S |-> [vir |-> 4, phys |-> 5, len |-> 1]]

binary(text, data, bss) == [text |-> text, data |-> data, bss |-> bss, total |-> 5]

\* Buffers across the gap, at the end of the stack, and of one byte; blocks of the RAM disk,
\* the last in part, and of a device that ends there.
Asked ==
  [chunks |-> {<<0, 4, 0>>, <<1, 3, 1>>, <<10, 1, 0>>, <<63, 3, 0>>},
   device |-> {<<0, 4, 1>>, <<2, 3, 0>>, <<3, 1, 12>>},
   blocks |-> {<<231, 232, 233, 234>>}, clicks |-> {1, 3}, stacks |-> {<<3, 4>>},
   signals |-> {1}]

Copied == INSTANCE Copies WITH
  CLICK_SIZE <- 2, WORD <- 64, UNIT <- 8, Page <- 16,
  Given <- Word,
  BASE <- 1, sizes <- <<1, 2>>, MmClick <- 4, MmLen <- 3, FsLen <- 8, Bases <- {7, 12},
  BLOCK_SIZE <- 4, NR_BUFS <- 3, Header <- 1, SIG_PUSH_BYTES <- 4, ZEROBUF_SIZE <- 2,
  MAX_ISTACK_BYTES <- 4, User <- {"u1", "u2"}, First <- "u1", Areas <- {20, 26},
  FirstMap <- FirstMap0, RamFirst <- 32, RamBlocks <- 1, MEM_BYTES <- 70,
  File <- {binary(<<>>, <<201, 202, 203>>, 1), binary(<<211, 212>>, <<221, 222, 223>>, 2)},
  Requests <- Asked, MaxCalls <- 3, Careful <- TRUE

\* Signals and forks only.
Caught == INSTANCE Copies WITH
  CLICK_SIZE <- 2, WORD <- 64, UNIT <- 8, Page <- 16,
  Given <- Word,
  BASE <- 1, sizes <- <<1, 2>>, MmClick <- 4, MmLen <- 3, FsLen <- 8, Bases <- {7, 12},
  BLOCK_SIZE <- 4, NR_BUFS <- 3, Header <- 1, SIG_PUSH_BYTES <- 4, ZEROBUF_SIZE <- 2,
  MAX_ISTACK_BYTES <- 4, User <- {"u1", "u2"}, First <- "u1", Areas <- {20, 26},
  FirstMap <- FirstMap0, RamFirst <- 32, RamBlocks <- 1, MEM_BYTES <- 70,
  File <- {binary(<<>>, <<201, 202, 203>>, 1), binary(<<211, 212>>, <<221, 222, 223>>, 2)},
  Requests <- [Asked EXCEPT !.chunks = {}, !.device = {}], MaxCalls <- 4, Careful <- FALSE
-----------------------------------------------------------------------------
NoMemory == mem = "off" /\ mp_seg = "off" /\ result = "off"
NoProcesses == mm = "off" /\ work = "off"

InitAll ==
  \/ on = "clicks" /\ Init /\ NoProcesses /\ k = "off"
  \/ on = "bytes" /\ Copied!Init /\ NoProcesses /\ NoMemory
  \/ on = "reaped" /\ Reaped!Init /\ NoMemory /\ k = "off"

Scheduled(A) == on = "reaped" /\ A /\ UNCHANGED <<on, k, mem, mp_seg, result>>

NextAll ==
  \/ on = "clicks" /\ Next /\ UNCHANGED <<on, k, mm, work>>
  \/ on = "bytes" /\ Copied!Next /\ UNCHANGED <<on, mm, work, mem, mp_seg, result>>
  \/ Scheduled(Reaped!Next)

\* The fairness is MM's (FairSpec).
System ==
  /\ InitAll /\ [][NextAll]_all
  /\ WF_all(Scheduled(Reaped!MMStep))
  /\ SF_all(Scheduled(Reaped!get_work /\ work' = Reaped!Serving(Reaped!INIT_PROC_NR)))
  /\ WF_all(Scheduled(Reaped!user_call(Reaped!INIT_PROC_NR)))
  /\ WF_all(Scheduled(Reaped!fs_reply(Reaped!INIT_PROC_NR)))
  /\ SF_all(Scheduled(Reaped!do_wait(Reaped!INIT_PROC_NR)))

\* Handlers that may fork.
Handlers ==
  /\ on = "bytes" /\ Caught!Init /\ NoProcesses /\ NoMemory
  /\ [][Caught!Next /\ UNCHANGED <<on, mm, work, mem, mp_seg, result>>]_all
-----------------------------------------------------------------------------
\* Once forks stop, every dead child of INIT is collected (do_wait() of forkexit.c).
OrphansCollected ==
  \/ []<><<\E p \in Reaped!User : on = "reaped" /\ Reaped!do_fork(p)>>_all
  \/ \A p \in Reaped!User \ {Reaped!INIT_PROC_NR} :
       (on = "reaped" /\ Reaped!Orphaned(p)) ~> (on = "reaped" /\ ~ Reaped!Zombie(mm, p))

\* The hole table and the segments describe memory: every slot is in one list, the holes are
\* in order, each click is in one hole or one image, and the segments lie in the images, with
\* three routines that each compute the size of an image in their own way; and MM never
\* panics: EXEC finds the memory that max_hole() promised before the old image was given up
\* (alloc.c, forkexit.c, exec.c, break.c).
ImagesWhole ==
  on = "clicks" =>
    TypeOK /\ SlotsListed /\ HolesOrdered /\ ClicksAccounted /\ SegmentsInside /\ NeverPanics

\* The pointers of alloc.c implement the set of holes.
Holed == INSTANCE HoleSet WITH
  holes  <- IF on = "clicks" THEN {HoleOf(hp) : hp \in ToSet(HoleList(mem))}
            ELSE {piece(NrReserved, NrClicks - NrReserved)},
  blocks <- IF on = "clicks"
            THEN {BlockOf(p) : p \in {q \in User \ {INIT_PROC_NR} : InUse(q)}} \cup {Reserved}
            ELSE {Reserved},
  result <- IF on = "clicks" THEN result ELSE "OK"

ImplementsHoles == Holed!Spec

\* A process runs with the registers of its own map, and nothing makes the kernel panic: a
\* block of a diskette never goes to a buffer that the DMA chip cannot reach, nor a signal to
\* a bad stack pointer (alloc_segments in do_newmap(), build_sig(), buf_pool(), dma_setup()).
RunsInItsOwn == on = "bytes" => Copied!RunsInItsOwn /\ Copied!NoPanic

\* fork() in a handler: "when the function returns ..., control is passed back to where it
\* was prior to the signal" (klib88.asm), in the child too.
ForkedRunsInItsOwn == on = "bytes" => Caught!RunsInItsOwn

\* Every request moves just the bytes it names, between the right spaces, whatever round,
\* paragraph, gap or page they lie in; a handler returns to what was interrupted
\* (phys_copy(), umap(), do_copy(), do_mem(), load_seg(), patch_ptr()).
Spaced == INSTANCE Spaces WITH
  Text <- LAMBDA f : f.text, Data <- LAMBDA f : f.data,
  Extent <- LAMBDA d : Copied!Devices.limit[d] - Copied!Devices.org[d],
  space <- IF on = "bytes" THEN [s \in Copied!Keys |-> Copied!SpaceOf(s)] ELSE <<>>,
  context <- IF on = "bytes" THEN [p \in {"u1", "u2"} |-> Copied!ContextOf(p)] ELSE <<>>,
  saved <- IF on = "bytes" THEN [p \in {"u1", "u2"} |-> Copied!SavedOf(p)] ELSE <<>>,
  did <- IF on = "bytes" THEN k.did ELSE [op |-> "none"]

ImplementsSpaces == Spaced!Spec
=============================================================================
