------------------------------- MODULE MCDisks ------------------------------
(***************************************************************************)
(* Small instances of what is on a disk: FsUtils, the files of an image as *)
(* the host's programs make and change it, Cache, the blocks between MINIX *)
(* and its disk, and Build, the boot diskette.  They share no state, so    *)
(* that one run takes them one after the other: "on" says which one a      *)
(* behaviour is about; of Build, which has an end, it is the first state   *)
(* in the others.                                                          *)
(***************************************************************************)
EXTENDS FsUtils, Build

VARIABLES on, c, open

all == <<on, c, open, s, done, made>>
-----------------------------------------------------------------------------
(* An image with blocks of three entries, files of up to seven blocks, a   *)
(* file and a device that mkfs put there.                                  *)

Short == <<Entry("data", 11), Entry("data", 12)>>
Long == [n \in 1 .. 10 |-> Entry("data", n)]

Given1 == <<[name |-> "a", data |-> Long]>>
Terminal == [name |-> "tty", number |-> 1]
SomePaths == {<<"a">>, <<"b">>, <<"bin">>, <<"d">>, <<"d", "a">>, <<"dev", "tty">>}
ShortAndLong == {Short, Long}
-----------------------------------------------------------------------------
(* Three buffers, and no reads beyond the end of the disk.  What the super *)
(* block and the maps hold matters to others; here it is whether they are  *)
(* in the cache.                                                           *)

Values(block) == IF block \in {3, 4} THEN {0, 1} ELSE {0}

Buffers == INSTANCE Cache WITH
  NR_BUFS <- 3, NR_BUF_HASH <- 3, RESERVE <- 1, SUPER_BLOCK <- 1, MapBlock <- {2},
  InodeBlock <- {3}, DataBlock <- {4}, Beyond <- {}, Val <- Values, Zeros <- 0, MaxHeld <- 1
-----------------------------------------------------------------------------
(* Programs with common and separate spaces, with no, few and many zeros   *)
(* to fill them up, with an odd text, without data or text, and without    *)
(* the magic number.                                                       *)

Program(text, data, bss, sep, magic) ==
  [text |-> text, data |-> data, bss |-> bss, sep |-> sep, magic |-> magic]

SomePrograms == [p \in PROGRAMS |->
  CASE p = KERN -> {Program(16, 16, 5, FALSE, TRUE), Program(16, 32, 0, TRUE, TRUE),
                    Program(9, 17, 6, FALSE, TRUE), Program(16, 16, 0, TRUE, FALSE)}
    [] p = MM   -> {Program(16, 5, 6, FALSE, TRUE), Program(32, 2, 16, TRUE, TRUE),
                    Program(8, 2, 0, FALSE, FALSE)}
    [] p = FS   -> {Program(16, 20, 7, TRUE, TRUE), Program(3, 16, 0, FALSE, TRUE),
                    Program(3, 16, 0, TRUE, TRUE)}
    [] p = INIT -> {Program(16, 4, 0, TRUE, FALSE), Program(5, 4, 3, FALSE, FALSE),
                    Program(0, 0, 0, TRUE, FALSE)}
    [] p = FSCK -> {Program(16, 4, 0, TRUE, FALSE), Program(5, 4, 50, FALSE, FALSE)}]
-----------------------------------------------------------------------------
InitAll ==
  \/ on = "cache" /\ Buffers!Init /\ s = "off" /\ done = 0 /\ BuildInit
  \/ on = "image" /\ Init /\ c = "off" /\ open = FALSE /\ BuildInit
  \/ on = "build" /\ BuildInit /\ s = "off" /\ done = 0 /\ c = "off" /\ open = FALSE

NextAll ==
  \/ on = "cache" /\ Buffers!Next /\ UNCHANGED <<on, s, done, made>>
  \/ on = "image" /\ Next /\ UNCHANGED <<on, c, open, made>>
  \/ on = "build" /\ BuildNext /\ UNCHANGED <<on, s, done, c, open>>

System == InitAll /\ [][NextAll]_all
-----------------------------------------------------------------------------
\* Both kinds of chains are whole, no block has two buffers, whose writes would get lost,
\* and the count of buffers in use is right (get_block(), put_block(), invalidate()).
BuffersWhole ==
  on = "cache" =>
    Buffers!TypeOK /\ Buffers!ChainsWhole /\ Buffers!OneCopy /\ Buffers!InUseCounted

\* "Blocks whose loss can hurt the integrity of the file system (e.g., inode blocks) are
\* written to disk immediately" (cache.c): between two calls a crash loses data and bit
\* maps only.
CrashLosesDataOnly == on = "cache" => Buffers!ImportantOnDisk

\* No block changes unless somebody writes it: evictions, read-ins, flushes, mounts and
\* invalidations keep what every block holds.  Another diskette is seen.
OnlyWritesChange == [][on = "cache" => Buffers!WritesChange]_all

\* A zone of the image that is marked belongs to one place of one i-node, a name leads to
\* an i-node in use, a file has as many names as links and a directory one, also when a
\* command has come to grief in the middle (balloc(), bmap(), itruncate(), daddent(),
\* iunlink(), dmkparlink() of minixfsutils.c).
ImageWhole == on = "image" => TypeOK /\ ZonesOwned /\ LinksCounted

\* What every command does to the tree of names is what its name says (do_put() ..
\* do_rmdir() of minixfsutils.c).
NamedTree == INSTANCE Tree WITH
  Root <- ROOTINO, Node <- Inum, Data <- Contents,
  entry <- IF on = "image" THEN Names ELSE {},
  dirs <- IF on = "image" THEN Named ELSE {ROOTINO},
  content <- IF on = "image" THEN FileData ELSE <<>>,
  ok <- IF on = "image" THEN s.ok ELSE TRUE

ImageIsTree == NamedTree!Spec
=============================================================================
