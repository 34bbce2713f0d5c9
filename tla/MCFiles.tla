------------------------------- MODULE MCFiles ------------------------------
(***************************************************************************)
(* Small instances of the file system's i-nodes: Names, which of them      *)
(* there are and what they are called, and Zones, where their data is.     *)
(* The two share the bit map code but no table, so that one run takes them *)
(* one after the other: "on" says which one a behaviour is about.          *)
(***************************************************************************)
EXTENDS Names

CONSTANTS f1, f2

VARIABLES on, z

all == <<on, f, z, calls>>
-----------------------------------------------------------------------------
abs(names) == [abs |-> TRUE, names |-> names, ends |-> TRUE]
rel(names) == [abs |-> FALSE, names |-> names, ends |-> TRUE]

\* The root device has room for two files besides the root and the special file.
Numbers(dev) == IF dev = ROOT_DEV THEN 1 .. 4 ELSE 1 .. 2

All == [owner |-> Right, other |-> Right]
AllModes == {All}
Most == {{}, {"R", "W", "X"}}

\* Who makes what calls.
DoneBy(p) ==
  IF p = INIT_PROC_NR
  THEN {"creat", "mknod", "open", "close", "dup", "link", "unlink", "chdir", "chroot", "exec",
        "stat", "access", "chmod", "chown", "utime", "umask", "mount", "fork", "sync"}
  ELSE {"chdir", "exec", "unlink", "stat", "exit", "setuid"}
Names4 == {"..", "a", "b", "dev"}

dev == abs(<<"dev">>)
a == abs(<<"a">>)
up == abs(<<"a", "..">>)
b == rel(<<"b">>)
below == abs(<<"a", "b">>)
top == abs(<<>>)
long == [abs |-> TRUE, names |-> <<"a", "b">>, ends |-> FALSE]

PathSet == {dev, a, b, rel(<<"..">>), below, long}
DirPathSet == {b}
LinkSet == {<<a, b>>, <<b, below>>, <<dev, b>>, <<top, up>>}
MountSet == {<<dev, a>>, <<a, b>>}
-----------------------------------------------------------------------------
(* A file that is written anywhere, and another that takes and gives back  *)
(* zones between its writes, on a disk of five zones of two blocks.        *)

Byte(i) == IF i = f1 THEN {1} ELSE {2}
Amounts(i) == IF i = f1 THEN {1, 3} ELSE {4}
Taken(i) == IF i = f1 THEN {} ELSE {4}

\* Also a zone of the double indirect block, a hole, and before the start.
Where(i) == IF i = f1 THEN {<<0, 0>>, <<0, 6>>, <<0, 12>>, <<2, 1>>} ELSE {<<0, 0>>, <<1, -20>>}

Data == INSTANCE Zones WITH
  File <- {f1, f2}, Byte <- Byte, BLOCK_SIZE <- 2, Scale <- 1, NR_DZONE_NUM <- 1,
  FirstDataZone <- 1, NrZones <- 6, MaxSize <- 16, INT_BITS <- 2, INTS_PER_BLOCK <- 2,
  MapBlocks <- 2, Sizes <- Amounts, Reads <- Taken, Seeks <- Where, MaxCalls <- 4,
  Careful <- TRUE
-----------------------------------------------------------------------------
InitAll ==
  \/ on = "names" /\ Init /\ z = "off"
  \/ on = "zones" /\ Data!Init /\ f = "off"

NextAll ==
  \/ on = "names" /\ Next /\ UNCHANGED <<on, z>>
  \/ on = "zones" /\ Data!Next /\ UNCHANGED <<on, f>>

System == InitAll /\ [][NextAll]_all
-----------------------------------------------------------------------------
\* i_count is the number of pointers to the i-node: every path that was walked, to an error
\* or not, has been given back; what is mounted on stays, and nothing on a device that is
\* not mounted, or mounted read-only, is touched (eat_path(), put_inode(), do_umount()).
CountsRight == on = "names" => TypeOK /\ CountsMatchReferences /\ MountsHold

\* The bit map, the i-nodes and the directories agree, also on the disk at every write of
\* an i-node or directory: "an inode with no directory entry is much better than the
\* opposite" (new_node(), search_dir(), put_inode()).
NamesWhole == on = "names" => LinksCoverNames /\ NoNameDangles

\* A creat, link, mount, unlink or chdir that reports an error has changed no count, name, bit
\* or descriptor (new_node(), do_link(), do_mount(), do_unlink(), change()).
ErrorsLeaveNothing == on = "names" => FailuresLeaveNothing

\* Every zone with a bit in the map is at one place of one file, and the other way round:
\* nothing is lost, freed early or shared (write_map(), truncate(), free_zone()).
ZonesOwned == on = "zones" => Data!TypeOK /\ Data!ZonesOwned

\* A search that starts anywhere finds a free bit if there is one, and only a free one
\* (alloc_bit() of super.c).
AllocFindsFree == on = "zones" => Data!AllocFindsFree

\* What was written is read, what was not written reads as zeros, and no file changes with
\* another (read.c, write.c).
FilesOf == INSTANCE Files WITH
  File <- {f1, f2}, Sizes <- Amounts, MaxSize <- 16,
  content <- [i \in {f1, f2} |-> IF on = "zones" THEN Data!Content(z, i) ELSE <<>>],
  pos <- [i \in {f1, f2} |-> IF on = "zones" THEN z.pos[i] ELSE 0]

ImplementsFiles == FilesOf!Spec
=============================================================================
