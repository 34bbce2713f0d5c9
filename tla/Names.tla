------------------------------- MODULE Names --------------------------------
(***************************************************************************)
(* The i-node table of FS, directories, links, paths, protection, mounted  *)
(* file systems and what processes hold of them (inode.c, path.c, link.c,  *)
(* open.c, stadir.c, protect.c, mount.c, misc.c in fs/).  FS works on one  *)
(* call at a time, so a call is a step; each routine is an operator from   *)
(* tables to tables, because the routines call each other in the middle.   *)
(* What files hold is the subject of Zones, the buffers are that of Cache. *)
(***************************************************************************)
EXTENDS Integers, Sequences, FiniteSets, SequencesExt

CONSTANTS ROOT_DEV, DISK,      \* the root device and another one
          Inums(_),            \* i-node numbers of a device
          Name,                \* names in directories, ".." among them
          Paths, DirPaths,     \* paths that calls are made with; where mknod(2) goes
          Links, Mounts,       \* pairs of paths for link(2) and mount(2)
          Modes, Masks,        \* permissions that files are made with, that umask(2) takes away
          Calls(_),            \* what calls a process makes
          Proc,                \* slots of fproc[], MM and INIT_PROC_NR among them
          MM_PROC_NR, INIT_PROC_NR,
          Uid, SUPER_USER,     \* users
          Fd, Filp,            \* descriptors, slots of filp[]
          NR_INODES,           \* slots of inode[]
          MAX_LINKS, DirSlots, \* bounds: links of an i-node, slots of a directory
          MaxCalls,            \* bound: calls that change something
          Careful              \* TRUE keeps out the known faults

Dev == {ROOT_DEV, DISK}
ROOT_INODE == 1
Inode == {<<d, n>> : d \in Dev, n \in UNION {Inums(d) : d \in Dev}}
RootOf(dev) == <<dev, ROOT_INODE>>
NIL_INODE == <<"none", 0>>
NIL_FILP == 0
OK == "OK"

Right == {"R", "W", "X"}
Permission == [owner : SUBSET Right, other : SUBSET Right]

ASSUME TablesAssumption ==
  /\ \A d \in Dev : ROOT_INODE \in Inums(d) /\ Inums(d) \subseteq Nat \ {0}
  /\ ".." \in Name /\ {MM_PROC_NR, INIT_PROC_NR} \subseteq Proc /\ SUPER_USER \in Uid
  /\ Modes \subseteq Permission /\ NIL_FILP \notin Filp

VARIABLES f,     \* the tables and the disks
          calls  \* how many calls have changed them

vars == <<f, calls>>

\* What the disk keeps of an i-node; BLK is the special file of DISK.
DInode == [type : {"NONE", "REG", "DIR", "BLK"}, links : 0 .. MAX_LINKS, uid : Uid, perm : Permission]
Free == [type |-> "NONE", links |-> 0, uid |-> SUPER_USER, perm |-> [owner |-> {}, other |-> {}]]

\* A slot of a directory; number 0 is an erased one.
Slot == [name : Name \cup {""}, num : UNION {Inums(d) : d \in Dev} \cup {0}]
Erased == [name |-> "", num |-> 0]

\* inode[] by the i-node a slot holds (disk is what has been written of it), the
\* directories, the bit maps, super_block[1], filp[] and fproc[]; marks of the model:
\* dangling: the disk held a name of a free i-node; rowrite: a read-only device was
\* written; wild: a null i-node was used; panicked.
Tables ==
  [count : [Inode -> Nat], core : [Inode -> DInode], dirt : [Inode -> BOOLEAN],
   disk : [Inode -> DInode], dir : [Inode -> Seq(Slot)], imap : [Dev -> SUBSET Nat],
   mounted : BOOLEAN, imount : Inode \cup {NIL_INODE}, rd_only : BOOLEAN,
   filp : [Filp -> [count : Nat, ino : Inode \cup {NIL_INODE}, mode : SUBSET Right]],
   live : SUBSET Proc, fds : [Proc -> [Fd -> Filp \cup {NIL_FILP}]],
   root : [Proc -> Inode], work : [Proc -> Inode], euid : [Proc -> Uid], ruid : [Proc -> Uid],
   mask : [Proc -> SUBSET Right],
   dangling : BOOLEAN, rowrite : BOOLEAN, wild : BOOLEAN, panicked : BOOLEAN]

TypeOK == f \in Tables /\ calls \in 0 .. MaxCalls

\* A mkfs'ed disk: a root directory; on the root device the special file and another
\* directory, which names the root.
Made(type, links) ==
  [type |-> type, links |-> links, uid |-> SUPER_USER, perm |-> [owner |-> Right, other |-> Right]]
mkfs(i) ==
  IF i = RootOf(ROOT_DEV) THEN Made("DIR", 2)
  ELSE IF i \in {RootOf(DISK), <<ROOT_DEV, 3>>} THEN Made("DIR", 1)
  ELSE IF i = <<ROOT_DEV, 2>> THEN Made("BLK", 1) ELSE Free
mkfs_names(i) ==
  LET parent == <<[name |-> "..", num |-> ROOT_INODE]>>
  IN  IF i = RootOf(ROOT_DEV)
      THEN parent \o <<[name |-> "dev", num |-> 2], [name |-> "a", num |-> 3]>>
      ELSE IF mkfs(i).type = "DIR" THEN parent ELSE <<>>

\* load_super() and fs_init(): MM and INIT_PROC_NR are there, in the root directory.
Init ==
  LET r == RootOf(ROOT_DEV)
  IN  /\ calls = 0
      /\ f = [count |-> [i \in Inode |-> IF i = r THEN 6 ELSE 0],
               core |-> [i \in Inode |-> mkfs(i)], disk |-> [i \in Inode |-> mkfs(i)],
               dirt |-> [i \in Inode |-> FALSE],
               dir |-> [i \in Inode |-> mkfs_names(i)],
               imap |-> [d \in Dev |-> {n \in Inums(d) : mkfs(<<d, n>>) # Free}],
               mounted |-> FALSE, imount |-> NIL_INODE, rd_only |-> FALSE,
               filp |-> [x \in Filp |-> [count |-> 0, ino |-> NIL_INODE, mode |-> {}]],
               live |-> {MM_PROC_NR, INIT_PROC_NR}, fds |-> [p \in Proc |-> [fd \in Fd |-> NIL_FILP]],
               root |-> [p \in Proc |-> r], work |-> [p \in Proc |-> r],
               euid |-> [p \in Proc |-> SUPER_USER], ruid |-> [p \in Proc |-> SUPER_USER],
               mask |-> [p \in Proc |-> Right],
               dangling |-> FALSE, rowrite |-> FALSE, wild |-> FALSE, panicked |-> FALSE]
-----------------------------------------------------------------------------
(* The i-node table (inode.c).  A routine that returns an i-node returns   *)
(* the tables s, the i-node ip and err_code.                               *)

Got(s, ip) == [s |-> s, ip |-> ip, err |-> OK]
Failed(s, err) == [s |-> s, ip |-> NIL_INODE, err |-> err]

\* What a routine does with the result of another one.
After(result, Rest(_)) == Rest(result)

ReadOnly(s, dev) == dev = DISK /\ s.rd_only

\* A directory on the disk names an i-node that is free there.
Dangles(s) ==
  \E d \in Inode : s.disk[d].type = "DIR" /\
    \E k \in DOMAIN s.dir[d] :
      s.dir[d][k].num # 0 /\ s.disk[<<d[1], s.dir[d][k].num>>].type = "NONE"

\* Every write of i-nodes and directories goes to the disk at once.
Watched(s, dev) ==
  [s EXCEPT !.dangling = @ \/ Dangles(s), !.rowrite = @ \/ ReadOnly(s, dev)]

\* rw_inode(rip, WRITING).
Written(s, i) == Watched([s EXCEPT !.disk[i] = s.core[i], !.dirt[i] = FALSE], i[1])

get_inode(s, i) ==
  IF s.count[i] > 0 THEN Got([s EXCEPT !.count[i] = @ + 1], i)
  ELSE IF Cardinality({j \in Inode : s.count[j] > 0}) = NR_INODES THEN Failed(s, "ENFILE")
  ELSE Got([s EXCEPT !.count[i] = 1, !.core[i] = s.disk[i], !.dirt[i] = FALSE], i)

dup_inode(s, i) == [s EXCEPT !.count[i] = @ + 1]

free_inode(s, i) ==
  IF i[2] \in s.imap[i[1]] THEN [s EXCEPT !.imap[i[1]] = @ \ {i[2]}]
  ELSE [s EXCEPT !.panicked = TRUE]

\* Mutant: the i-node is returned to the bit map although it has a name.
put_inode_frees(s, i) ==
  IF i = NIL_INODE THEN s
  ELSE IF s.count[i] > 1 THEN [s EXCEPT !.count[i] = @ - 1]
  ELSE LET last == [s EXCEPT !.count[i] = 0]
           gone == IF s.core[i].links <= 1
                   THEN free_inode([last EXCEPT !.core[i] = Free, !.dir[i] = <<>>, !.dirt[i] = TRUE], i)
                   ELSE last
       IN  IF gone.dirt[i] THEN Written(gone, i) ELSE gone

\* The last user of an i-node without names frees it, with what it holds.
put_inode(s, i) ==
  IF i = NIL_INODE THEN s
  ELSE IF s.count[i] > 1 THEN [s EXCEPT !.count[i] = @ - 1]
  ELSE LET last == [s EXCEPT !.count[i] = 0]
           gone == IF s.core[i].links = 0
                   THEN free_inode([last EXCEPT !.core[i] = Free, !.dir[i] = <<>>, !.dirt[i] = TRUE], i)
                   ELSE last
       IN  IF gone.dirt[i] THEN Written(gone, i) ELSE gone

\* A result, with an i-node put back that is needed no more: another one, or its own.
Left(r, i) == [r EXCEPT !.s = put_inode(r.s, i)]
GivenUp(r) == Left(r, r.ip)

alloc_inode(s, p, dev, type, perm) ==
  LET free == Inums(dev) \ s.imap[dev]
      i    == <<dev, CHOOSE n \in free : \A m \in free : n <= m>>
      taken == [s EXCEPT !.imap[dev] = @ \cup {i[2]}]
      got  == get_inode(taken, i)
  IN  IF free = {} THEN Failed(s, "ENFILE")
      ELSE IF got.ip = NIL_INODE THEN Failed(free_inode(taken, i), "ENFILE")
      ELSE Got([got.s EXCEPT !.dirt[i] = TRUE,
                             !.core[i] = [type |-> type, links |-> 0, uid |-> s.euid[p], perm |-> perm]], i)
-----------------------------------------------------------------------------
(* Protection (protect.c).                                                 *)

super_user(s, p) == s.euid[p] = SUPER_USER

read_only(s, i) == IF ReadOnly(s, i[1]) THEN "EROFS" ELSE OK

forbidden(s, p, i, desired, real) ==
  LET inode == s.core[i]
      uid   == IF real THEN s.ruid[p] ELSE s.euid[p]
      perm  == IF super_user(s, p) THEN Right
               ELSE IF uid = inode.uid THEN inode.perm.owner ELSE inode.perm.other
  IN  IF ~ desired \subseteq perm THEN "EACCES"
      ELSE IF "X" \in desired /\ "X" \notin inode.perm.owner \cup inode.perm.other THEN "EACCES"
      ELSE IF "W" \in desired THEN read_only(s, i) ELSE OK
-----------------------------------------------------------------------------
(* Directories and paths (path.c).                                         *)

Searchable(s, p, d, bits) ==
  IF s.core[d].type # "DIR" THEN "ENOTDIR" ELSE forbidden(s, p, d, bits, FALSE)

\* Slots of a directory that hold a name, or nothing.
Holding(s, d, name) == {k \in DOMAIN s.dir[d] : s.dir[d][k].num # 0 /\ s.dir[d][k].name = name}
Vacant(s, d) == {k \in DOMAIN s.dir[d] : s.dir[d][k].num = 0}
First(S) == CHOOSE k \in S : \A j \in S : k <= j

lookup(s, p, d, name) ==
  LET err == Searchable(s, p, d, {"X"})
      at  == Holding(s, d, name)
  IN  IF err # OK THEN [num |-> 0, err |-> err]
      ELSE IF at = {} THEN [num |-> 0, err |-> "ENOENT"]
      ELSE [num |-> s.dir[d][First(at)].num, err |-> OK]

\* A directory that is full grows, unless the disk is full.
enter(s, p, d, name, num) ==
  LET err  == Searchable(s, p, d, {"W", "X"})
      slot == [name |-> name, num |-> num]
  IN  IF err # OK THEN Failed(s, err)
      ELSE IF Vacant(s, d) # {}
      THEN Got(Watched([s EXCEPT !.dir[d][First(Vacant(s, d))] = slot, !.dirt[d] = TRUE], d[1]), d)
      ELSE IF Len(s.dir[d]) = DirSlots THEN Failed(s, "ENOSPC")
      ELSE Got(Watched([s EXCEPT !.dir[d] = Append(@, slot), !.dirt[d] = TRUE], d[1]), d)

delete(s, p, d, name) ==
  LET err == Searchable(s, p, d, {"W", "X"})
      at  == Holding(s, d, name)
  IN  IF err # OK THEN Failed(s, err)
      ELSE IF at = {} THEN Failed(s, "ENOENT")
      ELSE Got(Watched([s EXCEPT !.dir[d][First(at)] = Erased], d[1]), d)

\* From an i-node that is mounted on to the root of what is mounted there.
Crossed(s, i) ==
  IF s.mounted /\ s.imount = i THEN get_inode(put_inode(s, i), RootOf(DISK)) ELSE Got(s, i)

\* One component, without leaving the device upwards.
Below(s, p, d, name) ==
  After(lookup(s, p, d, name), LAMBDA found :
    IF found.err # OK THEN Failed(s, found.err)
    ELSE After(get_inode(s, <<d[1], found.num>>), LAMBDA got :
      IF got.err # OK THEN got ELSE Crossed(got.s, got.ip)))

\* ".." of the root of DISK is ".." of what it is mounted on.  If that cannot be
\* had, advance() goes on with a null pointer.
advance(s, p, d, name) ==
  IF name = "" THEN get_inode(s, d)
  ELSE After(Below(s, p, d, name), LAMBDA down :
    IF ~ (/\ down.err = OK /\ down.ip = RootOf(DISK) /\ d = RootOf(DISK)
          /\ name = ".." /\ s.mounted)
    THEN down
    ELSE After(get_inode(put_inode(down.s, down.ip), s.imount), LAMBDA on :
         After(Below(on.s, p, s.imount, ".."), LAMBDA up :
           [up EXCEPT !.s = [put_inode(up.s, s.imount) EXCEPT !.wild = @ \/ up.err # OK]])))

\* The directory of the last component, and that component; path.ends is FALSE for
\* a path that does not end within user_path.
last_dir(s, p, path) ==
  LET start == IF path.abs THEN s.root[p] ELSE s.work[p]
      Walk(x, name) ==
        IF x.err # OK THEN x ELSE Left(advance(x.s, p, x.ip, name), x.ip)
  IN  After(FoldLeft(Walk, Got(dup_inode(s, start), start),
                     IF path.names = <<>> THEN <<>> ELSE Front(path.names)),
        LAMBDA end :
          IF end.err = OK /\ ~ path.ends THEN Failed(put_inode(end.s, end.ip), "E_LONG_STRING")
          ELSE end)

LastName(path) == IF path.names = <<>> THEN "" ELSE Last(path.names)

\* Mutant: the directory is kept when it does not hold the name.
eat_path_keeps(s, p, path) ==
  After(last_dir(s, p, path), LAMBDA ldip :
    IF ldip.err # OK \/ LastName(path) = "" THEN ldip
    ELSE After(advance(ldip.s, p, ldip.ip, LastName(path)), LAMBDA rip :
      IF rip.err # OK THEN rip ELSE Left(rip, ldip.ip)))

eat_path(s, p, path) ==
  After(last_dir(s, p, path), LAMBDA ldip :
    IF ldip.err # OK \/ LastName(path) = "" THEN ldip
    ELSE Left(advance(ldip.s, p, ldip.ip, LastName(path)), ldip.ip))
-----------------------------------------------------------------------------
(* Names (open.c, link.c).                                                 *)

\* The i-node is forced to the disk before it gets a name.
new_node(s, p, path, type, perm) ==
  After(last_dir(s, p, path), LAMBDA ld :
    IF ld.err # OK THEN ld
    ELSE After(advance(ld.s, p, ld.ip, LastName(path)), LAMBDA rip :
      IF rip.err # "ENOENT"
      THEN [Left(rip, ld.ip) EXCEPT !.err = IF @ = OK THEN "EEXIST" ELSE @]
      ELSE After(alloc_inode(rip.s, p, ld.ip[1], type, perm), LAMBDA new :
        IF new.err # OK THEN Left(new, ld.ip)
        ELSE After(enter(Written([new.s EXCEPT !.core[new.ip].links = 1], new.ip),
                         p, ld.ip, LastName(path), new.ip[2]), LAMBDA named :
          IF named.err = OK THEN Got(put_inode(named.s, ld.ip), new.ip)
          ELSE Failed(put_inode([put_inode(named.s, ld.ip) EXCEPT
                                   !.core[new.ip].links = 0, !.dirt[new.ip] = TRUE], new.ip),
                      named.err)))))

Masked(s, p, perm) == [owner |-> perm.owner \cap s.mask[p], other |-> perm.other \cap s.mask[p]]

do_mknod(s, p, path, type, perm) ==
  IF ~ super_user(s, p) THEN Failed(s, "EPERM")
  ELSE GivenUp(new_node(s, p, path, type, Masked(s, p, perm)))

\* fetched is FALSE when path2 cannot be fetched: then path1's i-node is not put back.
do_link(s, p, path1, path2, fetched) ==
  After(eat_path(s, p, path1), LAMBDA rip :
    LET i   == rip.ip
        bad == IF rip.s.core[i].links = MAX_LINKS THEN "EMLINK"
               ELSE IF rip.s.core[i].type = "DIR" /\ ~ super_user(s, p) THEN "EPERM" ELSE OK
    IN  IF rip.err # OK THEN rip
        ELSE IF bad # OK THEN Failed(put_inode(rip.s, i), bad)
        ELSE IF ~ fetched THEN Failed(rip.s, "E_LONG_STRING")
        ELSE After(last_dir(rip.s, p, path2), LAMBDA ld :
          IF ld.err # OK THEN Failed(put_inode(ld.s, i), ld.err)
          ELSE After(advance(ld.s, p, ld.ip, LastName(path2)), LAMBDA old :
            LET err == IF old.err = OK THEN "EEXIST" ELSE IF old.err # "ENOENT" THEN old.err
                       ELSE IF i[1] # ld.ip[1] THEN "EXDEV" ELSE OK
            IN  After(IF err = OK THEN enter(old.s, p, ld.ip, LastName(path2), i[2])
                      ELSE Failed(put_inode(old.s, old.ip), err), LAMBDA new :
                  Left(Left(IF new.err # OK THEN new
                            ELSE [new EXCEPT !.s.core[i].links = @ + 1, !.s.dirt[i] = TRUE],
                            i), ld.ip)))))

\* The name is erased in the directory; the link is taken from the i-node that
\* advance() came to, which is another one where something is mounted.
do_unlink(s, p, path) ==
  After(last_dir(s, p, path), LAMBDA ld :
    IF ld.err # OK THEN ld
    ELSE After(advance(ld.s, p, ld.ip, LastName(path)), LAMBDA rip :
      LET i == rip.ip
      IN  IF rip.err # OK THEN Left(rip, ld.ip)
          ELSE After(IF rip.s.core[i].type = "DIR" /\ ~ super_user(s, p) THEN Failed(rip.s, "EPERM")
                     ELSE delete(rip.s, p, ld.ip, LastName(path)), LAMBDA out :
                 Left(Left(IF out.err # OK THEN out
                           ELSE [out EXCEPT !.s.core[i].links = @ - 1, !.s.dirt[i] = TRUE],
                           i), ld.ip))))

\* unlink(2) where nothing is mounted below or above the directory.
PlainName(s, p, path) ==
  After(last_dir(s, p, path), LAMBDA ld :
    After(advance(ld.s, p, ld.ip, LastName(path)), LAMBDA rip :
      ld.err = OK /\ rip.err = OK => rip.ip[1] = ld.ip[1]))
-----------------------------------------------------------------------------
(* Files of a process (filedes.c, open.c, misc.c).                         *)

FreeFds(s, p) == {fd \in Fd : s.fds[p][fd] = NIL_FILP}
FreeFilps(s) == {x \in Filp : s.filp[x].count = 0}

get_fd(s, p) == IF FreeFds(s, p) = {} THEN "EMFILE" ELSE IF FreeFilps(s) = {} THEN "ENFILE" ELSE OK

\* The descriptor and slot that get_fd() found are claimed.
Claimed(s, p, i, mode) ==
  LET fd == First(FreeFds(s, p))
      x  == First(FreeFilps(s))
  IN  [s EXCEPT !.fds[p][fd] = x, !.filp[x] = [count |-> 1, ino |-> i, mode |-> mode]]

do_creat(s, p, path, perm) ==
  IF get_fd(s, p) # OK THEN Failed(s, get_fd(s, p))
  ELSE After(new_node(s, p, path, "REG", Masked(s, p, perm)), LAMBDA new :
    LET i   == new.ip
        old == IF new.s.core[i].type = "DIR" THEN "EISDIR" ELSE forbidden(new.s, p, i, {"W"}, FALSE)
        cut == IF new.s.core[i].type = "REG" THEN [new.s EXCEPT !.dirt[i] = TRUE] ELSE new.s
    IN  IF new.err \notin {OK, "EEXIST"} THEN new
        ELSE IF new.err = OK THEN Got(Claimed(new.s, p, i, {"W"}), i)
        ELSE IF old # OK THEN Failed(put_inode(new.s, i), old)
        ELSE Got(Claimed(cut, p, i, {"W"}), i))

do_open(s, p, path, bits) ==
  IF get_fd(s, p) # OK THEN Failed(s, get_fd(s, p))
  ELSE After(eat_path(s, p, path), LAMBDA rip :
    LET may == forbidden(rip.s, p, rip.ip, bits, FALSE)
        bad == IF may # OK THEN may
               ELSE IF rip.s.core[rip.ip].type = "DIR" /\ "W" \in bits THEN "EISDIR" ELSE OK
    IN  IF rip.err # OK THEN rip
        ELSE IF bad # OK THEN Failed(put_inode(rip.s, rip.ip), bad)
        ELSE Got(Claimed(rip.s, p, rip.ip, bits), rip.ip))

\* The modified i-nodes go to the disk; the blocks are the subject of Cache.
do_sync(s) ==
  LET dirty == {i \in Inode : s.count[i] > 0 /\ s.dirt[i]}
  IN  FoldLeft(Written, s, SetToSeq(dirty))

\* Closing the special file flushes the tables.
do_close(s, p, fd) ==
  LET x == s.fds[p][fd]
      i == s.filp[x].ino
      t == IF s.core[i].type = "BLK" THEN do_sync(s) ELSE s
      less == [t EXCEPT !.fds[p][fd] = NIL_FILP, !.filp[x].count = @ - 1]
  IN  IF x = NIL_FILP THEN s
      ELSE IF s.filp[x].count = 1 THEN put_inode([less EXCEPT !.filp[x].ino = NIL_INODE], i) ELSE less

do_dup(s, p, fd) ==
  LET x == s.fds[p][fd]
  IN  IF x = NIL_FILP THEN Failed(s, "EBADF")
      ELSE IF get_fd(s, p) # OK THEN Failed(s, get_fd(s, p))
      ELSE Got([s EXCEPT !.fds[p][First(FreeFds(s, p))] = x, !.filp[x].count = @ + 1], NIL_INODE)

do_dup2(s, p, fd, fd2) ==
  LET closed == do_close(s, p, fd2)
  IN  IF s.fds[p][fd] = NIL_FILP THEN Failed(s, "EBADF")
      ELSE IF fd = fd2 THEN Got(s, NIL_INODE)
      ELSE Got([closed EXCEPT !.fds[p][fd2] = s.fds[p][fd], !.filp[s.fds[p][fd]].count = @ + 1],
               NIL_INODE)

do_fork(s, p, c) ==
  LET users(x) == Cardinality({fd \in Fd : s.fds[p][fd] = x})
  IN  [dup_inode(dup_inode(s, s.root[p]), s.work[p]) EXCEPT
         !.filp = [x \in Filp |-> [s.filp[x] EXCEPT !.count = @ + users(x)]],
         !.live = @ \cup {c}, !.fds[c] = s.fds[p], !.root[c] = s.root[p], !.work[c] = s.work[p],
         !.euid[c] = s.euid[p], !.ruid[c] = s.ruid[p], !.mask[c] = s.mask[p]]

\* What is left in a slot that is not used is nobody's.
do_exit(s, p) ==
  LET closed == FoldLeft(LAMBDA t, fd : do_close(t, p, fd), s, SetToSeq(Fd))
      out == put_inode(put_inode(closed, s.root[p]), s.work[p])
      r == RootOf(ROOT_DEV)
  IN  [out EXCEPT !.live = @ \ {p}, !.root[p] = r, !.work[p] = r, !.mask[p] = Right,
                  !.euid[p] = SUPER_USER, !.ruid[p] = SUPER_USER]

\* setuid(2) has been allowed by MM.
do_set(s, p, real, eff) == [s EXCEPT !.ruid[p] = real, !.euid[p] = eff]
-----------------------------------------------------------------------------
(* stadir.c, protect.c, time.c.                                            *)

\* The i-node that change() makes the root or working directory.
change(s, p, path) ==
  After(eat_path(s, p, path), LAMBDA rip :
    LET bad == Searchable(rip.s, p, rip.ip, {"X"})
    IN  IF rip.err # OK THEN rip
        ELSE IF bad # OK THEN Failed(put_inode(rip.s, rip.ip), bad) ELSE rip)

do_chdir(s, p, path) ==
  After(change(s, p, path), LAMBDA new :
    IF new.err # OK THEN new
    ELSE [new EXCEPT !.s = [put_inode(new.s, s.work[p]) EXCEPT !.work[p] = new.ip]])

do_chroot(s, p, path) ==
  IF ~ super_user(s, p) THEN Failed(s, "EPERM")
  ELSE After(change(s, p, path), LAMBDA new :
    IF new.err # OK THEN new
    ELSE [new EXCEPT !.s = [put_inode(new.s, s.root[p]) EXCEPT !.root[p] = new.ip]])

\* MM goes where the process is that it works for, or (cd_flag) back to its root.
do_chdir_mm(s, p, cd_flag) ==
  LET to == IF cd_flag THEN s.root[MM_PROC_NR] ELSE s.work[p]
  IN  dup_inode([put_inode(s, s.work[MM_PROC_NR]) EXCEPT
                   !.work[MM_PROC_NR] = to, !.euid[MM_PROC_NR] = IF cd_flag THEN SUPER_USER ELSE s.euid[p]], to)

\* A call that opens a file for a moment: stat and access change nothing, chmod,
\* chown and utime change the i-node if they may.
Briefly(s, p, path, May(_, _), Change(_)) ==
  After(eat_path(s, p, path), LAMBDA rip :
    LET i   == rip.ip
        bad == May(rip.s, i)
    IN  IF rip.err # OK THEN rip
        ELSE IF bad # OK THEN Failed(put_inode(rip.s, i), bad)
        ELSE [rip EXCEPT !.s = put_inode([rip.s EXCEPT !.core[i] = Change(@), !.dirt[i] = TRUE], i)])

do_stat(s, p, path) == GivenUp(eat_path(s, p, path))

do_access(s, p, path, rights) ==
  After(eat_path(s, p, path), LAMBDA rip :
    IF rip.err # OK THEN rip
    ELSE [GivenUp(rip) EXCEPT !.err = forbidden(rip.s, p, rip.ip, rights, TRUE)])

OwnerOnly(s, p, i) == IF s.core[i].uid # s.euid[p] /\ ~ super_user(s, p) THEN "EPERM" ELSE OK

do_chmod(s, p, path, perm) ==
  Briefly(s, p, path,
          LAMBDA t, i : IF OwnerOnly(t, p, i) # OK THEN "EPERM" ELSE read_only(t, i),
          LAMBDA n : [n EXCEPT !.perm = perm])

do_chown(s, p, path, uid) ==
  IF ~ super_user(s, p) THEN Failed(s, "EPERM")
  ELSE Briefly(s, p, path, LAMBDA t, i : read_only(t, i), LAMBDA n : [n EXCEPT !.uid = uid])

\* The time itself is left out; the i-node becomes dirty, also on a read-only device.
do_utime(s, p, path) ==
  Briefly(s, p, path, LAMBDA t, i : OwnerOnly(t, p, i), LAMBDA n : n)

do_umask(s, p, off) == [s EXCEPT !.mask[p] = Right \ off]
-----------------------------------------------------------------------------
(* mount.c.  DISK is the device of every block special file.               *)

\* An error code when path is no block special file.
name_to_dev(s, p, path) ==
  After(eat_path(s, p, path), LAMBDA rip :
    IF rip.err = OK /\ rip.s.core[rip.ip].type # "BLK"
    THEN Failed(put_inode(rip.s, rip.ip), "ENOTBLK") ELSE GivenUp(rip))

\* super_block[1] holds DISK meanwhile, so that paths and i-nodes find it.
do_mount(s, p, special, path, rd_only) ==
  IF ~ super_user(s, p) THEN Failed(s, "EPERM")
  ELSE After(name_to_dev(s, p, special), LAMBDA dev :
    IF dev.err # OK THEN dev
    ELSE IF s.mounted THEN Failed(dev.s, "EBUSY")
    ELSE After(eat_path(dev.s, p, path), LAMBDA rip :
      LET i   == rip.ip
          bad == IF rip.s.core[i].type = "BLK" THEN "ENOTDIR"
                 ELSE IF rip.s.count[i] > 1 THEN "EBUSY" ELSE OK
      IN  IF rip.err # OK THEN rip
          ELSE After(IF bad = OK THEN get_inode(rip.s, RootOf(DISK)) ELSE Failed(rip.s, bad),
            LAMBDA root :
              LET clash == /\ root.err = OK /\ rip.s.core[i].type = "DIR"
                           /\ root.s.core[RootOf(DISK)].type # "DIR"
                  err   == IF clash THEN "ENOTDIR" ELSE root.err
              IN  IF err # OK
                  THEN Failed(do_sync(put_inode(put_inode(root.s, i), root.ip)), err)
                  ELSE Got([root.s EXCEPT !.mounted = TRUE, !.imount = i, !.rd_only = rd_only], i))))

\* What the users of an unmounted device would be.
Users(s, dev) ==
  FoldFunction(+, 0, [i \in {j \in Inode : j[1] = dev} |-> s.count[i]])

Unmounted(s) ==
  Got([put_inode(put_inode(s, s.imount), RootOf(DISK)) EXCEPT
         !.mounted = FALSE, !.imount = NIL_INODE, !.rd_only = FALSE], NIL_INODE)

\* Mutant: a device in use is unmounted.
do_umount_busy(s, p, special) ==
  IF ~ super_user(s, p) THEN Failed(s, "EPERM")
  ELSE After(name_to_dev(s, p, special), LAMBDA dev :
    IF dev.err # OK THEN dev
    ELSE IF ~ s.mounted THEN Failed(do_sync(dev.s), "EINVAL") ELSE Unmounted(do_sync(dev.s)))

do_umount(s, p, special) ==
  IF ~ super_user(s, p) THEN Failed(s, "EPERM")
  ELSE After(name_to_dev(s, p, special), LAMBDA dev :
    IF dev.err # OK THEN dev
    ELSE IF Users(dev.s, DISK) > 1 THEN Failed(dev.s, "EBUSY")
    ELSE IF ~ s.mounted THEN Failed(do_sync(dev.s), "EINVAL") ELSE Unmounted(do_sync(dev.s)))
-----------------------------------------------------------------------------
(* The calls.                                                              *)

Caller(call) == {p \in f.live \ {MM_PROC_NR} : calls < MaxCalls /\ call \in Calls(p)}

Does(t) == f' = t /\ calls' = IF t = f THEN calls ELSE calls + 1

\* The device where path's last directory, or path's file, is may be written.
PlainDir(s, p, path) ==
  LET ld == last_dir(s, p, path) IN ld.err = OK => read_only(s, ld.ip) = OK
PlainFile(s, p, path) ==
  LET rip == eat_path(s, p, path) IN rip.err = OK => read_only(s, rip.ip) = OK

Creat ==
  \E p \in Caller("creat"), path \in Paths, m \in Modes :
    (Careful => PlainDir(f, p, path)) /\ Does(do_creat(f, p, path, m).s)
Mknod ==
  \E p \in Caller("mknod"), path \in DirPaths, m \in Modes, type \in {"DIR", "BLK"} :
    (Careful => PlainDir(f, p, path)) /\ Does(do_mknod(f, p, path, type, m).s)
Open ==
  \E p \in Caller("open"), path \in Paths, bits \in {{"R"}, {"W"}, {"R", "W"}} :
    Does(do_open(f, p, path, bits).s)
Close == \E p \in Caller("close"), fd \in Fd : Does(do_close(f, p, fd))
Dup == \E p \in Caller("dup"), fd \in Fd : Does(do_dup(f, p, fd).s)
Dup2 == \E p \in Caller("dup"), fd, fd2 \in Fd : Does(do_dup2(f, p, fd, fd2).s)

Link ==
  \E p \in Caller("link"), l \in Links, fetched \in BOOLEAN :
    (Careful => fetched) /\ Does(do_link(f, p, l[1], l[2], fetched).s)
Unlink ==
  \E p \in Caller("unlink"), path \in Paths :
    (Careful => PlainName(f, p, path)) /\ Does(do_unlink(f, p, path).s)

Chdir == \E p \in Caller("chdir"), path \in Paths : Does(do_chdir(f, p, path).s)
Chroot == \E p \in Caller("chroot"), path \in Paths : Does(do_chroot(f, p, path).s)
ChdirMM == \E p \in Caller("exec"), cd_flag \in BOOLEAN : Does(do_chdir_mm(f, p, cd_flag))

Stat == \E p \in Caller("stat"), path \in Paths : Does(do_stat(f, p, path).s)
Access ==
  \E p \in Caller("access"), path \in Paths, r \in Right : Does(do_access(f, p, path, {r}).s)
Chmod == \E p \in Caller("chmod"), path \in Paths, m \in Modes : Does(do_chmod(f, p, path, m).s)
Chown == \E p \in Caller("chown"), path \in Paths, u \in Uid : Does(do_chown(f, p, path, u).s)
Utime ==
  \E p \in Caller("utime"), path \in Paths :
    (Careful => PlainFile(f, p, path)) /\ Does(do_utime(f, p, path).s)
Umask == \E p \in Caller("umask"), off \in Masks : Does(do_umask(f, p, off))

\* What is mounted on is a directory with "..", which everybody may search.
PlainMount(s) ==
  /\ LET up == lookup(s, INIT_PROC_NR, s.imount, "..")
     IN  up.err = OK /\ s.disk[<<ROOT_DEV, up.num>>].type = "DIR"
  /\ "X" \in s.core[s.imount].perm.owner \cap s.core[s.imount].perm.other

Mount ==
  \E p \in Caller("mount"), m \in Mounts, ro \in BOOLEAN :
    /\ Does(do_mount(f, p, m[1], m[2], ro).s)
    /\ Careful /\ ~ f.mounted /\ f'.mounted => PlainMount(f')
Umount == \E p \in Caller("mount"), m \in Mounts : Does(do_umount(f, p, m[1]).s)

Fork == \E p \in Caller("fork"), c \in Proc \ f.live : Does(do_fork(f, p, c))
Exit == \E p \in Caller("exit") : Does(do_exit(f, p))
Set ==
  \E p \in Caller("setuid"), u \in Uid :
    (super_user(f, p) \/ f.ruid[p] = u) /\ Does(do_set(f, p, u, u))
Sync == Caller("sync") # {} /\ Does(do_sync(f))

Next ==
  \/ Creat \/ Mknod \/ Open \/ Close \/ Dup \/ Dup2 \/ Link \/ Unlink
  \/ Chdir \/ Chroot \/ ChdirMM \/ Stat \/ Access \/ Chmod \/ Chown \/ Utime \/ Umask
  \/ Mount \/ Umount \/ Fork \/ Exit \/ Set \/ Sync

Spec == Init /\ [][Next]_vars
-----------------------------------------------------------------------------
(* Properties.                                                             *)

\* Pointers to an i-node: from filp[], from processes, from the super blocks.
References(s, i) ==
  Cardinality({x \in Filp : s.filp[x].count > 0 /\ s.filp[x].ino = i})
  + Cardinality({p \in s.live : s.root[p] = i}) + Cardinality({p \in s.live : s.work[p] = i})
  + (IF i = RootOf(ROOT_DEV) THEN 2 ELSE 0)
  + (IF s.mounted /\ i \in {s.imount, RootOf(DISK)} THEN 1 ELSE 0)

\* i_count is the number of pointers to the i-node: every path that was walked, to an
\* error or not, has been given back, and nothing that is pointed to is given up.
CountsMatchReferences == \A i \in Inode : f.count[i] = References(f, i)

\* The core copy of an i-node in use, else the disk's.
Current(i) == IF f.count[i] > 0 THEN f.core[i] ELSE f.disk[i]

\* The bit map, the i-nodes and the directories agree: the allocated i-nodes are those
\* with a bit, a name refers to one of them, there are at least as many links as names
\* (more when a directory goes with names in it), and one without a link is in use.
LinksCoverNames ==
  \A i \in Inode :
    LET names == {dk \in Inode \X (1 .. DirSlots) :
                    /\ dk[1][1] = i[1] /\ dk[2] \in DOMAIN f.dir[dk[1]]
                    /\ f.dir[dk[1]][dk[2]].num = i[2]}
    IN  /\ i[2] \in f.imap[i[1]] <=> Current(i).type # "NONE"
        /\ Cardinality(names) <= Current(i).links
        /\ i[2] \in f.imap[i[1]] /\ f.count[i] = 0 => f.disk[i].links > 0

\* At no write of an i-node or directory does the disk hold a name of a free i-node:
\* "an inode with no directory entry is much better than the opposite" (new_node()).
NoNameDangles == ~ f.dangling

\* Only i-nodes of mounted devices are in use; what is mounted on and the root of the
\* mounted device stay there; a device that is mounted read-only is not written; no null
\* i-node is used and no bit freed twice.
MountsHold ==
  /\ \A i \in Inode : f.count[i] > 0 /\ i[1] = DISK => f.mounted
  /\ f.mounted => f.core[f.imount].type # "NONE" /\ f.core[RootOf(DISK)].type = "DIR"
  /\ ~ f.rowrite /\ ~ f.wild /\ ~ f.panicked

\* A creat, link, mount, unlink or chdir that reports an error has changed no count, name, bit
\* or descriptor.
Same(s, t) ==
  /\ s.count = t.count /\ s.dir = t.dir /\ s.imap = t.imap /\ s.mounted = t.mounted
  /\ s.filp = t.filp /\ s.fds = t.fds /\ s.root = t.root /\ s.work = t.work
  /\ \A i \in Inode : s.count[i] > 0 => s.core[i] = t.core[i]

FailuresLeaveNothing ==
  \A p \in f.live \ {MM_PROC_NR} :
    \A x \in {do_creat(f, p, path, m) : path \in Paths, m \in Modes}
             \cup {do_link(f, p, l[1], l[2], TRUE) : l \in Links}
             \cup {do_mount(f, p, m[1], m[2], TRUE) : m \in Mounts}
             \cup UNION {{do_unlink(f, p, path), do_chdir(f, p, path)} : path \in Paths} :
      x.err # OK => Same(f, x.s)
=============================================================================
