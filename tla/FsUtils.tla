------------------------------- MODULE FsUtils ------------------------------
(***************************************************************************)
(* The commands of tools/fsutils/minixfsutils.c, one after the other on    *)
(* the image that tools/fsutils/mkfs.c has made.  A command that ends in   *)
(* the middle leaves what it has done.                                     *)
(***************************************************************************)
EXTENDS Image

CONSTANTS Given,         \* the files that mkfs puts into the root: a name and what is in it
          Device,        \* the name and the number of a device in /dev
          Paths,         \* bound: the paths that are used
          Contents,      \* bound: what is put into files
          MaxCommands,   \* bound: commands
          Careful        \* TRUE keeps out the known faults

VARIABLES s,       \* the image
          done     \* how many commands there were

vars == <<s, done>>

TypeOK ==
  /\ s.imap \subseteq Inum \cup {s_ninodes} /\ s.zmap \subseteq Zone
  /\ \A i \in Inum : s.ino[i].mode \in {REG, DIR, CHR, FREE} /\ s.ino[i].nlinks \in 0 .. MaxLinks - 1
  /\ \A i \in Inum : s.ino[i].size \in 0 .. Blocks * PerBlock
  /\ s.ok \in BOOLEAN /\ ~s.stop /\ done \in 0 .. MaxCommands
-----------------------------------------------------------------------------
(* mkfs.c.  Its balloc() marks in the end what freeblock++ has given.      *)

Blank ==
  [imap |-> {}, zmap |-> {}, ino |-> [i \in Inum |-> Fresh(FREE)], ip |-> 0, off |-> 0, got |-> 0,
   blk |-> [z \in Zone |-> [k \in 0 .. PerBlock - 1 |-> Zero]], stop |-> FALSE, ok |-> TRUE]

iappend(t, ip, data) ==
  Through(LAMBDA u, d : iwrite(u, ip, <<d>>, u.ino[ip].size), t, data)

WithLinks(t, ip, n) == [t EXCEPT !.ino[ip].nlinks = n]

\* The parent's links are not counted here, but creat_file() counts one for each file.
creat_dir(t, inum, name) ==
  After(ialloc(t, DIR), LAMBDA a :
    LET Parent == IF inum = 0 THEN a.ip ELSE inum
    IN  [WithLinks(iappend(IF inum = 0 THEN a ELSE iappend(a, inum, <<Entry(name, a.ip)>>),
                           a.ip, <<Entry(".", a.ip), Entry("..", Parent)>>),
                   a.ip, IF inum = 0 THEN 1 ELSE 2) EXCEPT !.ip = a.ip])

creat_file(t, inum, name, mode, data) ==
  After(ialloc(t, mode), LAMBDA a :
    After(iappend(WithLinks(a, a.ip, 1), inum, <<Entry(name, a.ip)>>), LAMBDA b :
      After(IF mode = CHR THEN [b EXCEPT !.ino[a.ip].zone[<<0>>] = data] ELSE iappend(b, a.ip, data), LAMBDA c :
        WithLinks(c, inum, c.ino[inum].nlinks + 1))))

\* The size of a directory is made a multiple of the block size, and more than it was.
fixsize(t, ip) == [t EXCEPT !.ino[ip].size = (@ \div PerBlock + 1) * PerBlock]

mkfs ==
  After(creat_dir(creat_dir(Blank, 0, ""), ROOTINO, "bin"), LAMBDA bin :
    After(creat_dir(bin, ROOTINO, "dev"), LAMBDA dev :
      After(creat_file(dev, dev.ip, Device.name, CHR, Device.number), LAMBDA t :
        LET all == Through(LAMBDA u, f : creat_file(u, ROOTINO, f.name, REG, f.data), t, Given)
        IN  [fixsize(fixsize(fixsize(all, ROOTINO), bin.ip), dev.ip) EXCEPT !.ip = 0, !.off = 0, !.got = 0])))

Init == s = mkfs /\ done = 0
-----------------------------------------------------------------------------
(* minixfsutils.c.                                                         *)

LastName(path) == IF path = <<>> THEN "" ELSE Last(path)
DirOf(path) == IF path = <<>> THEN <<>> ELSE Front(path)

\* A command has ended, with whatever return value.  One that has changed nothing does not
\* count.
Ends(t) ==
  LET u == [t EXCEPT !.ip = 0, !.off = 0, !.got = 0, !.stop = FALSE, !.ok = @ /\ ~t.stop]
  IN  IF [u EXCEPT !.ok = s.ok] = s THEN UNCHANGED vars
      ELSE done' = done + 1 /\ s' = u

\* What a file holds.
DataOf(t, ip) == [k \in 1 .. t.ino[ip].size |-> At(t, ip, k - 1)]

\* Writes a block at a time.
Fill(t, ip, data) ==
  LET Block(k) == SubSeq(data, (k - 1) * PerBlock + 1,
                         IF k * PerBlock < Len(data) THEN k * PerBlock ELSE Len(data))
      n == (Len(data) + PerBlock - 1) \div PerBlock
  IN  Through(LAMBDA u, k : iwrite(u, ip, Block(k), (k - 1) * PerBlock), t, [k \in 1 .. n |-> k])

\* A file that is made begins with the entries that icreat() put there.
Spoils(data) == Careful /\ Len(data) < 2

Start == [s EXCEPT !.ok = TRUE]

\* ls of a directory, and get of a file or directory, read all of it.
do_ls ==
  \E path \in Paths \cup {DirOf(p) : p \in Paths} :
    Ends(After(ilookup(Start, path), LAMBDA t :
           IF t.stop \/ t.ip = 0 \/ Mode(t, t.ip) = CHR THEN t
           ELSE iread(t, t.ip, (t.ino[t.ip].size + PerBlock - 1) \div PerBlock)))

\* put and cp write to the file that has been made or emptied for them.
FillsIn(t, data) ==
  IF t.stop \/ t.ip = 0 THEN Ends(t)
  ELSE (t.ino[t.ip].size > 0 => ~Spoils(data)) /\ Ends(Fill(t, t.ip, data))

do_put ==
  \E path \in Paths, data \in Contents :
    FillsIn(After(ilookup(Start, path), LAMBDA t :
              IF t.stop THEN t
              ELSE IF t.ip = 0 THEN icreat(t, ROOTINO, path, REG)
              ELSE IF Mode(t, t.ip) # REG THEN Failed(t) ELSE itruncate(t, t.ip)), data)

do_rm ==
  \E path \in Paths :
    Ends(After(ilookup(Start, path), LAMBDA t :
           IF t.stop \/ t.ip = 0 \/ Mode(t, t.ip) = DIR THEN Failed(t) ELSE iunlink(t, ROOTINO, path)))

\* Where cp writes to: a file that is there, or a new one.
Target(t, from, to) ==
  After(ilookup(t, to), LAMBDA d :
    IF d.stop THEN d
    ELSE IF d.ip = 0
         THEN IF LastName(to) = "" THEN Failed(d)
              ELSE After(ilookup(d, DirOf(to)), LAMBDA up :
                     IF up.stop THEN up
                     ELSE IF up.ip = 0 \/ Mode(up, up.ip) # DIR THEN Failed(up)
                     ELSE icreat(up, up.ip, <<LastName(to)>>, REG))
    ELSE CASE Mode(d, d.ip) = DIR -> icreat(d, d.ip, <<LastName(from)>>, REG)
           [] Mode(d, d.ip) = REG -> itruncate(d, d.ip)
           [] OTHER -> Failed(d))

\* A file that is copied to itself is emptied.
CopiesTo(t, ip) == (Careful /\ ~t.stop => t.ip # ip) /\ FillsIn(t, DataOf(t, ip))

CopiesFrom(t, from, to) ==
  IF t.stop \/ t.ip = 0 \/ Mode(t, t.ip) # REG THEN Ends(Failed(t))
  ELSE CopiesTo(Target(t, from, to), t.ip)

do_cp == \E from, to \in Paths : CopiesFrom(ilookup(Start, from), from, to)

\* A new name, then the old one goes, whether the new one was made or not.
Move(t, sip, dp, name, from) ==
  After(iunlink(daddent(t, dp, name, sip), ROOTINO, from), LAMBDA a :
    IF Mode(a, sip) = DIR THEN dmkparlink(a, dp, sip) ELSE a)

\* mv to a directory, where the name may be taken by a file or an empty directory.
IntoDir(t, sip, dip, name, from) ==
  After(dlookup(t, dip, name), LAMBDA u :
    IF u.stop THEN u
    ELSE IF u.ip = 0 THEN Move(u, sip, dip, name, from)
    ELSE IF Mode(u, u.ip) # CHR /\ Mode(u, u.ip) = Mode(u, sip)
            /\ (Mode(u, sip) = DIR => emptydir(u, u.ip))
         THEN Move(iunlink(u, dip, <<name>>), sip, dip, name, from)
    ELSE Failed(u))

\* mv to another name, which may be that of a file.
OntoName(t, sip, to, from) ==
  IF t.ip # 0 /\ Mode(t, sip) # REG THEN Failed(t)
  ELSE After(IF t.ip = 0 THEN t ELSE iunlink(t, ROOTINO, to), LAMBDA u :
    After(ilookup(u, DirOf(to)), LAMBDA up :
      IF u.stop \/ up.stop THEN Halt(u)
      ELSE IF LastName(to) = "" \/ up.ip = 0 \/ Mode(up, up.ip) # DIR THEN Failed(up)
      ELSE Move(up, sip, up.ip, LastName(to), from)))

\* A file that is moved onto itself, a directory that is moved into itself, a name that is
\* taken from the path of a directory with a slash, and one that lacks its "..".
Odd(t, sip, dip, from, to) ==
  \/ dip = sip \/ LastName(from) = ""
  \/ dip # 0 /\ Mode(t, dip) = DIR /\ dlookup(t, dip, LastName(from)).ip = sip
  \/ Mode(t, sip) = DIR /\ (IsPrefix(from, to) \/ dlookup(t, sip, "..").ip = 0)

MovesTo(d, sip, from, to) ==
  IF d.stop THEN Ends(d)
  ELSE /\ Careful => ~Odd(d, sip, d.ip, from, to)
       /\ Ends(IF d.ip = 0 \/ Mode(d, d.ip) = REG THEN OntoName(d, sip, to, from)
               ELSE IF Mode(d, d.ip) = DIR THEN IntoDir(d, sip, d.ip, LastName(from), from)
               ELSE Failed(d))

MovesFrom(t, from, to) ==
  IF t.stop \/ t.ip \in {0, ROOTINO} THEN Ends(Failed(t)) ELSE MovesTo(ilookup(t, to), t.ip, from, to)

do_mv == \E from, to \in Paths : MovesFrom(ilookup(Start, from), from, to)

\* ln into the directory dp, which may have the name already.
LinksAs(t, sip, dp, name) ==
  Ends(IF dlookup(t, dp, name).ip # 0 THEN Failed(t) ELSE daddent(t, dp, name, sip))

\* The name in the directory dp is looked up.
LinksAt(u, sip, dp, from, to) ==
  IF u.ip = 0 THEN Ends(daddent(u, dp, LastName(to), sip))
  ELSE IF Mode(u, u.ip) = DIR
       THEN /\ Careful => dlookup(u, u.ip, LastName(from)).ip = 0    \* a name twice
            /\ Ends(daddent(u, u.ip, LastName(from), sip))
  ELSE Ends(Failed(u))

LinksTo(d, sip, from, to) ==
  IF d.stop \/ d.ip = 0 \/ Mode(d, d.ip) # DIR THEN Ends(Failed(d))
  ELSE IF LastName(to) = "" THEN LinksAs(d, sip, d.ip, LastName(from))
  ELSE LinksAt(dlookup(d, d.ip, LastName(to)), sip, d.ip, from, to)

LinksFrom(t, from, to) ==
  IF t.stop \/ t.ip = 0 \/ Mode(t, t.ip) # REG THEN Ends(Failed(t))
  ELSE LinksTo(ilookup(t, DirOf(to)), t.ip, from, to)

do_ln == \E from, to \in Paths : LinksFrom(ilookup(Start, from), from, to)

do_mkdir ==
  \E path \in Paths :
    Ends(After(ilookup(Start, path), LAMBDA t :
           IF t.stop \/ t.ip # 0 THEN Failed(t)
           ELSE After(icreat(t, ROOTINO, path, DIR), LAMBDA u :
                  IF u.stop \/ u.ip = 0 THEN u ELSE fixsize(u, u.ip))))

Removable(t, ip) == Mode(t, ip) = DIR /\ emptydir(t, ip)

\* One link is taken off before iunlink() takes off another one.
do_rmdir ==
  \E path \in Paths :
    LET t == ilookup(Start, path)
    IN  IF t.stop \/ t.ip = 0 THEN Ends(Failed(t))
        ELSE IF ~Removable(t, t.ip) THEN Ends(Failed(t))
        ELSE /\ Careful => LastName(path) # ""              \* a link less, and then an error
             /\ Ends(iunlink(Links(t, t.ip, -1), ROOTINO, path))

Next ==
  /\ done < MaxCommands
  /\ do_ls \/ do_put \/ do_rm \/ do_cp \/ do_mv \/ do_ln \/ do_mkdir \/ do_rmdir

Spec == Init /\ [][Next]_vars
-----------------------------------------------------------------------------
Dirs == {i \in Inum : Mode(s, i) = DIR}
Files == {i \in Inum : Mode(s, i) \in {REG, CHR}}
Dots == {".", ".."}

\* The entries of a directory, with where they are.
Entries(d) ==
  {<<off, At(s, d, off)>> : off \in {o \in 0 .. s.ino[d].size - 1 : At(s, d, o).inum # 0}}

Names == UNION {{<<d, e[2].name, e[2].inum>> : e \in {f \in Entries(d) : f[2].name \notin Dots}} : d \in Dirs}

\* rmdir leaves many directories behind that have no name any more.
Named == {ROOTINO} \cup {d \in Dirs : \E n \in Names : n[3] = d}

\* A zone that is marked belongs to one place of one i-node, and no other zone does, also
\* when a command has come to grief in the middle (balloc(), bmap(), itruncate()).
ZonesOwned ==
  LET Owned(i) == {place \in Places : s.ino[i].zone[place] # 0}
      Holders == {i \in Inum : Mode(s, i) \in {REG, DIR}}
      owners == UNION {{<<i, place>> : place \in Owned(i)} : i \in Holders}
  IN  /\ s.zmap = {s.ino[o[1]].zone[o[2]] : o \in owners}
      /\ Cardinality(s.zmap) = Cardinality(owners)

\* No name leads to an i-node that is free, a file has as many names as it has links, and a
\* directory has one name at most, in the directory that its ".." says (daddent(),
\* iunlink(), dmkparlink()).
LinksCounted ==
  /\ \A d \in Named : \A e \in Entries(d) : e[2].inum \in s.imap \cap Inum /\ Mode(s, e[2].inum) # FREE
  /\ \A d \in Dirs : \A e, f \in Entries(d) : e[2].name = f[2].name => e = f
  /\ \A i \in Files : s.ino[i].nlinks = Cardinality({n \in Names : n[3] = i})
  /\ \A d \in Dirs : \A n, m \in Names : n[3] = d /\ m[3] = d => n = m
  /\ \A n \in Names : \A e \in Entries(n[3]) :
       n[3] \in Dirs /\ e[2].name = ".." => e[2].inum = n[1]

\* What is in the files that have a name.
FileData ==
  [i \in {f \in Files : \E n \in Names : n[3] = f} |->
     IF Mode(s, i) = REG THEN DataOf(s, i) ELSE <<>>]

\* The program is an operation on a tree of names.
TreeOf == INSTANCE Tree WITH
  Root <- ROOTINO, Node <- Inum, Data <- Contents,
  entry <- Names, dirs <- Named, content <- FileData, ok <- s.ok

\* What every command does to the tree is what its name says: to nothing else, whatever
\* zones and entries it used, and with the right data unless it failed.
ImplementsTree == TreeOf!Spec
=============================================================================
