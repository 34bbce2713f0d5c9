-------------------------------- MODULE Image -------------------------------
(***************************************************************************)
(* A file system in an image file, as the programs of tools/fsutils make   *)
(* it and change it: bit maps, i-nodes with their zones, directories.      *)
(* Sizes and offsets count directory entries, and the data in a file is    *)
(* made of things of that size.  Zones are numbered from the first data    *)
(* zone.  Every operator takes the image to the image; what the C function *)
(* returns is in "ip" and "off", and "stop" says that the program ended in *)
(* the middle, by fatal(), by an assertion or by a null pointer.           *)
(***************************************************************************)
EXTENDS Integers, Sequences, FiniteSets, SequencesExt

CONSTANTS s_ninodes, Zones,      \* the size of the image: i-nodes, data zones
          PerBlock,              \* directory entries in a block
          NDIRECT, NINDIRECT     \* zone numbers in an i-node, and in an indirect block

ROOTINO == 1
MaxLinks == 256                  \* i_nlinks is a byte

REG == "REG"  DIR == "DIR"  CHR == "CHR"  FREE == "FREE"

Entry(name, inum) == [name |-> name, inum |-> inum]
Zero == Entry("", 0)

Zone == 1 .. Zones
Inum == 1 .. s_ninodes - 1
Blocks == NDIRECT + NINDIRECT + NINDIRECT * NINDIRECT

\* Mutant: the blocks of a double indirect block start anew in the indirect one.
Steps_anew ==
  [n \in 0 .. Blocks - 1 |->
     IF n < NDIRECT THEN << <<n>> >>
     ELSE << <<NDIRECT>>, <<NDIRECT, (n - NDIRECT) % NINDIRECT>> >>]

\* Where the zone of block n of a file stands, and on the way to it the indirect blocks.
Steps ==
  [n \in 0 .. Blocks - 1 |->
     LET i == n - NDIRECT
         j == i - NINDIRECT
     IN  IF n < NDIRECT THEN << <<n>> >>
         ELSE IF i < NINDIRECT THEN << <<NDIRECT>>, <<NDIRECT, i>> >>
         ELSE << <<NDIRECT + 1>>, <<NDIRECT + 1, j \div NINDIRECT>>,
                 <<NDIRECT + 1, j \div NINDIRECT, j % NINDIRECT>> >>]

Places == UNION {ToSet(Steps[n]) : n \in 0 .. Blocks - 1}
NoZones == [place \in Places |-> 0]

Fresh(mode) == [mode |-> mode, nlinks |-> 0, size |-> 0, zone |-> NoZones]

\* Op for each of a sequence's elements, as FoldLeft(), which takes TLC longer.
Through(Op(_, _), s, seq) ==
  LET f[k \in 0 .. Len(seq)] == IF k = 0 THEN s ELSE Op(f[k - 1], seq[k])
  IN  f[Len(seq)]

Halt(s) == [s EXCEPT !.stop = TRUE]

\* What a routine does with the result of another one.
After(result, Rest(_)) == Rest(result)

First(set) == CHOOSE n \in set : \A m \in set : n <= m

\* The entries from off on are in block off \div PerBlock.
ZoneOf(s, ip, off) == s.ino[ip].zone[Last(Steps[off \div PerBlock])]

\* What is there to read; a hole reads as zeros.
At(s, ip, off) == IF ZoneOf(s, ip, off) = 0 THEN Zero ELSE s.blk[ZoneOf(s, ip, off)][off % PerBlock]

Mode(s, ip) == s.ino[ip].mode
-----------------------------------------------------------------------------
(* Zones and i-nodes.                                                      *)

balloc(s) ==
  IF Zone \subseteq s.zmap THEN Halt(s)
  ELSE After(First(Zone \ s.zmap), LAMBDA z :
         [s EXCEPT !.zmap = @ \cup {z}, !.blk[z] = [k \in 0 .. PerBlock - 1 |-> Zero], !.got = z])

\* bmap() gives a block of a file its zone when it has none, also when it is only read.
bmap(s, ip, n) ==
  LET Fill(t, place) ==
        IF t.stop \/ t.ino[ip].zone[place] # 0 THEN t
        ELSE After(balloc(t), LAMBDA u : IF u.stop THEN u ELSE [u EXCEPT !.ino[ip].zone[place] = u.got])
  IN  Through(Fill, s, Steps[n])

\* The blocks before n have been read.
iread(s, ip, n) ==
  Through(LAMBDA t, k : bmap(t, ip, k - 1), s, [k \in 1 .. n |-> k])

\* Inside a block, at the end of the file at most.
iwrite(s, ip, data, off) ==
  LET In(k) == k - (off % PerBlock) + 1
  IN  IF s.stop \/ data = <<>> THEN s
      ELSE After(bmap(s, ip, off \div PerBlock), LAMBDA t :
             IF t.stop THEN t
             ELSE [t EXCEPT !.blk[ZoneOf(t, ip, off)] =
                              [k \in 0 .. PerBlock - 1 |-> IF In(k) \in 1 .. Len(data) THEN data[In(k)] ELSE @[k]],
                            !.ino[ip].size = IF off + Len(data) > @ THEN off + Len(data) ELSE @])

\* Mutant: the indirect blocks are forgotten.
itruncate_direct(s, ip) ==
  IF s.stop THEN s
  ELSE [s EXCEPT !.zmap = @ \ {s.ino[ip].zone[<<n>>] : n \in 0 .. NDIRECT - 1},
                 !.ino[ip].zone = NoZones, !.ino[ip].size = 0]

\* Every zone and every indirect block is freed.
itruncate(s, ip) ==
  IF s.stop THEN s
  ELSE [s EXCEPT !.zmap = @ \ {s.ino[ip].zone[place] : place \in Places},
                 !.ino[ip].zone = NoZones, !.ino[ip].size = 0]

\* The last bit of the map belongs to an i-node that iget() does not give.
ialloc(s, mode) ==
  LET free == (1 .. s_ninodes) \ s.imap
  IN  IF s.stop \/ free = {} THEN Halt(s)
      ELSE After(First(free), LAMBDA i :
             IF i = s_ninodes THEN Halt([s EXCEPT !.imap = @ \cup {i}])
             ELSE [s EXCEPT !.imap = @ \cup {i}, !.ino[i] = Fresh(mode), !.ip = i])

\* The rest of the i-node stays as it is.
ifree(s, ip) ==
  IF s.stop THEN s ELSE [s EXCEPT !.imap = @ \ {ip}, !.ino[ip].mode = FREE]

Links(s, ip, n) ==
  IF s.stop THEN s ELSE [s EXCEPT !.ino[ip].nlinks = (@ + n) % MaxLinks]
-----------------------------------------------------------------------------
(* Directories and paths.  A path is a sequence of names; the last one is  *)
(* "" after a slash at the end.                                            *)

Blocks_to(off) == off \div PerBlock + 1

\* iget() of what the entry says, 0 if that is nothing.
dlookup(s, dp, name) ==
  LET size == s.ino[dp].size
  IN  IF s.stop \/ Mode(s, dp) # DIR THEN Halt(s)
      ELSE After({off \in 0 .. size - 1 : At(s, dp, off).name = name}, LAMBDA found :
        IF found = {} THEN [iread(s, dp, (size + PerBlock - 1) \div PerBlock) EXCEPT !.ip = 0]
        ELSE After(First(found), LAMBDA off :
          After(At(s, dp, off).inum, LAMBDA inum :
            [iread(s, dp, Blocks_to(off)) EXCEPT !.ip = IF inum \in Inum THEN inum ELSE 0, !.off = off])))

\* "." is not counted.
EnteredAt(s, dp, name, ip, off) ==
  IF off < s.ino[dp].size /\ At(s, dp, off).inum # 0 THEN [s EXCEPT !.ok = FALSE]
  ELSE After(iwrite(iread(s, dp, (off + PerBlock - 1) \div PerBlock), dp, <<Entry(name, ip)>>, off), LAMBDA t :
         IF name = "." THEN t ELSE Links(t, ip, 1))

\* The first free entry, or the end, unless the name comes before it.
daddent(s, dp, name, ip) ==
  LET size == s.ino[dp].size
  IN  IF s.stop THEN s
      ELSE After({off \in 0 .. size - 1 : At(s, dp, off).inum = 0 \/ At(s, dp, off).name = name}, LAMBDA ends :
             EnteredAt(s, dp, name, ip, IF ends = {} THEN size ELSE First(ends)))

dmkparlink(s, pip, cip) ==
  IF s.stop \/ Mode(s, pip) # DIR \/ Mode(s, cip) # DIR THEN s
  ELSE After(dlookup(s, cip, ".."), LAMBDA t :
         Links(iwrite(t, cip, <<Entry("..", pip)>>, t.off), pip, 1))

Failed(s) == [s EXCEPT !.ip = 0, !.ok = FALSE]

\* The i-node that a path leads to.  A file in the middle of it ends the program.
ilookup(s, path) ==
  LET Next(t, name) ==
        IF t.stop \/ t.ip = 0 THEN t
        ELSE IF Mode(t, t.ip) # DIR THEN Halt(t)
        ELSE IF name = "" THEN t
        ELSE dlookup(t, t.ip, name)
  IN  Through(Next, [s EXCEPT !.ip = ROOTINO], path)

\* The directory of the last name, for icreat() and iunlink(), from rp on.
ToLast(s, rp, path) ==
  LET Next(t, name) ==
        IF t.stop \/ t.ip = 0 THEN t
        ELSE IF name = "" THEN Failed(t)
        ELSE After(dlookup(t, t.ip, name), LAMBDA u :
               IF u.stop THEN u ELSE IF u.ip = 0 \/ Mode(u, u.ip) # DIR THEN Failed(u) ELSE u)
  IN  IF path = <<>> \/ Last(path) = "" THEN Failed(s)
      ELSE Through(Next, [s EXCEPT !.ip = rp], Front(path))

\* "." and ".." are made for files too: it is the mode of the parent that is asked.
icreat(s, rp, path, mode) ==
  After(ToLast(s, rp, path), LAMBDA t :
    IF t.stop \/ t.ip = 0 THEN t
    ELSE After(dlookup(t, t.ip, Last(path)), LAMBDA u :
      IF u.stop THEN u
      ELSE IF u.ip # 0 THEN Failed(u)
      ELSE After(ialloc(u, mode), LAMBDA a :
        IF a.stop THEN a
        ELSE After(daddent(a, t.ip, Last(path), a.ip), LAMBDA b :
          [daddent(daddent(b, a.ip, ".", a.ip), a.ip, "..", t.ip) EXCEPT !.ip = a.ip]))))

\* With the last link the i-node goes, and its zones.
Unlinked(s, ip) ==
  After(Links(s, ip, -1), LAMBDA b :
    IF b.ino[ip].nlinks # 0 THEN b
    ELSE ifree(IF Mode(b, ip) \in {REG, DIR} THEN itruncate(b, ip) ELSE b, ip))

\* The entry goes, and with a directory's the link from its ".." .
iunlink(s, rp, path) ==
  After(ToLast(s, rp, path), LAMBDA t :
    IF t.stop \/ t.ip = 0 THEN t
    ELSE After(dlookup(t, t.ip, Last(path)), LAMBDA u :
      IF u.stop THEN u
      ELSE IF u.ip = 0 \/ Last(path) \in {".", ".."} THEN Failed(u)
      ELSE After(iwrite(u, t.ip, <<Zero>>, u.off), LAMBDA a :
        Unlinked(IF Mode(a, u.ip) = DIR /\ dlookup(a, u.ip, "..").ip = t.ip
                 THEN Links(a, t.ip, -1) ELSE a, u.ip))))

emptydir(s, dp) ==
  Cardinality({off \in 0 .. s.ino[dp].size - 1 : At(s, dp, off).inum # 0}) = 2
=============================================================================
