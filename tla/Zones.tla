------------------------------- MODULE Zones --------------------------------
(***************************************************************************)
(* The data of regular files (read.c, write.c, truncate() of link.c, zones *)
(* and bit maps of cache.c and super.c in fs/): where the blocks of a file *)
(* are, how zones are allocated and freed, what is cleared and when.       *)
(* A block is BLOCK_SIZE numbers, each a byte of data or the number of a   *)
(* zone.  Names and protection are the subject of Names.                   *)
(***************************************************************************)
EXTENDS Integers, Sequences, FiniteSets, SequencesExt, FiniteSetsExt

CONSTANTS File,            \* i-nodes of regular files, each with one descriptor
          Byte(_),         \* what is written to a file; what is not reads as 0
          BLOCK_SIZE, Scale, NR_DZONE_NUM,
          FirstDataZone, NrZones, MaxSize,     \* from the super block
          INT_BITS, INTS_PER_BLOCK, MapBlocks, \* the zone bit map
          Sizes(_), Reads(_), Seeks(_), \* bounds: bytes of a write to a file and of a read,
                           \* whence and offset of lseek(2)
          MaxCalls,        \* bound: writes and truncations
          Careful          \* TRUE keeps out the known faults

NO_ZONE == 0
NO_BLOCK == 0
NO_BIT == 0
OK == "OK"

PerZone == 2 ^ Scale
ZoneSize == BLOCK_SIZE * PerZone
NR_INDIRECTS == BLOCK_SIZE
BitsPerBlock == INT_BITS * INTS_PER_BLOCK
map_bits == NrZones - FirstDataZone + 1

Zone == FirstDataZone .. NrZones - 1
Block == FirstDataZone * PerZone .. NrZones * PerZone - 1
Slot == 0 .. NR_DZONE_NUM + 1      \* i_zone[]: the last two are indirect

\* What is in a buffer that is not read: anything that no file holds.
JUNK == NrZones
Cell == 0 .. JUNK

(* The bit map has a bit for every zone, NrZones < 2^16, and no file is     *)
(* longer than its zone numbers reach; 0 and JUNK are no bytes of data.    *)

VARIABLES z,       \* blocks, the bits of the zone map, i-nodes and positions
          calls    \* how many files have been written or truncated

vars == <<z, calls>>

Tables ==
  [blk : [Block -> [0 .. BLOCK_SIZE - 1 -> Cell]], zmap : SUBSET (0 .. MapBlocks * BitsPerBlock - 1),
   size : [File -> 0 .. MaxSize], zone : [File -> [Slot -> Zone \cup {NO_ZONE}]],
   pos : [File -> 0 .. MaxSize], panicked : BOOLEAN]

TypeOK == z \in Tables /\ calls \in 0 .. MaxCalls

Zeros == [k \in 0 .. BLOCK_SIZE - 1 |-> 0]

\* Bit 0 is never allocated; the blocks hold what was in files before.
Init ==
  /\ calls = 0
  /\ z = [blk |-> [b \in Block |-> [k \in 0 .. BLOCK_SIZE - 1 |-> JUNK]], zmap |-> {0},
          size |-> [i \in File |-> 0], zone |-> [i \in File |-> [n \in Slot |-> NO_ZONE]],
          pos |-> [i \in File |-> 0], panicked |-> FALSE]
-----------------------------------------------------------------------------
(* The zone map (super.c, cache.c).                                        *)

\* Block by block from the word of origin; the block with that word comes twice.  Of
\* a block only the first free bit counts, and only if it is one of the map's.
SearchFrom(busy, origin, count(_)) ==
  LET start == IF origin >= map_bits THEN 0 ELSE origin
      b     == start \div BitsPerBlock
      w     == (start % BitsPerBlock) \div INT_BITS
      from(k) == IF k = 0 THEN w * INT_BITS ELSE 0
      free(k) == {a \in 0 .. MapBlocks * BitsPerBlock - 1 :
                    /\ a \notin busy /\ a \div BitsPerBlock = ((b + k) % MapBlocks)
                    /\ a % BitsPerBlock >= from(k)}
      hits  == {k \in 0 .. count(w) - 1 : free(k) # {} /\ Min(free(k)) < map_bits}
  IN  IF hits = {} THEN NO_BIT ELSE Min(free(Min(hits)))

\* Mutant: the first block is not searched again.
alloc_bit_once(busy, origin) == SearchFrom(busy, origin, LAMBDA w : MapBlocks)

alloc_bit(busy, origin) ==
  SearchFrom(busy, origin, LAMBDA w : IF w = 0 THEN MapBlocks ELSE MapBlocks + 1)

\* What a routine does with the result of another one.
After(result, Rest(_)) == Rest(result)

\* The tables and the zone, NO_ZONE when the disk is full; bit_nr has 16 bits.
alloc_zone(s, near) ==
  After(alloc_bit(s.zmap, (near - (FirstDataZone - 1)) % 2 ^ 16), LAMBDA b :
    IF b = NO_BIT THEN [s |-> s, zone |-> NO_ZONE]
    ELSE [s |-> [s EXCEPT !.zmap = @ \cup {b}], zone |-> FirstDataZone - 1 + b])

free_bit(s, bit) ==
  IF bit \notin s.zmap THEN [s EXCEPT !.panicked = TRUE] ELSE [s EXCEPT !.zmap = @ \ {bit}]

free_zone(s, zone) == IF zone = NO_ZONE THEN s ELSE free_bit(s, zone - (FirstDataZone - 1))
-----------------------------------------------------------------------------
(* From positions to blocks (read.c, write.c).                             *)

\* An entry of an indirect block.
Entry(s, zone, n) == s.blk[zone * PerZone][n]

read_map(s, i, position) ==
  LET block_pos == position \div BLOCK_SIZE
      zone   == block_pos \div PerZone
      excess == zone - NR_DZONE_NUM
      double == s.zone[i][NR_DZONE_NUM + 1]
      single == IF excess < NR_INDIRECTS THEN s.zone[i][NR_DZONE_NUM]
                ELSE IF double = NO_ZONE THEN NO_ZONE
                ELSE Entry(s, double, (excess - NR_INDIRECTS) \div NR_INDIRECTS)
      at     == IF zone < NR_DZONE_NUM THEN s.zone[i][zone]
                ELSE IF single = NO_ZONE THEN NO_ZONE ELSE Entry(s, single, excess % NR_INDIRECTS)
  IN  IF at = NO_ZONE THEN NO_BLOCK ELSE at * PerZone + (block_pos % PerZone)

\* Where a zone number stands: in slot n of the i-node, or in an indirect block.
Own(n) == [zone |-> NO_ZONE, n |-> n]
In(ind, n) == [zone |-> ind.zone, n |-> n]
Stands(s, i, at) == IF at.zone = NO_ZONE THEN s.zone[i][at.n] ELSE Entry(s, at.zone, at.n)
Stored(s, i, at, zone) ==
  IF at.zone = NO_ZONE THEN [s EXCEPT !.zone[i][at.n] = zone]
  ELSE [s EXCEPT !.blk[at.zone * PerZone][at.n] = zone]

\* An indirect block, made and zeroed when there is none.
Indirect(s, i, at) ==
  IF Stands(s, i, at) # NO_ZONE THEN [s |-> s, zone |-> Stands(s, i, at)]
  ELSE After(alloc_zone(s, s.zone[i][0]), LAMBDA new :
         IF new.zone = NO_ZONE THEN new
         ELSE [new EXCEPT !.s = [Stored(new.s, i, at, new.zone) EXCEPT !.blk[new.zone * PerZone] = Zeros]])

EnteredIn(ind, i, n, new_zone) ==
  IF ind.zone = NO_ZONE THEN [s |-> ind.s, err |-> "ENOSPC"]
  ELSE [s |-> Stored(ind.s, i, In(ind, n), new_zone), err |-> OK]

\* Mutant: a new indirect block keeps what was in the zone.
write_map_dirty(s, i, position, new_zone) ==
  LET zone == position \div ZoneSize
      Dirty == After(alloc_zone(s, s.zone[i][0]), LAMBDA new :
                 IF new.zone = NO_ZONE THEN new
                 ELSE [new EXCEPT !.s = Stored(new.s, i, Own(NR_DZONE_NUM), new.zone)])
  IN  IF zone < NR_DZONE_NUM THEN [s |-> Stored(s, i, Own(zone), new_zone), err |-> OK]
      ELSE EnteredIn(IF s.zone[i][NR_DZONE_NUM] = NO_ZONE THEN Dirty
                     ELSE [s |-> s, zone |-> s.zone[i][NR_DZONE_NUM]],
                     i, (zone - NR_DZONE_NUM) % NR_INDIRECTS, new_zone)

write_map(s, i, position, new_zone) ==
  LET zone   == position \div ZoneSize
      excess == zone - NR_DZONE_NUM
      far    == excess - NR_INDIRECTS
      index  == far \div NR_INDIRECTS
  IN  IF zone < NR_DZONE_NUM THEN [s |-> Stored(s, i, Own(zone), new_zone), err |-> OK]
      ELSE IF far < 0 THEN EnteredIn(Indirect(s, i, Own(NR_DZONE_NUM)), i, excess, new_zone)
      ELSE After(Indirect(s, i, Own(NR_DZONE_NUM + 1)), LAMBDA dbl :
             IF dbl.zone = NO_ZONE THEN [s |-> s, err |-> "ENOSPC"]
             ELSE IF index >= NR_INDIRECTS THEN [s |-> dbl.s, err |-> "EFBIG"]
             ELSE EnteredIn(Indirect(dbl.s, i, In(dbl, index)), i, far % NR_INDIRECTS, new_zone))

\* The blocks of the zone of pos from pos on (from its start, if new) are zeroed;
\* a block that is partly filled is not.
clear_zone(s, i, pos, new) ==
  LET at   == IF new THEN (pos \div ZoneSize) * ZoneSize ELSE pos
      next == at + BLOCK_SIZE - 1
      blo  == read_map(s, i, next)
      bhi  == (blo \div PerZone + 1) * PerZone - 1
  IN  IF Scale = 0 \/ next \div ZoneSize # at \div ZoneSize \/ blo = NO_BLOCK THEN s
      ELSE [s EXCEPT !.blk = [b \in Block |-> IF b \in blo .. bhi THEN Zeros ELSE s.blk[b]]]

\* A zone near the file's others, cleared when it is not at the end of the file.
new_block(s, i, position) ==
  After(read_map(s, i, position), LAMBDA had :
    IF had # NO_BLOCK THEN [s |-> [s EXCEPT !.blk[had] = Zeros], b |-> had, err |-> OK]
    ELSE After(alloc_zone(s, IF s.size[i] = 0 THEN FirstDataZone ELSE s.zone[i][0]), LAMBDA new :
      IF new.zone = NO_ZONE THEN [s |-> s, b |-> NO_BLOCK, err |-> "ENOSPC"]
      ELSE After(write_map(new.s, i, position, new.zone), LAMBDA put :
        IF put.err # OK THEN [s |-> free_zone(put.s, new.zone), b |-> NO_BLOCK, err |-> put.err]
        ELSE After(IF position # s.size[i] THEN clear_zone(put.s, i, position, TRUE) ELSE put.s, LAMBDA t :
          LET b == new.zone * PerZone + (position % ZoneSize) \div BLOCK_SIZE
          IN  [s |-> [t EXCEPT !.blk[b] = Zeros], b |-> b, err |-> OK]))))
-----------------------------------------------------------------------------
(* Reading and writing (read.c).                                           *)

\* A block that is written whole, or from the end of the file on, is not read first;
\* the buffer then holds junk, and is zeroed if it is not filled.
rw_chunk(s, i, position, chunk, byte, fetched) ==
  LET off   == position % BLOCK_SIZE
      atend == off = 0 /\ position >= s.size[i]
      Junk(b) == IF chunk = BLOCK_SIZE \/ atend
                 THEN [s EXCEPT !.blk[b] = [k \in 0 .. BLOCK_SIZE - 1 |-> JUNK]] ELSE s
      data(base) == [k \in 0 .. BLOCK_SIZE - 1 |->
                       IF fetched /\ off <= k /\ k < off + chunk THEN byte ELSE base[k]]
  IN  After(read_map(s, i, position), LAMBDA b :
        After(IF b = NO_BLOCK THEN new_block(s, i, position) ELSE [s |-> Junk(b), b |-> b, err |-> OK],
              LAMBDA got :
          IF got.err # OK THEN [s |-> got.s, err |-> got.err]
          ELSE [s |-> [got.s EXCEPT !.blk[got.b] = data(IF chunk # BLOCK_SIZE /\ atend THEN Zeros ELSE @)],
                err |-> IF fetched THEN OK ELSE "EFAULT"]))

\* One chunk after the other, none across a block; pos is where the next one starts.
Chunks(s, i, position, nbytes, byte, fetched) ==
  LET end == position + nbytes
      next(at) == IF (at \div BLOCK_SIZE + 1) * BLOCK_SIZE < end THEN (at \div BLOCK_SIZE + 1) * BLOCK_SIZE ELSE end
      Step(x, n) ==
        IF x.err # OK \/ x.pos = end THEN x
        ELSE After(rw_chunk(x.s, i, x.pos, next(x.pos) - x.pos, byte, fetched), LAMBDA r :
               [s |-> r.s, err |-> r.err, pos |-> IF r.err = OK THEN next(x.pos) ELSE x.pos])
  IN  FoldLeft(Step, [s |-> s, err |-> OK, pos |-> position], [n \in 1 .. nbytes |-> n])

\* Where the position is in the end, and the end of the file.
Moved(done, i) ==
  [s |-> [done.s EXCEPT !.pos[i] = done.pos, !.size[i] = IF done.pos > @ THEN done.pos ELSE @],
   err |-> done.err]

\* Mutant: the zone that holds the end of the file is not cleared before a hole.
do_write_unclean(s, i, nbytes, byte, fetched) ==
  IF s.pos[i] > MaxSize - nbytes THEN [s |-> s, err |-> "EFBIG"]
  ELSE Moved(Chunks(s, i, s.pos[i], nbytes, byte, fetched), i)

do_write(s, i, nbytes, byte, fetched) ==
  IF s.pos[i] > MaxSize - nbytes THEN [s |-> s, err |-> "EFBIG"]
  ELSE Moved(Chunks(IF s.pos[i] > s.size[i] THEN clear_zone(s, i, s.size[i], FALSE) ELSE s,
                    i, s.pos[i], nbytes, byte, fetched), i)

\* What the bytes of a file read as.
Content(s, i) ==
  [k \in 1 .. s.size[i] |->
     LET b == read_map(s, i, k - 1) IN IF b = NO_BLOCK THEN 0 ELSE s.blk[b][(k - 1) % BLOCK_SIZE]]

\* Past the end, nothing is read and the position stays.
do_read(s, i, nbytes) ==
  LET left == s.size[i] - s.pos[i]
  IN  [s EXCEPT !.pos[i] = @ + (IF left <= 0 THEN 0 ELSE IF nbytes < left THEN nbytes ELSE left)]

do_lseek(s, i, whence, offset) ==
  LET base == CASE whence = 0 -> 0 [] whence = 1 -> s.pos[i] [] whence = 2 -> s.size[i]
  IN  IF base + offset < 0 THEN s ELSE [s EXCEPT !.pos[i] = base + offset]

\* The data zones as far as the size says, then the indirect ones (link.c).
truncate(s, i) ==
  LET zones == {zone \in Zone : \E n \in 0 .. s.size[i] - 1 :
                   n % ZoneSize = 0 /\ read_map(s, i, n) \div PerZone = zone}
      double == s.zone[i][NR_DZONE_NUM + 1]
      inner == IF double = NO_ZONE THEN <<>>
               ELSE [n \in 1 .. NR_INDIRECTS |-> Entry(s, double, n - 1)] \o <<double>>
  IN  [FoldLeft(free_zone, s, SetToSeq(zones) \o <<s.zone[i][NR_DZONE_NUM]>> \o inner)
         EXCEPT !.size[i] = 0, !.zone[i] = [n \in Slot |-> NO_ZONE]]
-----------------------------------------------------------------------------
(* The calls.                                                              *)

Does(t) == calls < MaxCalls /\ z' = t /\ calls' = calls + 1
Moves(t) == z' = t /\ UNCHANGED calls

\* The faults: a write with a bad address, and one that starts behind the end and fails.
Plain(s, i, r, fetched) == fetched /\ (r.err = OK \/ s.pos[i] <= s.size[i])

Write ==
  \E i \in File, fetched \in BOOLEAN : \E n \in Sizes(i), b \in Byte(i) :
    LET r == do_write(z, i, n, b, fetched)
    IN  (Careful => Plain(z, i, r, fetched)) /\ Does(r.s)
Truncate == \E i \in File : z.size[i] > 0 /\ Does(truncate(z, i))
Read == \E i \in File : \E n \in Reads(i) : Moves(do_read(z, i, n))
Lseek ==
  \E i \in File : \E to \in Seeks(i) :
    LET t == do_lseek(z, i, to[1], to[2]) IN t.pos[i] <= MaxSize /\ Moves(t)

Next == Write \/ Read \/ Lseek \/ Truncate

Spec == Init /\ [][Next]_vars
-----------------------------------------------------------------------------
(* Properties.                                                             *)

\* The places where an i-node keeps zones, with what is there.
Places(i) ==
  LET zn == z.zone[i]
      Under(zone) == {<<zone, n, Entry(z, zone, n)>> : n \in 0 .. NR_INDIRECTS - 1}
      double == zn[NR_DZONE_NUM + 1]
      singles == {zn[NR_DZONE_NUM]} \cup
                 (IF double = NO_ZONE THEN {} ELSE {Entry(z, double, n) : n \in 0 .. NR_INDIRECTS - 1})
  IN  {p \in {<<i, n, zn[n]>> : n \in Slot}
             \cup (IF double = NO_ZONE THEN {} ELSE Under(double))
             \cup UNION {Under(zone) : zone \in singles \ {NO_ZONE}} : p[3] # NO_ZONE}

\* Every zone with a bit in the map is at one place of one file, and the other way
\* round: nothing is lost, freed early or shared.
ZonesOwned ==
  LET places == UNION {Places(i) : i \in File}
  IN  /\ \A p, q \in places : p[3] = q[3] => p = q
      /\ {p[3] : p \in places} = {b + FirstDataZone - 1 : b \in z.zmap \ {0}}
      /\ ~ z.panicked

\* A search that starts anywhere finds a free bit if there is one, and only a free one.
AllocFindsFree ==
  \A origin \in 0 .. map_bits :
    LET b == alloc_bit(z.zmap, origin)
    IN  IF 0 .. map_bits - 1 \subseteq z.zmap THEN b = NO_BIT ELSE b \in (0 .. map_bits - 1) \ z.zmap

Promised ==
  INSTANCE Files WITH content <- [i \in File |-> Content(z, i)], pos <- z.pos

\* The blocks, zones and maps together are files: what was written is read, what was
\* not written reads as zeros, and no file changes with another.
ImplementsFiles == Promised!Spec
=============================================================================
