------------------------------- MODULE Cache --------------------------------
(***************************************************************************)
(* The block cache of FS (fs/cache.c), with the calls that load and unload *)
(* bit maps, flush and invalidate it.  The buffers are linked in an LRU    *)
(* chain and in hash chains; the record c holds them and the globals       *)
(* beside them, and a C routine is an operator from caches to caches.      *)
(* There is one disk; what a block holds is one value.                     *)
(***************************************************************************)
EXTENDS Integers, SequencesExt

CONSTANTS NR_BUFS,
          NR_BUF_HASH,
          RESERVE,       \* buffers that load_bit_maps() leaves for other use
          SUPER_BLOCK,   \* block numbers: the super block,
          MapBlock,      \* the blocks of the bit maps,
          InodeBlock,    \* of i-nodes, directories and zone numbers,
          DataBlock,     \* of data,
          Beyond,        \* and numbers beyond the end of the disk
          Val(_),        \* what a block may hold
          Zeros,         \* a block of zeros
          MaxHeld        \* blocks that FS works on at a time

NO_BLOCK == 0
NIL_BUF == 0

DiskBlock == {SUPER_BLOCK} \cup MapBlock \cup InodeBlock \cup DataBlock
Block == DiskBlock \cup Beyond
Buf == 1 .. NR_BUFS
Value == UNION {Val(block) : block \in Block}
Link == Buf \cup {NIL_BUF}

(* There are buffers, no block has the number NO_BLOCK, every block may    *)
(* hold zeros, and Cardinality(MapBlock) < NR_BUFS - RESERVE: only then     *)
(* do_mount() finds room for the maps.                                     *)

VARIABLES c,      \* the cache and the disk
          open    \* the device is open as a special file

vars == <<c, open>>

\* Field for field struct buf; s_map is what the super block knows of the maps.
Caches ==
  [disk : [DiskBlock -> Value],
   b_dev : [Buf -> {"disk", "NO_DEV"}], b_blocknr : [Buf -> Block \cup {NO_BLOCK}],
   b_dirt : [Buf -> BOOLEAN], b_count : [Buf -> 0 .. MaxHeld + 1], b_data : [Buf -> Value],
   b_next : [Buf -> Link], b_prev : [Buf -> Link], b_hash : [Buf -> Link],
   buf_hash : [0 .. NR_BUF_HASH - 1 -> Link], front : Link, rear : Link,
   bufs_in_use : 0 .. NR_BUFS, s_map : [MapBlock -> Link], panicked : BOOLEAN]

TypeOK == c \in Caches /\ open \in BOOLEAN

buf_pool(disk) ==
  [disk |-> disk,
   b_dev |-> [b \in Buf |-> "NO_DEV"], b_blocknr |-> [b \in Buf |-> NO_BLOCK],
   b_dirt |-> [b \in Buf |-> FALSE], b_count |-> [b \in Buf |-> 0],
   b_data |-> [b \in Buf |-> Zeros],
   b_next |-> [b \in Buf |-> IF b = NR_BUFS THEN NIL_BUF ELSE b + 1],
   b_prev |-> [b \in Buf |-> b - 1],
   b_hash |-> [b \in Buf |-> IF b = NR_BUFS THEN NIL_BUF ELSE b + 1],
   buf_hash |-> [h \in 0 .. NR_BUF_HASH - 1 |-> IF h = NO_BLOCK THEN 1 ELSE NIL_BUF],
   front |-> 1, rear |-> NR_BUFS, bufs_in_use |-> 0,
   s_map |-> [m \in MapBlock |-> NIL_BUF], panicked |-> FALSE]

\* FS starts, perhaps after a crash, with whatever the disk holds.
Init ==
  /\ c = buf_pool([block \in DiskBlock |-> Zeros])
  /\ open = FALSE
-----------------------------------------------------------------------------
(* Chains: the buffers met from start on along next, in that order.        *)

Walk(next, start) ==
  LET Beside(b) == IF b = NIL_BUF THEN NIL_BUF ELSE next[b]
      w[i \in 0 .. NR_BUFS] == IF i = 0 THEN start ELSE Beside(w[i - 1])
  IN  w

\* The first of them with a property, or NIL_BUF.
FirstOf(walk, S) ==
  LET hits == {i \in DOMAIN walk : walk[i] \in S}
  IN  IF hits = {} THEN NIL_BUF ELSE walk[Min(hits)]

hash(block) == block % NR_BUF_HASH

Cached(s, block) == {b \in Buf : s.b_dev[b] = "disk" /\ s.b_blocknr[b] = block}

\* Mutant: only the head of the hash chain is compared.
Found_head(s, block) == FirstOf(<<s.buf_hash[hash(block)]>>, Cached(s, block))

\* The buffer of a block, as get_block() searches it.
Found(s, block) == FirstOf(Walk(s.b_hash, s.buf_hash[hash(block)]), Cached(s, block))

\* The least recently used buffer that nobody uses.
Oldest(s) == FirstOf(Walk(s.b_next, s.front), {b \in Buf : s.b_count[b] = 0})
-----------------------------------------------------------------------------
(* The routines.                                                          *)

\* What a routine does with the result of another one.
After(result, Rest(_)) == Rest(result)

\* The buffer has no block any more, and nobody reads what is in it.
Lost(s, b) == [s EXCEPT !.b_dev[b] = "NO_DEV", !.b_data[b] = Zeros]

\* rw_block(bp, WRITING): at the end of the disk the buffer is given up.
Written(s, b) ==
  LET clean == [s EXCEPT !.b_dirt[b] = FALSE]
  IN  IF s.b_dev[b] = "NO_DEV" THEN clean
      ELSE IF s.b_blocknr[b] \in Beyond THEN Lost(clean, b)
      ELSE [clean EXCEPT !.disk[s.b_blocknr[b]] = s.b_data[b]]

\* rw_block(bp, READING).
ReadIn(s, b) ==
  LET clean == [s EXCEPT !.b_dirt[b] = FALSE]
  IN  IF s.b_blocknr[b] \in Beyond THEN Lost(clean, b)
      ELSE [clean EXCEPT !.b_data[b] = s.disk[s.b_blocknr[b]]]

\* The buffer leaves its hash chain.
unhash(s, b) ==
  LET h == hash(s.b_blocknr[b])
      w == Walk(s.b_hash, s.buf_hash[h])
      before == {p \in Buf : s.b_hash[p] = b /\ \E i \in DOMAIN w : w[i] = p}
  IN  IF s.buf_hash[h] = b THEN [s EXCEPT !.buf_hash[h] = s.b_hash[b]]
      ELSE [s EXCEPT !.b_hash = [p \in Buf |-> IF p \in before THEN s.b_hash[b] ELSE @[p]]]

enhash(s, b) ==
  LET h == hash(s.b_blocknr[b])
  IN  [s EXCEPT !.b_hash[b] = s.buf_hash[h], !.buf_hash[h] = b]

\* Mutant: a modified block is not written before its buffer is taken.
Taken_unsaved(s, b, dev, block) ==
  LET out == unhash([s EXCEPT !.bufs_in_use = @ + 1], b)
  IN  enhash([out EXCEPT !.b_dirt[b] = FALSE, !.b_dev[b] = dev, !.b_blocknr[b] = block,
                         !.b_count[b] = @ + 1], b)

\* The buffer b is taken for a block.
Taken(s, b, dev, block) ==
  LET out   == unhash([s EXCEPT !.bufs_in_use = @ + 1], b)
      saved == IF s.b_dirt[b] /\ s.b_dev[b] # "NO_DEV" THEN Written(out, b) ELSE out
  IN  enhash([saved EXCEPT !.b_dev[b] = dev, !.b_blocknr[b] = block, !.b_count[b] = @ + 1], b)

\* What get_block() leaves, and the buffer it returns.
get_block(s, dev, block, only_search) ==
  After(IF dev = "NO_DEV" THEN NIL_BUF ELSE Found(s, block), LAMBDA found :
    IF found # NIL_BUF
    THEN [bp |-> found,
          s  |-> [s EXCEPT !.b_count[found] = @ + 1,
                           !.bufs_in_use = IF s.b_count[found] = 0 THEN @ + 1 ELSE @]]
    ELSE After(Oldest(s), LAMBDA old :
      IF s.bufs_in_use = NR_BUFS \/ old = NIL_BUF
      THEN [bp |-> NIL_BUF, s |-> [s EXCEPT !.panicked = TRUE]]
      ELSE After(Taken(s, old, dev, block), LAMBDA new :
        [bp |-> old,
         s  |-> IF dev = "disk" /\ only_search = "NORMAL" THEN ReadIn(new, old) ELSE new])))

unlink(s, b) ==
  LET prev == s.b_prev[b]
      next == s.b_next[b]
  IN  [s EXCEPT !.b_next = [p \in Buf |-> IF p = prev THEN next ELSE @[p]],
                !.b_prev = [p \in Buf |-> IF p = next THEN prev ELSE @[p]],
                !.front  = IF prev = NIL_BUF THEN next ELSE @,
                !.rear   = IF next = NIL_BUF THEN prev ELSE @]

at_front(s, b) ==
  [s EXCEPT !.b_next[b] = s.front,
            !.b_prev = [p \in Buf |-> IF p = b THEN NIL_BUF ELSE IF p = s.front THEN b ELSE @[p]],
            !.front = b,
            !.rear  = IF s.front = NIL_BUF THEN b ELSE @]

at_rear(s, b) ==
  [s EXCEPT !.b_prev[b] = s.rear,
            !.b_next = [p \in Buf |-> IF p = b THEN NIL_BUF ELSE IF p = s.rear THEN b ELSE @[p]],
            !.rear  = b,
            !.front = IF s.rear = NIL_BUF THEN b ELSE @]

\* Mutant: blocks of i-nodes may wait.
WRITE_IMMED_maps(type) == type \in {"MAP", "ZUPER"}

\* buf.h: the types of blocks.
WRITE_IMMED(type) == type \in {"INODE", "MAP", "ZUPER"}
ONE_SHOT(type) == type \in {"MAP", "ZUPER"}

\* Nobody uses the buffer any more.
Released(s, b, type) ==
  After(unlink([s EXCEPT !.bufs_in_use = @ - 1], b), LAMBDA cut :
    After(IF ONE_SHOT(type) THEN at_front(cut, b) ELSE at_rear(cut, b), LAMBDA linked :
      After(IF WRITE_IMMED(type) /\ s.b_dirt[b] /\ s.b_dev[b] # "NO_DEV"
            THEN Written(linked, b) ELSE linked, LAMBDA safe :
        IF type = "ZUPER" THEN Lost(safe, b) ELSE safe)))

put_block(s, b, type) ==
  IF b = NIL_BUF THEN s
  ELSE After([s EXCEPT !.b_count[b] = @ - 1], LAMBDA less :
         IF less.b_count[b] > 0 THEN less ELSE Released(less, b, type))

\* Op for each of a sequence's elements, as FoldLeft(), which takes TLC longer.
Through(Op(_, _), s, seq) ==
  LET f[k \in 0 .. Len(seq)] == IF k = 0 THEN s ELSE Op(f[k - 1], seq[k])
  IN  f[Len(seq)]

Maps == SetToSeq(MapBlock)

load_bit_maps(s) ==
  LET Load(t, m) == After(get_block(t, "disk", m, "NORMAL"), LAMBDA got :
                      [got.s EXCEPT !.s_map[m] = got.bp])
  IN  [Through(Load, s, Maps) EXCEPT !.bufs_in_use = @ + Len(Maps)]

unload_bit_maps(s) ==
  LET Unload(t, m) == [put_block(t, t.s_map[m], "MAP") EXCEPT !.s_map[m] = NIL_BUF]
  IN  Through(Unload, [s EXCEPT !.bufs_in_use = @ - Len(Maps)], Maps)

\* The end of do_sync().  What it first does with i-nodes and super blocks that are
\* to be written, if there are any, are the steps Get, GetNew, Modify and Put below.
Flushed(s) ==
  LET Flush(t, b) == IF t.b_dirt[b] /\ t.b_dev[b] # "NO_DEV" THEN Written(t, b) ELSE t
  IN  Through(Flush, s, [b \in Buf |-> b])

invalidate(s) ==
  [s EXCEPT !.b_dev = [b \in Buf |-> "NO_DEV"], !.b_data = [b \in Buf |-> Zeros]]
-----------------------------------------------------------------------------
(* What FS does with blocks.  It is one process, and between two calls it  *)
(* holds none but those of the bit maps.                                   *)

mounted == \E m \in MapBlock : c.s_map[m] # NIL_BUF

\* How often b is held by the call FS works on.
Uses(b) == c.b_count[b] - Cardinality({m \in MapBlock : c.s_map[m] = b})
AtWork == \E b \in Buf : Uses(b) > 0
MayHoldMore == Cardinality({<<b, n>> \in Buf \X (1 .. MaxHeld) : n <= Uses(b)}) < MaxHeld

\* The blocks a call may want, as special files allow and as file systems do.
Wanted == IF open THEN Block ELSE IF mounted THEN DiskBlock ELSE {}

Get(block) ==
  /\ block \in Wanted
  /\ MayHoldMore /\ ~ c.panicked
  /\ c' = get_block(c, "disk", block, "NORMAL").s
  /\ UNCHANGED open

\* A block that is overwritten as a whole: zero_block(), rw_super(), rw_chunk().
GetNew(block, v) ==
  LET got == get_block(c, "disk", block, "NO_READ")
  IN  /\ block \in Wanted
      /\ v \in Val(block)
      /\ MayHoldMore /\ ~ c.panicked
      /\ c' = IF got.bp = NIL_BUF THEN got.s
              ELSE [got.s EXCEPT !.b_data[got.bp] = v, !.b_dirt[got.bp] = TRUE]
      /\ UNCHANGED open

\* A hole in a file reads as zeros: any buffer will do.
GetHole ==
  LET got == get_block(c, "NO_DEV", NO_BLOCK, "NORMAL")
  IN  /\ mounted
      /\ MayHoldMore /\ ~ c.panicked
      /\ c' = IF got.bp = NIL_BUF THEN got.s
              ELSE [got.s EXCEPT !.b_data[got.bp] = Zeros, !.b_dirt[got.bp] = TRUE]
      /\ UNCHANGED open

Modify(b, v) ==
  /\ Uses(b) > 0 \/ \E m \in MapBlock : c.s_map[m] = b
  /\ c.b_dev[b] = "disk" /\ v \in Val(c.b_blocknr[b])
  /\ ~ c.panicked
  /\ c' = [c EXCEPT !.b_data[b] = v, !.b_dirt[b] = TRUE]
  /\ UNCHANGED open

\* The type that a caller gives with a block; a special file has data only.
TypesOf(block) ==
  (IF open \/ block \in DataBlock \cup {NO_BLOCK} THEN {"DATA"} ELSE {})
    \cup (IF block = SUPER_BLOCK /\ mounted THEN {"ZUPER"}
          ELSE IF block \in InodeBlock /\ mounted THEN {"INODE"} ELSE {})

Put(b, type) ==
  /\ Uses(b) > 0
  /\ ~ c.panicked
  /\ c' = put_block(c, b, type)
  /\ UNCHANGED open

do_sync ==
  /\ ~ AtWork /\ ~ c.panicked
  /\ c' = Flushed(c)
  /\ UNCHANGED open

\* The block is read, looked at and put back.
ReadOnce(s, block, type) ==
  After(get_block(s, "disk", block, "NORMAL"), LAMBDA got : put_block(got.s, got.bp, type))

\* The super block, the root i-node and the bit maps are read.  The super block may
\* be bad, the root i-node may not do, and it may turn out only now not to fit.
do_mount ==
  \E block \in InodeBlock :
    LET super  == ReadOnce(c, SUPER_BLOCK, "ZUPER")
        root   == ReadOnce(super, block, "INODE")
        loaded == load_bit_maps(root)
    IN  /\ ~ AtWork /\ ~ c.panicked
        /\ ~ mounted
        /\ c' \in {super, loaded, invalidate(Flushed(root)), invalidate(Flushed(unload_bit_maps(loaded)))}
        /\ UNCHANGED open

\* Also the cache of a device that is not mounted is flushed and invalidated.
do_umount ==
  /\ ~ AtWork /\ ~ c.panicked
  /\ c' = invalidate(Flushed(IF mounted THEN unload_bit_maps(c) ELSE c))
  /\ UNCHANGED open

Open ==
  /\ ~ AtWork /\ ~ c.panicked
  /\ ~ open
  /\ open' = TRUE
  /\ UNCHANGED c

\* One descriptor of the block special file is closed; there may be others.
do_close ==
  /\ ~ AtWork /\ ~ c.panicked
  /\ open
  /\ c' = IF mounted THEN Flushed(c) ELSE invalidate(Flushed(c))
  /\ open' \in BOOLEAN

\* Another diskette is put in while nobody uses the device.
Change(v) ==
  /\ ~ mounted /\ ~ open /\ ~ c.panicked
  /\ c' = [c EXCEPT !.disk = [block \in DiskBlock |-> IF v \in Val(block) THEN v ELSE @[block]]]
  /\ UNCHANGED open

Next ==
  \/ \E block \in Block : Get(block) \/ \E v \in Value : GetNew(block, v)
  \/ \E v \in Value : Change(v) \/ \E b \in Buf : Modify(b, v)
  \/ \E b \in Buf : \E type \in TypesOf(c.b_blocknr[b]) : Put(b, type)
  \/ GetHole \/ do_sync \/ do_mount \/ do_umount \/ Open \/ do_close

Spec == Init /\ [][Next]_vars
-----------------------------------------------------------------------------
(* Properties.                                                             *)

Members(walk) == {walk[i] : i \in DOMAIN walk} \ {NIL_BUF}
\* A walk meets a set of buffers exactly, and ends after the last of them.
Lists(walk, S) == Members(walk) = S /\ walk[Cardinality(S)] = NIL_BUF

\* buf.h: all buffers are in the LRU chain, used or not, and the reverse chain is
\* its mirror image, however blocks are taken from its middle and put at its ends.
LruChain ==
  /\ Lists(Walk(c.b_next, c.front), Buf)
  /\ Lists(Walk(c.b_prev, c.rear), Buf)
  /\ \A b \in Buf : c.b_next[b] # NIL_BUF => c.b_prev[c.b_next[b]] = b

\* Every buffer is in the hash chain of its block number and in no other, also when
\* it has lost its block: otherwise a block that is in memory is not found.
HashChains ==
  \A h \in DOMAIN c.buf_hash :
    Lists(Walk(c.b_hash, c.buf_hash[h]), {b \in Buf : hash(c.b_blocknr[b]) = h})

\* get_block() and put_block() keep both chains whole, each changing its own links only.
ChainsWhole == LruChain /\ HashChains

\* No block has two buffers, whose writes would get lost.
OneCopy == \A block \in Block : Cardinality(Cached(c, block)) <= 1

\* bufs_in_use is the number of buffers in use, those of loaded bit maps counted twice
\* until they are unloaded, and it never gets so high that get_block() panics.
InUseCounted ==
  /\ ~ c.panicked
  /\ c.bufs_in_use = Cardinality({b \in Buf : c.b_count[b] > 0})
                       + Cardinality({m \in MapBlock : c.s_map[m] # NIL_BUF})

\* "Blocks whose loss can hurt the integrity of the file system (e.g., inode blocks)
\* are written to disk immediately" (cache.c): between two calls a crash loses data
\* and bit maps only.
ImportantOnDisk ==
  ~ open => \A b \in Buf :
    c.b_count[b] = 0 /\ c.b_dev[b] = "disk" /\ c.b_blocknr[b] \in InodeBlock \cup {SUPER_BLOCK}
      => c.b_data[b] = c.disk[c.b_blocknr[b]]

\* What a block holds for those who read it.
Content(block) == IF Cached(c, block) = {} THEN c.disk[block]
                  ELSE c.b_data[CHOOSE b \in Cached(c, block) : TRUE]

\* No block changes unless somebody writes that block: evictions, read-ins, flushes,
\* mounts and invalidations keep what every block holds.  Another diskette is seen.
WritesChange ==
  /\ \A block \in {b \in DiskBlock : Content(b)' # Content(b)} :
       \/ \E v \in Value : GetNew(block, v) \/ Change(v)
       \/ \E b \in Cached(c, block), v \in Value : Modify(b, v)
  /\ \A v \in Value : Change(v) => \A block \in DiskBlock : v \in Val(block) => Content(block)' = v

OnlyWritesChange == [][WritesChange]_vars
=============================================================================
