------------------------------- MODULE Copies -------------------------------
(***************************************************************************)
(* Who moves bytes: the system task's half that knows memory (umap(),      *)
(* do_copy(), do_newmap(), do_sig(), do_getsp(), do_exec(), do_fork() of   *)
(* kernel/system.c), the copying of klib88.asm, the memory driver, the DMA *)
(* set-up of the floppy driver with the buffer pool of FS that is made for *)
(* it, and what MM's fork, exec and signals and FS's rw_user() ask of      *)
(* them.  A word is one byte here.  A register pair reaches                *)
(* segment * CLICK_SIZE + offset, and an offset wraps at WORD.             *)
(***************************************************************************)
EXTENDS Integers, Sequences, FiniteSets, SequencesExt

CONSTANTS
  CLICK_SIZE, WORD,   \* 16 and 2^16
  UNIT,               \* what phys_copy() moves in a round, 2^15
  Page,               \* what the DMA chip can count through, 64K
  Given,              \* the first contents of the memory
  BASE, sizes,        \* the kernel's first click; its text and data, in clicks
  MmClick, MmLen, FsLen,
  Bases,              \* where FS can start, in clicks
  BLOCK_SIZE, NR_BUFS, Header,   \* buffers of Header + BLOCK_SIZE bytes
  SIG_PUSH_BYTES, ZEROBUF_SIZE, MAX_ISTACK_BYTES,
  User, First, Areas, \* processes, the first one, and the first clicks of the areas that MM has for them
  FirstMap,           \* the map of the first process, its addresses relative to its area
  RamFirst, RamBlocks, MEM_BYTES,
  File,               \* programs: [text, data, bss, total]
  Requests,           \* what processes and devices may ask for, see below
  MaxCalls,
  Careful             \* buffers end in the segment they start in, no fork in a handler

VARIABLE k   \* memory, maps, registers, devices: see Init
-----------------------------------------------------------------------------
\* klib88.asm: the byte at an offset from a 32-bit address's paragraph.
Linear(addr, i) ==
  (((addr \div CLICK_SIZE) % WORD) * CLICK_SIZE) + (((addr % CLICK_SIZE) + i) % WORD)

\* rep movs: n bytes (words if n is even), between places that do not overlap.
Movs(m, src, dst, n) ==
  [a \in DOMAIN m |-> IF \E h \in 0 .. n - 1 : Linear(dst, h) = a
                      THEN m[Linear(src, CHOOSE h \in 0 .. n - 1 : Linear(dst, h) = a)]
                      ELSE m[a]]

\* The source of the second round is not moved on.
RECURSIVE phys_copy_still(_, _, _, _)
phys_copy_still(m, src, dst, n) ==
  LET count == IF n > UNIT THEN UNIT ELSE n
      moved == Movs(m, src, dst, count)
  IN IF n > count THEN phys_copy_still(moved, src, dst + count, n - count) ELSE moved

RECURSIVE phys_copy(_, _, _, _)
phys_copy(m, src, dst, n) ==
  LET count == IF n > UNIT THEN UNIT ELSE n
      moved == Movs(m, src, dst, count)
  IN IF n > count THEN phys_copy(moved, src + count, dst + count, n - count) ELSE moved

get_byte(m, addr, i) == m[Linear(addr, i)]

\* Words of a port come to memory, or go from it.
port_read(m, addr, words) ==
  [a \in DOMAIN m |-> IF \E h \in DOMAIN words : Linear(addr, h - 1) = a
                      THEN words[CHOOSE h \in DOMAIN words : Linear(addr, h - 1) = a] ELSE m[a]]
port_write(m, addr, n) == [h \in 1 .. n |-> m[Linear(addr, h - 1)]]

\* What the DMA chip reaches: its address counter does not carry into the page.
Dma(addr, i) == ((addr \div Page) * Page) + ((addr + i) % Page)
-----------------------------------------------------------------------------
\* The physical address, or 0.  D may be S: the gap is a legal stack reference.
umap(map, seg, vir, bytes) ==
  LET vc == ((vir + bytes - 1) % WORD) \div CLICK_SIZE
      s == IF seg = "T" THEN "T" ELSE IF vc < map["D"].vir + map["D"].len THEN "D" ELSE "S"
  IN IF bytes <= 0 \/ vir \div CLICK_SIZE >= map[s].vir + map[s].len THEN 0
     ELSE map[s].phys * CLICK_SIZE + vir - map[s].vir * CLICK_SIZE

\* How far the process's data space goes, the stack included.
Top(map) == (map["S"].vir + map["S"].len) * CLICK_SIZE

Seg(vir, phys, len) == [vir |-> vir, phys |-> phys, len |-> len]
Server(click, len) == [T |-> Seg(0, click, 0), D |-> Seg(0, click, len), S |-> Seg(len, click + len, 0)]
Placed(map, click) == [s \in {"T", "D", "S"} |-> [map[s] EXCEPT !.phys = @ + click]]
Registers(map, regs) == [regs EXCEPT !.cs = map["T"].phys, !.ds = map["D"].phys]

\* A copy asked of the system task.  ABS is a physical address.
do_copy(t, src, sseg, svir, dst, dseg, dvir, n) ==
  LET from == IF src = "ABS" THEN svir ELSE umap(t.map[src], sseg, svir, n % WORD)
      to == IF dst = "ABS" THEN dvir ELSE umap(t.map[dst], dseg, dvir, n % WORD)
  IN IF from = 0 \/ to = 0 THEN [t EXCEPT !.r = "EFAULT"]
     ELSE [t EXCEPT !.mem = phys_copy(@, from, to, n), !.r = "OK"]

mem_copy(t, src, sseg, svir, dst, dseg, dvir, n) ==
  IF n = 0 THEN [t EXCEPT !.r = "OK"] ELSE do_copy(t, src, sseg, svir, dst, dseg, dvir, n)

rw_user(t, seg, p, vir, n, buff, toUser) ==
  IF toUser THEN do_copy(t, "FS", "D", buff, p, seg, vir, n)
  ELSE do_copy(t, p, seg, vir, "FS", "D", buff, n)

\* The segment registers stay.
do_newmap_map(t, p, map) == [t EXCEPT !.map[p] = map, !.nomap = @ \ {p}]

\* The new map, and the segment registers; the process may run now.
do_newmap(t, p, map) ==
  [t EXCEPT !.map[p] = map, !.regs[p] = Registers(map, @), !.nomap = @ \ {p}]
-----------------------------------------------------------------------------
\* FS's buffers: b_data is at this offset in FS's data.
b_data(b) == b * (Header + BLOCK_SIZE) + Header
Buf == 0 .. NR_BUFS - 1

\* The pool's list without the buffers that lie across a 64K boundary: bp->b_prev->b_next
\* and bp->b_next->b_prev are changed, at the ends front and rear.
Spans(base, b) ==
  (base * CLICK_SIZE + b_data(b)) \div Page # (base * CLICK_SIZE + b_data(b) + BLOCK_SIZE - 1) \div Page

Delete(l, b) ==
  IF b = 0 THEN [l EXCEPT !.front = 1, !.prev[1] = -1]
  ELSE IF b = NR_BUFS - 1 THEN [l EXCEPT !.rear = NR_BUFS - 2, !.next[NR_BUFS - 2] = -1]
  ELSE [l EXCEPT !.next[l.prev[b]] = b + 1, !.prev[l.next[b]] = b - 1]

Linked ==
  [front |-> 0, rear |-> NR_BUFS - 1,
   next |-> [b \in Buf |-> IF b = NR_BUFS - 1 THEN -1 ELSE b + 1], prev |-> [b \in Buf |-> b - 1]]
InTurn == [i \in 1 .. NR_BUFS |-> i - 1]

buf_pool(base) == FoldLeft(LAMBDA l, b : IF Spans(base, b) THEN Delete(l, b) ELSE l, Linked, InTurn)

\* The buffers of the list.
RECURSIVE From(_, _)
From(l, b) == IF b = -1 THEN {} ELSE {b} \cup From(l, l.next[b])
Pool(base) == LET l == buf_pool(base) IN From(l, l.front)
-----------------------------------------------------------------------------
EOF == -104
E_BAD_ADDR == -10
Dev == {"ram", "mem", "kmem"}
Users(f) == [p \in User |-> f]
None == <<>>

\* The memory driver's devices; the limit of /dev/kmem is the kernel's size.
mem_task ==
  [org |-> [d \in Dev |-> IF d = "kmem" THEN (BASE + sizes[1]) * CLICK_SIZE ELSE 0],
   limit |-> [d \in Dev |-> CASE d = "kmem" -> (sizes[1] + sizes[2]) * CLICK_SIZE
                              [] d = "mem" -> MEM_BYTES [] OTHER -> 0]]

do_setup(t, d, position, count) ==
  [t EXCEPT !.org[d] = position, !.limit[d] = position + count * BLOCK_SIZE]

\* FS has told where the RAM disk is.
Devices == do_setup(mem_task, "ram", RamFirst * CLICK_SIZE, RamBlocks)

\* The first process is at work.
Init ==
  \E base \in Bases :
    LET area == CHOOSE c \in Areas : \A d \in Areas : c <= d
        maps == [p \in User \cup {"MM", "FS", "SYS"} |->
                   CASE p = "MM" -> Server(MmClick, MmLen)
                     [] p = "FS" -> Server(base, FsLen)
                     [] p = "SYS" -> Server(BASE + sizes[1], sizes[2])
                     [] OTHER -> Placed(FirstMap, area)]
    IN k = [mem |-> Given, map |-> maps, r |-> "OK",
            regs |-> [p \in User |-> Registers(maps[p], [pc |-> 1, psw |-> 2, sp |-> Top(FirstMap), cs |-> 0, ds |-> 0])],
            alive |-> {First}, nomap |-> {}, child |-> None, frames |-> Users(0), pool |-> Pool(base),
            ram |-> Devices,
            panic |-> FALSE, did |-> [op |-> "none"], calls |-> 0]

Busy == k.child # None       \* MM is in the middle of a fork
Runs(p) == p \in k.alive \ k.nomap /\ (Busy => p # k.child[1])
Done(t, did) == k' = [t EXCEPT !.did = did, !.calls = @ + 1]

\* Careful: what a buffer's first byte is in has its last byte too, and what a process has
\* FS write over are not its live frames.
Fits(p, seg, vir, n) ==
  LET top == IF seg = "T" THEN k.map[p]["T"].len * CLICK_SIZE ELSE Top(k.map[p])
  IN Careful => vir >= top \/ vir + n <= top
Unframed(p, vir, n) ==
  \A v \in vir .. vir + n - 1 : v \notin k.regs[p].sp .. k.regs[p].sp + SIG_PUSH_BYTES * k.frames[p] - 1
-----------------------------------------------------------------------------
\* FS reads or writes for a process: a chunk of a block.
RwUser ==
  \E p \in User, q \in Requests.chunks, toUser \in BOOLEAN :
    /\ Runs(p) /\ Fits(p, "D", q[1], q[2]) /\ (toUser => Unframed(p, q[1], q[2]))
    /\ LET b == CHOOSE b \in k.pool : TRUE
           t == rw_user(k, "D", p, q[1], q[2], b_data(b) + q[3], toUser)
           user == <<p, "D">>
           fs == <<"FS", "D">>
       IN Done(t, [op |-> "copy", src |-> IF toUser THEN fs ELSE user, dst |-> IF toUser THEN user ELSE fs,
                   i |-> IF toUser THEN b_data(b) + q[3] ELSE q[1],
                   j |-> IF toUser THEN q[1] ELSE b_data(b) + q[3], n |-> q[2], reply |-> t.r])

\* The memory driver.
do_mem ==
  \E p \in User, d \in Dev, q \in Requests.device, read \in BOOLEAN :
    LET phys == k.ram.org[d] + q[1]
        count == IF phys + q[2] > k.ram.limit[d] THEN k.ram.limit[d] - phys ELSE q[2]
        user == umap(k.map[p], "D", q[3], count)
        reply == IF phys >= k.ram.limit[d] THEN EOF ELSE IF user = 0 THEN E_BAD_ADDR ELSE count
    IN /\ Runs(p) /\ Fits(p, "D", q[3], q[2]) /\ Fits(p, "D", q[3], count)
       /\ (read => Unframed(p, q[3], q[2]))
       /\ (d = "mem" => q[1] >= BASE * CLICK_SIZE /\ q[1] + q[2] <= MmClick * CLICK_SIZE)
       /\ Done(IF reply \in {EOF, E_BAD_ADDR} THEN k
               ELSE [k EXCEPT !.mem = IF read THEN phys_copy(@, phys, user, count)
                                      ELSE phys_copy(@, user, phys, count)],
               [op |-> "device", dev |-> d, owner |-> <<IF d = "ram" THEN "ram" ELSE "SYS", "D">>,
                first |-> IF d = "ram" THEN 0 ELSE k.ram.org[d] - BASE * CLICK_SIZE,
                i |-> q[1], n |-> q[2], user |-> <<p, "D">>, j |-> q[3], read |-> read, reply |-> reply])

\* What a disk's block is to see.
Moving(read, b, block, out) ==
  IF read THEN [op |-> "load", dst |-> <<"FS", "D">>, j |-> b_data(b), block |-> block]
  ELSE [op |-> "store", src |-> <<"FS", "D">>, i |-> b_data(b), n |-> BLOCK_SIZE, out |-> out]

\* A diskette's block comes into a buffer or goes out of it, by DMA.
dma_setup(base) == umap(k.map["FS"], "D", base, BLOCK_SIZE)

DmaBlock ==
  \E b \in k.pool, block \in Requests.blocks, read \in BOOLEAN :
    LET phys == dma_setup(b_data(b))
        last == phys + BLOCK_SIZE - 1
    IN IF phys = 0 \/ phys \div Page # last \div Page
       THEN k' = [k EXCEPT !.panic = TRUE]
       ELSE Done(IF read THEN [k EXCEPT !.mem = [a \in DOMAIN @ |->
                   IF \E h \in 1 .. BLOCK_SIZE : Dma(phys, h - 1) = a
                   THEN block[CHOOSE h \in 1 .. BLOCK_SIZE : Dma(phys, h - 1) = a] ELSE @[a]]]
                 ELSE k, Moving(read, b, block, [h \in 1 .. BLOCK_SIZE |-> k.mem[Dma(phys, h - 1)]]))

\* A winchester's, through a port.
PortBlock ==
  \E b \in k.pool, block \in Requests.blocks, read \in BOOLEAN :
    LET phys == umap(k.map["FS"], "D", b_data(b), BLOCK_SIZE)
    IN Done(IF read THEN [k EXCEPT !.mem = port_read(@, phys, block)] ELSE k,
            Moving(read, b, block, port_write(k.mem, phys, BLOCK_SIZE)))

\* Characters for the terminal are fetched one by one (console()).
Console ==
  \E p \in User, q \in Requests.chunks :
    LET phys == umap(k.map[p], "D", q[1], q[2])
    IN /\ Runs(p) /\ Fits(p, "D", q[1], q[2])
       /\ Done(k, [op |-> "store", src |-> <<p, "D">>, i |-> q[1], n |-> q[2],
                   out |-> IF phys = 0 THEN <<>> ELSE [h \in 1 .. q[2] |-> get_byte(k.mem, phys, h - 1)]])
-----------------------------------------------------------------------------
\* The areas nobody is in.
Free(c) == \A p \in k.alive : k.map[p]["T"].phys # c
Total(map) == map["T"].len + map["S"].vir + map["S"].len

\* MM's fork: the image is copied between physical addresses, sys_fork() copies the slot,
\* and the child waits for its map.
sys_fork ==
  \E p \in k.alive, c \in User \ k.alive, area \in Areas :
    /\ ~Busy /\ Free(area) /\ (Careful => k.frames[p] = 0)
    /\ LET t == mem_copy(k, "ABS", "T", k.map[p]["T"].phys * CLICK_SIZE,
                         "ABS", "T", area * CLICK_SIZE, Total(k.map[p]) * CLICK_SIZE)
       IN Done([t EXCEPT !.map[c] = k.map[p], !.regs[c] = k.regs[p], !.frames[c] = k.frames[p],
                         !.alive = @ \cup {c}, !.nomap = @ \cup {c}, !.child = <<p, c, area>>],
               [op |-> "forking"])

\* The child's map is the parent's, elsewhere.
do_fork ==
  /\ Busy
  /\ LET p == k.child[1] c == k.child[2] base == k.child[3]
         map == [T |-> [k.map[p]["T"] EXCEPT !.phys = base],
                 D |-> [k.map[p]["D"] EXCEPT !.phys = base + k.map[p]["T"].len],
                 S |-> [k.map[p]["S"] EXCEPT !.phys = base + k.map[p]["T"].len
                                                      + (@ - k.map[p]["D"].phys)]]
     IN Done([do_newmap(k, c, map) EXCEPT !.child = None], [op |-> "fork", p |-> p, child |-> c])

sys_xit ==
  \E p \in k.alive :
    /\ ~Busy /\ k.alive # {p}
    /\ Done([k EXCEPT !.alive = @ \ {p}, !.frames[p] = 0], [op |-> "exit", p |-> p])

\* brk(): the data segment takes or gives clicks of the gap.
brk ==
  \E p \in k.alive, clicks \in Requests.clicks :
    /\ ~Busy /\ clicks <= k.map[p]["S"].vir
    /\ Done(do_newmap(k, p, [k.map[p] EXCEPT !["D"].len = clicks]), [op |-> "brk"])
-----------------------------------------------------------------------------
\* The words of the arguments: the pointers of two lists that end with 0 are relocated.
RECURSIVE Patched(_, _, _, _)
Patched(words, i, flag, base) ==
  IF flag = 2 \/ i > Len(words) THEN words
  ELSE IF words[i] # 0 THEN Patched([words EXCEPT ![i] = @ + base], i + 1, flag, base)
  ELSE Patched(words, i + 1, flag + 1, base)
patch_ptr(stack, base) == Patched(stack, 2, 0, base)

Put(m, at, words) ==
  [a \in DOMAIN m |-> IF a \in at .. at + Len(words) - 1 THEN words[a - at + 1] ELSE m[a]]

\* From the end of the data on, a click's rest included, there are zeros.
RECURSIVE Zeroed(_, _, _)
Zeroed(t, base, bytes) ==
  IF bytes <= 0 THEN t
  ELSE LET count == IF bytes < ZEROBUF_SIZE THEN bytes ELSE ZEROBUF_SIZE
       IN Zeroed(mem_copy(t, "MM", "D", MAX_ISTACK_BYTES, "ABS", "D", base, count),
                 base + count, bytes - count)

\* A segment, chunk by chunk through a buffer: MM has FS read for the process.
RECURSIVE load_seg(_, _, _, _, _, _, _)
load_seg(t, file, p, seg, vir, pos, n) ==
  IF n = 0 THEN t
  ELSE LET off == pos % BLOCK_SIZE
           chunk == IF n < BLOCK_SIZE - off THEN n ELSE BLOCK_SIZE - off
           b == CHOOSE b \in t.pool : TRUE
           block == [h \in 1 .. BLOCK_SIZE |->
                       IF pos - off + h <= Len(file) THEN file[pos - off + h] ELSE 0]
           cached == [t EXCEPT !.mem = Put(@, t.map["FS"]["D"].phys * CLICK_SIZE + b_data(b), block)]
       IN load_seg(rw_user(cached, seg, p, vir, chunk, b_data(b) + off, TRUE),
                   file, p, seg, vir + chunk, pos + chunk, n - chunk)

ClicksOf(bytes) == (bytes + CLICK_SIZE - 1) \div CLICK_SIZE
\* An exec file: a header, the text and the data.
OnDisk(f) == [h \in 1 .. Header |-> 0] \o f.text \o f.data

\* The arguments are fetched, the map is new, its data zeroed, the arguments put on the
\* stack, text and data read.  sys_exec() sets sp and pc.
do_exec ==
  \E p \in k.alive, f \in File, q \in Requests.stacks, area \in Areas :
    /\ ~Busy /\ k.nomap = {} /\ (Free(area) \/ k.map[p]["T"].phys = area)
    /\ q[1] + q[2] <= Top(k.map[p])
    /\ LET text == ClicksOf(Len(f.text))
           data == ClicksOf(Len(f.data) + f.bss)
           stack == ClicksOf(q[2])
           map == [T |-> Seg(0, area, text), D |-> Seg(0, area + text, data),
                   S |-> Seg(f.total - stack, area + text + f.total - stack, stack)]
           vsp == map["S"].vir * CLICK_SIZE
           offset == (Len(f.data) \div CLICK_SIZE) * CLICK_SIZE
           fetched == mem_copy(k, p, "D", q[1], "MM", "D", 0, q[2])
           mbuf == MmClick * CLICK_SIZE
           zeroed == Zeroed([do_newmap(fetched, p, map) EXCEPT
                               !.mem = Put(@, mbuf + MAX_ISTACK_BYTES, [h \in 1 .. ZEROBUF_SIZE |-> 0])],
                            (area + text) * CLICK_SIZE + offset, f.total * CLICK_SIZE - offset)
           patched == [zeroed EXCEPT !.mem = Put(@, mbuf,
                         patch_ptr([h \in 1 .. MAX_ISTACK_BYTES |-> @[mbuf + h - 1]], vsp))]
           pushed == mem_copy(patched, "MM", "D", 0, p, "D", vsp, q[2])
           loaded == load_seg(load_seg(pushed, OnDisk(f), p, "T", 0, Header, Len(f.text)),
                              OnDisk(f), p, "D", 0, Header + Len(f.text), Len(f.data))
       IN /\ data + stack <= f.total
          /\ Done([loaded EXCEPT !.regs[p].sp = vsp, !.regs[p].pc = 0, !.frames[p] = 0],
                  [op |-> "exec", p |-> p, file |-> f, i |-> q[1], n |-> q[2], base |-> vsp,
                   size |-> f.total * CLICK_SIZE])
-----------------------------------------------------------------------------
do_getsp(p) == k.regs[p].sp

\* adjust(): the stack segment reaches down to the new stack pointer.
Adjusted(map, sp) ==
  LET down == map["S"].vir - sp \div CLICK_SIZE
  IN IF down <= 0 THEN map
     ELSE [map EXCEPT !["S"] = Seg(@.vir - down, @.phys - down, @.len + down)]

build_sig(regs, sig) == <<sig, regs.pc, regs.cs, regs.psw>>
sig_stuff == (BASE + sizes[1]) * CLICK_SIZE

\* The frame goes from the system task's sig_stuff to the process's stack.
do_sig(t, p, sig, handler) ==
  LET sp == t.regs[p].sp - SIG_PUSH_BYTES
      built == [t EXCEPT !.mem = Put(@, sig_stuff, build_sig(t.regs[p], sig))]
      src == umap(t.map["SYS"], "D", 0, SIG_PUSH_BYTES)
      dst == umap(t.map[p], "S", sp, SIG_PUSH_BYTES)
  IN IF dst = 0 THEN [t EXCEPT !.panic = TRUE]
     ELSE [built EXCEPT !.mem = phys_copy(@, src, dst, SIG_PUSH_BYTES),
                        !.regs[p].sp = sp, !.regs[p].pc = handler, !.frames[p] = @ + 1]

\* MM's sig_proc(), for a signal that is caught and for which the stack has room.
sig_proc ==
  \E p \in k.alive, sig \in Requests.signals :
    LET sp == do_getsp(p) - SIG_PUSH_BYTES
    IN /\ ~Busy /\ Runs(p)
       /\ sp >= 0 /\ sp \div CLICK_SIZE >= k.map[p]["D"].len
       /\ LET map == Adjusted(k.map[p], sp)
          IN Done(do_sig(IF map = k.map[p] THEN k ELSE do_newmap(k, p, map), p, sig, 7 + sig),
                  [op |-> "signal", p |-> p, handler |-> 7 + sig, n |-> SIG_PUSH_BYTES])

\* The handler's end: the signal's number is taken off, and iret takes the rest.
begsig ==
  \E p \in User :
    LET at == umap(k.map[p], "D", k.regs[p].sp, SIG_PUSH_BYTES)
    IN /\ Runs(p) /\ k.frames[p] > 0
       /\ Done([k EXCEPT !.regs[p] = [@ EXCEPT !.pc = k.mem[at + 1], !.cs = k.mem[at + 2],
                                              !.psw = k.mem[at + 3], !.sp = @ + SIG_PUSH_BYTES],
                         !.frames[p] = @ - 1],
               [op |-> "return", p |-> p])
-----------------------------------------------------------------------------
Next ==
  /\ k.calls < MaxCalls /\ ~k.panic
  /\ \/ RwUser \/ do_mem \/ DmaBlock \/ PortBlock \/ Console
     \/ sys_fork \/ do_fork \/ sys_xit \/ brk \/ do_exec \/ sig_proc \/ begsig

vars == k
Spec == Init /\ [][Next]_vars
-----------------------------------------------------------------------------
\* A process that may run does so in its own memory, and nobody else's: its segment
\* registers are those of its map (do_newmap(), build_sig()), and the areas differ.
RunsInItsOwn ==
  \A p \in k.alive \ k.nomap :
    /\ k.regs[p].cs = k.map[p]["T"].phys /\ k.regs[p].ds = k.map[p]["D"].phys
    /\ \A q \in k.alive \ (k.nomap \cup {p}) : k.map[p]["T"].phys # k.map[q]["T"].phys

\* The kernel's panics do not happen: a diskette's block never goes to a buffer that the
\* DMA chip cannot reach (buf_pool(), dma_setup()), nor a signal to a bad stack pointer.
NoPanic == ~k.panic

\* The spaces, each read through its process's map; suspended contexts from the stacks.
Bytes(first, n) == [v \in 0 .. n - 1 |-> k.mem[first + v]]
Exists(p) == p \in k.alive \ k.nomap
Keys == (User \X {"T", "D"}) \cup {<<"FS", "D">>, <<"SYS", "D">>, <<"ram", "D">>}
SpaceOf(s) ==
  CASE s[1] = "FS" -> Bytes(k.map["FS"]["D"].phys * CLICK_SIZE, FsLen * CLICK_SIZE)
    [] s[1] = "SYS" -> Bytes(BASE * CLICK_SIZE, (MmClick - BASE) * CLICK_SIZE)
    [] s[1] = "ram" -> Bytes(k.ram.org["ram"], RamBlocks * BLOCK_SIZE)
    [] ~Exists(s[1]) -> <<>>
    [] s[2] = "T" -> Bytes(k.map[s[1]]["T"].phys * CLICK_SIZE, k.map[s[1]]["T"].len * CLICK_SIZE)
    [] OTHER -> Bytes(k.map[s[1]]["D"].phys * CLICK_SIZE, Top(k.map[s[1]]))

ContextOf(p) ==
  IF ~Exists(p) THEN <<>> ELSE [pc |-> k.regs[p].pc, psw |-> k.regs[p].psw, sp |-> k.regs[p].sp]
SavedOf(p) ==
  IF ~Exists(p) THEN <<>>
  ELSE [i \in 1 .. k.frames[p] |->
          LET sp == k.regs[p].sp + (i - 1) * SIG_PUSH_BYTES
              at == k.map[p]["D"].phys * CLICK_SIZE + sp
          IN [pc |-> k.mem[at + 1], psw |-> k.mem[at + 3], sp |-> sp + SIG_PUSH_BYTES]]

S == INSTANCE Spaces WITH
  Text <- LAMBDA f : f.text, Data <- LAMBDA f : f.data,
  Extent <- LAMBDA d : Devices.limit[d] - Devices.org[d],
  space <- [s \in Keys |-> SpaceOf(s)], context <- [p \in User |-> ContextOf(p)],
  saved <- [p \in User |-> SavedOf(p)], did <- k.did

\* Every request moves just the bytes it names, between the right spaces, whatever round,
\* paragraph, gap or page they lie in; a signal's handler returns to what was interrupted.
ImplementsSpaces == S!Spec
=============================================================================
