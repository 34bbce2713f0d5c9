# MINIX 1.0 in TLA+

This directory is a model of the operating system in this repository: a
message-passing kernel with its device tasks, a memory manager (MM) and a file
system (FS), which are two processes of their own, and of the programs that make
and change MINIX images on a host.  Everything that makes this system hard happens
between those parts: who is blocked on whom, what an interrupt finds, which of two
tables learns first that a process died, whose bytes a copy moves.  The modules
follow the C routines by name, TLC checks them on small instances, and the
invariants of the kernel, of MM's process table, of the hole list and of the boot
diskette are proved with TLAPS for instances of any size.

## The system

| Part | State | Operations | Talks to |
|---|---|---|---|
| Messages and scheduling, `kernel/proc.c` | `proc[]` (flags, `p_getfrom`, caller lists, buffers), three ready lists, `cur_proc`, `bill_ptr`, `busy_map`, `lost_ticks` | `send`, `receive`, `sendrec`, `interrupt`, `pick_proc`, `ready`, `unready`, `sched` | everybody |
| System task, `kernel/system.c` | `p_pending`, `sig_procs`, accounting times, memory maps | fork, exec, exit, newmap, getsp, times, sig, copy for MM and FS; `cause_sig`, `inform` | MM, FS; called by the tasks |
| Clock task, `kernel/clock.c` | `realtime`, `p_alarm`, `next_alarm`, quantum | tick, set alarm, get and set time | interrupts, MM, tasks |
| Terminal task, `kernel/tty.c` | input queue with its counts, modes, who reads and writes; cursor, escape state, video RAM | read, write, ioctl, cancel, characters from interrupts; print, scroll | FS (replies and unasked REVIVEs), `cause_sig` |
| Floppy and winchester tasks, `kernel/floppy.c`, `wini.c` | the request, densities, motors, partitions | transfer with retries, resets, recalibration; partition tables; watch dog | FS, clock task, the controllers |
| Printer task, `kernel/printer.c` | `pcount`, `pr_busy`, the process it prints for | write, cancel, a character per interrupt | FS (REVIVE), clock task |
| Copying, `kernel/klib88.asm`, `system.c`, `memory.c` | memory, maps, registers, ports | copy between spaces, RAM disk, DMA, signal frames | MM, FS, all tasks |
| MM process table, `mm/main.c`, `forkexit.c` | `mproc[]`, `procs_in_use`, `next_pid` | fork, exit, wait, brk, exec, set and get ids | kernel (sys_fork, sys_xit), FS (tell_fs) |
| MM signals, `mm/signal.c` | `mp_catch`, `mp_ignore`, `PAUSED`, `ALARM_ON` | signal, kill, pause, alarm, KSIG from the kernel and from FS | clock task, kernel, FS |
| MM memory, `mm/alloc.c`, `break.c` | the list of holes, segment maps | allocate, free, adjust data and stack | kernel (newmap) |
| FS main loop and pipes, `fs/main.c`, `pipe.c` | `fproc[]`, `susp_count`, `reviving` | suspend, release, revive, unpause | MM, terminal task |
| FS cache, `fs/cache.c` | buffers, LRU and hash chains, `bufs_in_use` | get and put block, zones, invalidate | disk tasks |
| FS i-nodes and bit maps, `fs/inode.c`, `super.c` | i-node table, bit maps | get, put, allocate and free i-nodes and bits | cache |
| FS files, `fs/open.c`, `read.c`, `write.c`, `link.c`, `mount.c`, ... | file positions, descriptors, zones, links | the file calls | i-nodes, cache |
| Image tools, `tools/fsutils` | an image: bit maps, i-nodes, zones | mkfs; put, cp, mv, ln, rm, mkdir, rmdir | the user of a host |

`PROJECT.json` lists every part with its status, and every hazard with its line.

What is hard, and what would be right:

* **Rendezvous.** Sender and receiver arrive in either order, a receiver may want
  one source or any, an interrupt is a sender that never blocks, and one buffer
  serves the request and the answer.  Right: no process is both off the ready
  lists and free of blocking flags, no sender is in two queues or in none, nobody
  waits for a message that is already queued for it, an answer never blocks the
  one that gives it.
* **Interrupts.** They come between any two steps of the tasks.  Right: none is
  queued like a process, and what cannot be delivered is kept and offered again.
* **Signals.** The kernel only remembers them while MM is busy; MM then signals
  one process after the other while the rest of the system runs.  Right: each
  pending signal is reported; MM owes an answer to exactly the callers it has
  blocked; a dead process is told of once.
* **Three tables, one process.** `proc[]`, `mproc[]` and `fproc[]` change at
  different times.  Right: they agree whenever MM is between two calls.
* **Exit, wait, orphans.** Either comes first, parents die before children.
  Right: every death is reported to one living parent, no WAIT is left waiting
  for a child that is dead.
* **Suspension in FS.**  A READ or WRITE on a pipe may be suspended, revived by three
  other calls, tried again, or ended by a signal meanwhile, and the ends are shared.
  Right: the counters agree with the table, nobody sleeps when no one is left to wake
  it, and what is read is what was written.
* **Caching.**  A buffer is in two chains and in three counts, may have lost its block,
  be modified, or be read by nobody.  Right: a block has one copy, nothing modified is
  dropped, nothing stays when the diskette is changed, and i-nodes are on the disk
  between two calls.
* **Names, counts and zones.**  A call walks a path, takes i-nodes, a bit, a zone, a
  directory slot, and may fail at each step.  Right: every i-node that was taken is given
  back, an error leaves nothing behind, names, links and bits agree at every write to the
  disk, every zone has one owner, and a file holds what was written and zeros elsewhere.
* **Waiting for a terminal.**  Keys come at interrupt level, FS may be waiting for the
  task that wants to tell it something, editing takes back what a reader was promised.
  Right: no reader hangs beside a line that is complete, FS waits only for output that
  goes on, lines arrive in order and once.
* **Devices.**  Controllers fail, interrupts get lost or are made up, watch dogs of earlier
  requests go off.  Right: what is reported as done was done, at the right place; every
  request is answered; no clock tick is lost.
* **Bytes.**  Segments and offsets are 16 bits, DMA has pages, a new process has its
  parent's map for a while, a signal frame holds physical addresses.  Right: a request
  moves just the bytes it names, and a process runs in its own memory.

## Modules

### Proc and IPC: the kernel

`Proc` is `kernel/proc.c` with `cause_sig()` and `inform()`.  The process table and
the globals beside it are one record `k`, and each C routine is an operator of the
same name from a kernel state to the kernel state it leaves, because the routines
call each other in the middle (`mini_send` calls `ready` or `unready`, `mini_rec`
calls `inform`, which calls `mini_send`).  The linked lists are sequences.  A
message is its source and a body; registers, stacks and memory maps are left out.

`IPC` adds the processes: users that trap to the kernel with any arguments, tasks
and servers that follow the discipline of their main loops (`Receive`, `Call`,
`Reply`, `Push`), and the interrupts.  `interrupt()` is split where it loops: its
first send, one step per task that was busy (`interrupt_retry`), and the end, and
`scan` keeps everything else out meanwhile, since interrupts are off.  `Calls` says
which process calls which with `sendrec()`, `Pushes` which ones send unasked.
`owed`, `awaiting` and `pushed` are bookkeeping of the model: what the loops keep in
local variables.

### MM: process table and signals

`MM` is `mm/main.c`, `forkexit.c` and `signal.c`, with what `sys_fork`, `sys_xit`,
`cause_sig`, `inform` and the clock do to the kernel's table, and what FORK and EXIT
do to the references FS holds.  `mm` is the record of these tables; `work` is what MM
is doing: at the top of its loop (`Main`), in `receive()` (`Blocked`), working on a
call, on a KSIG, or inside the loop of `check_sig()`, which signals one process per
step.  A handler without such a loop is one step: MM is a single process, the calls
it makes are synchronous, and what others can do meanwhile (call MM, call FS, cause
a signal) commutes with it.  `user[p]` is the kernel's view of the process, and
"unasked" marks a process that got an answer it was not blocked for.  The recursive
call in `cleanup()` is written out: it happens at most once, since the first call
ends the WAIT of INIT.  `mp_procgrp` is zero in every process of this system, so the
test on it is left out.

### Memory, HoleSet, Holes and Core: the memory of MM

Three descriptions of `mm/alloc.c`, each implementing the one before, on the pieces of
memory of `Clicks`:

* `Memory`, what it promises: memory is a set of free clicks, a request is granted
  exactly when so many free clicks lie in a row, and `Exchange` (the core image of EXEC)
  takes the old block and gives the new one in one step.
* `HoleSet`, how it keeps the promise: a set of holes that never touch, first fit by
  address, joining on release.
* `Holes`, the code: `hole[]`, `hole_head`, `free_slots`, and each routine as an operator
  on these tables, with `prev_ptr` where the C code has it.

`Core` is what MM does with it: `mp_seg` of every process as FORK, EXEC, BRK, the stack of
a signal (`sig_proc`) and `cleanup()` change it, and the size tests of `size_ok()`,
`adjust()` and `read_header()` (whose rounding uses `CLICK_SHIFT` where `CLICK_SIZE` is
meant: `HeaderClicks`).  MM is one process and none of these routines waits for another
that calls it, so each is a step; an `adjust()` that fails changes nothing and is no
step.  A dead process keeps its memory until `cleanup()`.  Who may collect whom is the
subject of `MM`.  Clicks of INIT are reserved ones that are never freed.

### Spaces and Copies: the bytes

`Spaces` is what the system task and the memory driver promise: every process has a text
and a data space whose bytes are numbered from 0, a request moves just the bytes it names,
a device ends where it ends, and a caught signal suspends what the process was doing until
the handler returns.

`Copies` is how that is done: `umap()`, `do_copy()`, `do_newmap()`, `do_sig()`,
`do_getsp()`, `do_exec()` and `do_fork()` of `system.c`, `phys_copy()`, `build_sig()` and
the ports of `klib88.asm`, `memory.c`, `dma_setup()` of the floppy task with `buf_pool()`
of FS, and what MM and FS ask of them (`mem_copy()`, `load_seg()`, `patch_ptr()`,
`rw_user()`).  A word is one byte; a paragraph has `CLICK_SIZE` bytes, an offset wraps at
`WORD`, `phys_copy()` goes in rounds of `UNIT`.  FORK is three steps (copy, sys_fork,
sys_newmap), and the child may not run between them.

### Channel and Pipes: the pipes of FS

`Channel` is what a pipe promises: a read takes what is there, once; the end of file is
reported only when nothing is left and nobody holds the writing end, a broken pipe only
when nobody holds the reading end; a full disk leaves part of the data.

`Pipes` is `fs/pipe.c` with what `main.c`, `filedes.c`, `open.c`, `read.c` and `misc.c` do
for pipes.  The record `fs` holds the descriptors and suspension of `fproc[]`, `filp[]`,
the counts and sizes of the i-nodes, `susp_count` and `reviving`; `user[p]` is whether FS
owes an answer.  FS works on one message at a time, so a call is a step, and while
`reviving` is not zero only `get_work()` steps.  A call that FS refuses without changing
anything (no descriptor, wrong mode, too long) is still a step, since it is answered.
`do_exit()` may end a process that hangs, as MM does for a signal.  There `release()`
follows the null pointer of a descriptor that has been closed already; `wild` is either
outcome of the comparison.  `done` is how many blocks a WRITE gets on the disk.  The
SIGPIPE message to MM is a subject of `IPC` and `MM`; for a process that hangs on a pipe
`do_unpause()` changes nothing.  Errors of reading the disk are left out.

### Names: i-nodes, directories, paths

`Names` is the i-node table of FS with everything that takes an i-node and gives it back:
`eat_path()`, `last_dir()`, `advance()` across mounted file systems, `search_dir()`, the
calls of `open.c`, `link.c`, `stadir.c`, `protect.c`, `mount.c` and `misc.c`.  The record
`f` holds `inode[]`, `filp[]`, `fproc[]`, the i-nodes and directories on the disks, their
bit maps and what is mounted where.  FS works on one call at a time, so a call is a step;
the writes to the disk inside a call are noted where they happen (`Written`), because a
crash may come between any two of them: `NamesWhole` looks at the disk at each.  The data
in regular files belongs to `Zones`, the buffers to `Cache`.  `fetched` is whether FS can
copy the second name of LINK from the caller.

### Files and Zones: what is in a file

`Files` is what regular files promise: the bytes that were written, zeros where nothing
was, the position of a descriptor.  `Zones` is `read.c`, `write.c`, `truncate()` of
`link.c`, and the zone map of `cache.c` and `super.c`: direct, indirect and double indirect
zone numbers, holes, chunks of blocks, `alloc_bit()` over blocks and words with an origin
and wrap-around, zones of more than one block, clearing, and a disk that is full in the
middle of a write.  A buffer that is taken without being read holds `JUNK`.

### Cache: the block cache of FS

`Cache` is `fs/cache.c`: the buffers with their links, `front`, `rear`, `buf_hash[]` and
`bufs_in_use` are one record `c`, together with the disk and the pointers to the bit maps
in the super block.  `get_block()`, `put_block()`, `rw_block()` and `invalidate()` are
operators; a `Walk` is the chain that a loop of theirs follows.  The steps are what the
rest of FS does with blocks: get one to read, one to overwrite or one for a hole, modify
it, put it back under the type its kind has, mount, unmount, flush, and close the block
special file.  A block holds one value.  FS is one process, so a step is never
interrupted; its calls are sequences of them.  `do_sync()` begins with writing i-nodes
and super blocks, which are such steps as well, and their number is not fixed here.  The
bits that `load_bit_maps()` sets in the maps are set on every disk `mkfs` made.  There
is one disk; another diskette may be put in when it is neither mounted nor open.  Left
out: errors of the disk but for its end, buffers that FS gives up at 64K boundaries (they
are in `Copies`), and writing parts of blocks (in `Zones`).

### Lines and Tty: the terminal's input

`Lines` is what the input of a terminal promises: what is typed is read in order and once,
in COOKED mode a line at a time, and erasing reaches back to the start of the line.

`Tty` is the terminal task and FS's side of it (`device.c`, and the terminal's part of
`pipe.c`).  Keys come at interrupt level and fill `tty_driver_buf`; `do_charint()` takes
them through `in_char()` into the queue, with `tty_incount`, `tty_lfct`, editing, escapes,
MARKERs, CTRL-S, CTRL-Q, DEL; between two characters of output (`OutChar`) more keys may
come.  FS is a process that waits for any message (`MainLoop`), for TTY's answer, or works;
a REVIVE that it gets while it waits for an answer is handled in `rw_dev()`.  CANCEL goes
to TTY from `do_unpause()`.  What is printed is only counted here.

### Grid and Screen: the terminal's output

`Grid` is a screen of characters and a cursor; `Screen` is `out_char()`, `escape()`,
`flush()`, `scroll_screen()`, `move_to()` and `vid_copy()`, with characters held back in
`tty_ramqueue[]`, an origin that moves through a video RAM larger than the screen, and
copies that wrap around in it.  `Screen` implements `Grid` at every character.

### Floppy, Wini, Printer and Clock: device tasks

`Floppy` and `Wini` are the two disk tasks: one request at a time, tried again until it
works or `MAX_ERRORS` is reached, with resets, recalibrations, densities and controller
parameters in between.  The controller answers every command in any way it can; a diskette
has a kind, and a command finds a block only under the geometry of that kind, at the place
computed for the density with which the request began (`f.first`).  A winchester whose
parameters were lost in a failed reset takes commands all the same and moves other sectors
(`Moves`).  Both are known faults, which `RightBlock` and `RightSectors` except by naming
the case; everything else that happens in such requests is in the run.  In `Floppy`
the clock's watch dog may come at any time it is set, and `dor` is which motors turn.  In
`Wini` the partition tables are read from the disk at boot, rounded to blocks and sorted.

`Printer` is the printer task between FS and its interrupts.  An interrupt may come at any
time (the 8259A makes some up): while the task takes an O_DONE, waits with a REVIVE for FS,
is in a CANCEL, or the clock is in `pr_char()`.  A message carries what it is about (`about`:
this write, one answered or canceled, an earlier one), which the code cannot tell apart and
only the properties look at.  A character may get lost with its interrupt, and the clock
task then prints the next one (`ClockLooks`, `ClockPrints`); `restarting` is that task in
the middle of `pr_char()`.  `value` in `do_write()`, which is not initialised when the
write is refused, is any value.

`Clock` is the clock task with `sched()` and what `system.c` does to alarms.
`do_clocktick()` is taken apart around its use of `lost_ticks`, because an interrupt may
come between reading and subtracting it.

### Image, FsUtils and Tree: images on a host

`Image` is `minixfsutils.c` up to its commands, on the image as a record of bit maps,
i-nodes and blocks; `fatal()`, an assertion and a null pointer all end a command in the
middle (`stop`), with what it has done so far left in the image.  `FsUtils` is the commands
and the image that `mkfs.c` makes.  `Tree` is what the user sees: directories, names, and
what is in the files.

### Build: the boot diskette

`Build` is `tools/build.c`: one step for each function that `main()` calls, with one `copy2`
per program, whose header is any of `Headers`.  A byte of the image is known by where it comes
from: a program and a place in it, or build itself with its value; text, data, bss and the
sizes kept for them wrap as UWORDs do.  What follows the actions is the other side: how
`main()` of the kernel, `load_ram()` of FS and the boot block turn the words they find into
segments, in the memory as the boot block fills it.  `MapsRight` relates the two.  It assumes
`AllFit`, programs of less than 64K: with a larger one the sizes wrap, and build, which does
not look, makes an image in which the next programs are elsewhere.  `pexit()` leaves the image
in the middle, and nobody uses it.  How many sectors the boot block loads (`sectors`, which
leaves out a part of a last sector) is kept as the word it is, and nothing is said of it.

### MC modules

`MCProcesses`, `MCMemory`, `MCFiles`, `MCDisks`, `MCWaiting` and `MCDevices` put
several small instances into one run.  Their components share no state (where two of them
describe the same table, each describes another part of it), so that an interleaving of
them would be a product without new behaviour of either: the variable `on` chooses one in
the initial state, and every property says what it means for each of them.  `MCIPC` only
names constants.  `MCProcesses` extends `MM`, `MCWaiting` `Pipes` and `MCDevices` `Clock`: one
of their components has the constants of the .cfg, so that the invariants of these runs are
those the theorems are about; that component stays in its initial state where `on` says that a
behaviour is about another one.

## Runs

| Run | Question | Instances |
|---|---|---|
| `ipc_signals` | Are ready lists, the CPU, queued requests, replies and pending signals right in every interleaving with interrupts and signals? | 1 user, MM, FS, SYSTASK, CLOCK, 1 driver, 1 signal |
| `ipc_users` | Does a user, whatever it puts into the registers, get only what it asked for, also when FS gets messages it did not ask for? | 2 users with arbitrary traps, MM, FS, SYSTASK, CLOCK, and a terminal task that sends REVIVEs to FS |
| `ipc_revive` | (violation) is a queued request safe from the message its sender receives? | the same terminal task, with signals |
| `processes` | Do the tables of MM, kernel and FS agree, is the family whole, is each caller owed exactly what it waits for, is every death reported? | "signalled": INIT and 2 slots with signals, catch, pause, setuid; "family": INIT and 3 slots that fork, exit, wait; "from kernel": INIT and 2 slots with SIGINT, SIGPIPE and set-uid EXEC |
| `memory` | Has every click one owner, do pointers implement the set of holes, do copies move just what they name, does INIT collect the dead? | 7 clicks, 4 holes, 3 programs; 72 words, 2 processes, 3 requests; INIT and 2 slots with alarms, with fairness |
| `copies_fork` | (violation) does a child that is forked in a handler go on in its own memory? | the 72 words, 4 requests, no copies |
| `files` | Do counts, names, links, bit maps and zones agree, do errors leave nothing behind, do files hold what was written? | INIT and a child, 2 devices, 4 calls that change something; 2 files on 5 zones of 2 blocks, 4 calls |
| `disks` | Are the cache's chains and counts right, is nothing lost or stale; do image commands do what they say and leave whole images when they end in the middle; is every program where the kernel looks for it? | 3 buffers, 4 blocks; 22 zones, 7 i-nodes, 6 paths, 3 commands; 5 programs of 2 to 4 shapes each |
| `waiting` | Has every sleeper on a pipe or terminal somebody to wake it; are pipes channels and input lines? | 3 processes, 1 pipe of 2 blocks; a reader, a writer, a queue of 3, 4 keys |
| `pipe_exit` | (violation) is there always somebody to revive where `reviving` says so? | the same pipes, without the restrictions |
| `tty_stuck` | (violation) does CTRL-Q start the output that FS waits for? | a queue of 2, 6 keys |
| `devices` | Is what is reported as done done at the right place, is every request answered, no tick lost, every character on the screen where it belongs? | a screen of 3 by 2 in 8 words; 2 diskette drives of 2 kinds; 2 disks; 2 processes at a printer; 6 ticks, 2 users |

**Bounds.**  `MaxLost` bounds `lost_ticks` (1: a lost tick and the next one);
`MaxDrift` bounds how far `sig_procs` may be off (without it the counter drifts for
ever, see the findings); `MaxPid` is the number after which pids wrap (30000 in the
code, here just enough for the slots, so that they do wrap).  Three slots besides INIT are
what the recursion of `cleanup()` needs: a grandparent that waits, a parent that
dies, a dead child; `LAST_FEW` keeps one more for the superuser.  Two users are what a
competition for a server needs.  `Calls` of `MM` selects the calls of an instance;
between them the instances use all.  `PidsAssumption` asks for more pids than slots, without
which `do_fork()` would look for a free one for ever (30000 and 16 in the code).  `RootKillsAll` is FALSE since the known fault of
`kill(-1)` (below) would hide everything else.

`Core`: three images and the hole table's four slots are what a release between two
holes needs, and five free clicks let blocks of different sizes leave gaps;
`NR_HOLES >= NR_PROCS - 1` is the assumption under which `free_mem()` never runs out of
slots (128 and 16 in the code).  `MAX_PAGES` is 3, so that both outcomes of `size_ok()`
occur.  The three programs are separate and combined, with and without a gap, with
sizes that are no multiples of a click.  INIT has data only: `do_brk2()` sets its
`S.mem_vir` to text and data together, and for an INIT with separate text FORK counts the
text twice and the stack's virtual and physical origins disagree (`InitText = 1`
violates `SegmentsInside`); everything else is checked on the combined one.

`Copies`: 72 words hold a kernel of three clicks, MM, FS with three buffers, two areas for
processes, a RAM disk of one block, and a page boundary that lies between, inside or after
FS's buffers (`Bases`).  The buffers asked for cross the gap, end at the stack's end, and
are one byte long.  Copies are short here: the carry between rounds and paragraphs is
reached because `UNIT` and `CLICK_SIZE` are small as well.

`Names`: four i-nodes on the root device and two on the other, two names besides `..` and a
directory of four slots, so that i-nodes, slots and links (`MAX_LINKS` 2) run out; the paths
lead to a file, a directory, a device, through `..` out of a mounted file system, and to what
does not exist; four calls make a file system, use it and take it away.  `Zones`: blocks of
two numbers, one direct zone, so that a file of a few bytes reaches the double indirect zone,
and a bit map of two blocks of two words of two bits whose end lies inside a word.

`Cache`: three buffers are one for the map, one in use and one to evict, and three hash
chains make numbers collide.  Super block and map hold one value, i-nodes and data two;
reads beyond the end of the disk, which `Cache` has, are left out of the run.  `RESERVE` is 1 (3 in the code): the buffers that
`load_bit_maps()` leaves, less those for other use.  `MaxHeld` is 1: after start-up FS
works on one block at a time besides the maps.  `Image`: blocks of three entries, one direct
and two indirect zone numbers, and a file of ten entries that mkfs puts there, so that the
double indirect block is in use; what is left after mkfs is less than three commands can use,
so that zones and i-nodes run out in the middle of one.

`Pipes`: three processes are two that hang on one pipe and one that closes or ends;
two descriptors hold both ends, or one end twice (after `dup2()`); three filp slots are
one more than a pipe needs, so that `dup()` is possible and a second pipe is not; the
pipe may be closed and another made with the same i-node.  Two blocks are the
smallest pipe that can be partly full, and requests go to one more than it holds.
`TidyExits` keeps out a process that ends with two descriptors of one end, or that hangs
on a pipe and has another descriptor, `OneSleepingReader` a second reader that hangs on
a pipe: the faults of `pipe_exit` and of `NoStandoff` below.  `Tty`: a queue of three is
filled, emptied and edited by four keys, and `tty_driver_buf` (`MAX_OVERRUN` 2) overruns.

`Screen`: six characters fill a line, wrap, scroll and scroll again past the end of the
video RAM, with CRMOD and without, so that characters also wait across a scroll.  `Floppy` and `Wini`: two drives, a diskette of 360K and one of 1.2M with a block
that only the latter has, all error counts up to `MAX_ERRORS` (8; `Wini` 2 instead of 4).
`Clock`: a quantum of two, six ticks, alarms set again and turned off.

`Careful` is the switch that keeps the known faults listed below out of an instance where
they would hide everything else; the operators that it guards say which.  In `Printer` it
guards `OfferSpoiled` alone: a disk's interrupt spoils only messages that nobody needs any
more, or a write would never end.  `Floppy` and `Wini` have none.

**Deadlock.**  The IPC runs check it.  The others do not: all users may wait, pause or hang
with nothing to come, or a bound is reached, and then the system really stops; in `disks`
so does a panic of the cache, which `InUseCounted` excludes.

**Fairness.**  `memory` and `devices` need it.  For `OrphansCollected`: weak fairness of MM's
steps, since it runs before any user (`queue()` in `proc.c`); strong fairness of MM taking
INIT's call, since callers are queued in order and the model takes any of them; weak fairness
of INIT calling and of FS answering it; strong fairness of the WAIT among INIT's calls, since
`tools/init.c` ends in `while (1) wait()`.  Nothing is assumed of the other users.  For
`Answered`: the tasks' own steps are weakly fair and the controllers answer (the tasks wait
for their interrupts without a time-out), as do the clock's look at a printer (it comes every
tick) and the interrupts it has pending; `do_revive` is strongly fair, because the printer's
REVIVE waits for FS to come back to its main loop, which it does again and again.

## Findings

The violation runs are disagreements between what the code says of itself and what
it does; `PROJECT.json` quotes the lines.

* A REVIVE received inside `sendrec()` overwrites the request that is still queued
  (`ipc_revive`).
* `do_exit()` revives a process twice when the dying one has two descriptors of one end
  of a pipe, and FS panics (`pipe_exit`).
* CTRL-Q is discarded when the input queue is full, and FS waits for ever for the output
  that CTRL-S stopped (`tty_stuck`).
* A child that is forked in a signal handler goes on in its parent's text when its copy of
  the handler returns (`copies_fork`).

### Disagreements without a run

The modules also state, and their models violate, other promises of comments; naming one as
an INVARIANT or PROPERTY of a configuration with the constants given shows it.

* `IdleMeansNobodyRunnable` (`ipc_signals`): `mini_rec()` readies MM through `inform()`
  after the CPU has been given away, so the machine can idle with MM ready until the
  next interrupt (`kernel/proc.c:230`, `kernel/const.h:43`).
* `KsigWaitsForMM` (`MCIPC` with `Pushes = {<<1, 0>>}`): FS's KSIG for
  a broken pipe and MM's `tell_fs()` wait for each other for ever (`fs/pipe.c:120`; "As
  soon is MM is awaiting new work, the kernel sends MM a message ...  The File System also
  uses this mechanism", `mm/signal.c:85`).
* `KernelNotAnswered` (the instance "from kernel" of `processes`): a KSIG for a dead slot
  makes MM answer the kernel (`mm/signal.c:99`, "don't reply to the kernel" at line 120).
* `SigProcsCounted` (the same): `do_fork()` of the kernel copies pending signals
  without counting them (`kernel/system.c:132`, `kernel/glo.h:10`).
* `TablesAgree` (the instance "family" of `processes` with `RootKillsAll = TRUE`, `Signals =
  {15}` and KILL among the calls): `kill(-1)` of the superuser ends dead processes again, so
  that the kernel and FS are told of a second exit (`mm/signal.c:160`, "don't wake the dead"
  at line 158).
* `AlarmOnAccurate` (the same with `Signals = {14}` and ALARM among the calls):
  `set_alarm()` writes the slot to `PROC_NR`, the clock task reads `CLOCK_PROC_NR`, so
  every `alarm()` sets the timer of slot 0 (`mm/signal.c:257`, "set when SIGALRM timer
  started", `mm/mproc.h:35`).
* `AlarmOnlyForTarget` (the same, with KILL too): SIGALRM for one process
  turns `ALARM_ON` off in others (`mm/signal.c:168`).
* `OwnDirectory` (the instance "signalled" with EXEC among the calls and `SetuidFiles = {0}`):
  `dump_core()` may leave MM in the directory of the dead process (`mm/signal.c:344`, "go
  back to MM's own dir").
* `NoStandoff` (`Pipes` without `OneSleepingReader`): a WRITE wakes one reader, and only
  at position 0, so a second reader may sleep on beside a sleeping writer
  (`fs/pipe.c:130`, "revived later when it is able to continue" at line 4).
* `NobodySleepsNeedlessly` (`Pipes`): the reader that empties a pipe wakes no writer; one
  that sleeps does so until somebody finds the pipe empty (`fs/pipe.c:108`).
* `NoneLate` (`Printer`): an interrupt between the end of the output and the
  `pr_busy = FALSE` of `do_done()` makes a second O_DONE (`kernel/printer.c:159`), and one
  that is pending when a CANCEL comes stays pending (`kernel/printer.c:174`); either ends the
  next write before it is printed ("Printing is finished.  Reply to caller (FS)" at line
  150), or revives a process that does not wait.  `RightlyRevived` excepts just these.
* `AlwaysRightBlock` (`Floppy`): a request that goes over to another density keeps the
  position it computed for the first, and moves another block than it reports
  (`kernel/floppy.c:230`, "trying at the wrong density.  Try another one", line 226).

**Messages, MM and system task.**  One `int_mess` serves all interrupts, so a disk's interrupt
spoils the printer's message that waits to be offered again (`kernel/proc.c:52`).
`sys_fork` copies `p_alarm`, so a child inherits its parent's alarm.  `sched()` moves the head
of the user list to its end also when another process was billed for the quantum.  `umap()`
checks the first click of a range only, so a buffer may run past the end of the stack
(`kernel/system.c:500`).  The limit of `/dev/kmem` is the kernel's size and not its end, and
is shifted in 16 bits (`kernel/memory.c:54`), so that the kernel's last part cannot be read.
`do_unpause()` does nothing for a process that hangs on a pipe, against its comment ("Abort
the system call with the EINTR error message", `fs/pipe.c:227`) and that of MM
(`mm/signal.c:292`); for another it looks at the descriptor of the last call of this process,
which need not be one, and `get_filp()` may return a null pointer (`fs/pipe.c:244`).

**Names.**  `do_link()` keeps the i-node of the first path when the second name cannot be fetched
(`fs/link.c:55`).  Unlinking a mount point or `..` takes a link off another i-node than the
entry's (`fs/link.c:110`).  `utime()` writes to a device mounted read-only (`fs/time.c:42`).
Mounting on a directory whose `..` cannot be searched makes `advance()` follow a null pointer
(`fs/path.c:183`).  `creat()` and `mknod()` on a read-only device write an i-node and the bit map
before `search_dir()` refuses.  `access()` tests the effective user for being the superuser
(`fs/protect.c:151`).  Deleting an entry does not mark the directory's i-node as changed.

**Zones and cache.**  A write from a bad address over a whole block leaves the junk of a buffer
that was not read (`fs/read.c:219`).  A write that fails may leave a zone beyond `i_size`, which
`truncate()` never frees (`fs/link.c:167`).  A write that finds the disk full moves `i_size` all
the same (`fs/read.c:143`, against line 104).  `bufs_in_use` counts the blocks of loaded bit maps
twice (`fs/super.c:61`; "# bufs currently in use", `fs/buf.h:49`), so that `get_block()` panics
with free buffers when a disk has many; `InUseCounted` states what the code does.  `do_mount()`
sets `loaded` also when `load_bit_maps()` refused, and then puts blocks through pointers that
were read from the disk with the super block (`fs/mount.c:94`, `fs/super.c:81`).  A short write at
the start of a block of a special file neither reads the block first nor clears the rest
(`fs/read.c:220`; "Normally an existing block to be partially overwritten is first read in", line
215).  A block whose read failed stays in the cache as if it were valid (`fs/cache.c:264`).

**Terminal.**  `chuck()` takes back a MARKER without correcting `tty_lfct`
(`kernel/tty.c:466`).  Room is looked for one character, and a backslash stores two
(`kernel/tty.c:298`, 348, 388).  After a read into a bad address `tty_inleft` stays positive
(`kernel/tty.c:539`).  A full queue or a full `tty_driver_buf` also loses the release of the
control key.  CTRL-S overtakes a CTRL-Q that has not been processed.  A change of mode does not
look at a reader who hangs.  CTRL-S, a change to RAW and a write leave FS blocked for ever.
Scrolling down (ESC ~ 1) moves the origin and not `tty_vid`, a line feed at column 80 without
CRMOD leaves `tty_vid` behind, and an echo in the middle of an escape sequence becomes part of it.

**Devices.**  `floppy.c` does not compute the cylinder, head and sector anew when it changes the density
(`kernel/floppy.c:230`), and never sets `fl_curcyl` when it should (385, 550).  `w_do_rdwt()`
ignores the result of `w_reset()` (`kernel/wini.c:173`), and `win_results()` takes a busy
controller for one without errors (352).  `do_write()` of the printer replies an uninitialised
`value` when it refuses (`kernel/printer.c:139`); the clock's `pr_char()` (`kernel/clock.c:200`)
races with the printer's interrupt, prints a character beyond the buffer and reports EIO.  Both
disk tasks wait for interrupts without a time-out.

**Image tools.**  `rmdir` of a directory that `mkdir` of this program made takes 1 off a byte that
is 0: the i-node and its zone are never freed (`minixfsutils.c:1372`).  `icreat()` makes `.` and `..`
in regular files too.  `mv` of a file onto itself loses it, of a directory into itself makes a cycle
that nothing leads to, with a slash at the end a name without letters; `cp` onto itself empties
the file; `rmdir d/` takes off a link and fails then.  `daddent()` stops at the first free slot, so
that a name can be there twice.  `ialloc()` may take the last bit, whose i-node `iget()` refuses.
`mkdir` on a full image leaves a directory without entries.  Reading a hole allocates zones.  The
link counts of `mkfs` are not those of MINIX.

## Proofs

`Proc_proofs` has the lemmas about the kernel's routines, `IPC_proofs` the theorems:
`TypeInvariant`, `ReadyInvariant`, `QueueInvariant`, `RendezvousInvariant` and
`RunningInvariant` (whoever has the CPU heads its ready list and no flag blocks it), for
every number of tasks and processes, every set of users, and every `Calls` and
`Pushes`.  They rest on the assumptions named in `Proc` and `IPC` (at least the tasks
HARDWARE, SYSTASK and CLOCK, at least one user slot, and that the message bodies
include those the kernel makes up).

None of them is inductive alone.  The inductive invariant is `TypeOK` with
`KernelOK(k)`: the ready lists hold exactly the runnable processes, once each
(`ReadyListsExact`), the process with the CPU heads its list (`CurrentIsHead`),
without which `unready()` would take a process off a list and leave it the CPU; the
caller lists hold exactly the SENDING processes (`CallerListsExact`), without which
`mini_rec()` could wake a process that another list still holds; and no receiver
waits while an acceptable sender is queued (`RendezvousMade`), which needs both of
the others because a wake-up must not hide a second one.  `Proc_proofs` shows that
`pick_proc`, `ready`, `unready`, `sched`, `mini_send`, `mini_rec`, `inform` and
`cause_sig` keep `KernelOK`, `IPC_proofs` that every step is one of these.

`Calls_proofs` goes on from there to what the callers rely on, in three further invariants.
Its first part says what each routine of `proc.c` may do to the message fields of the table,
as relations between two kernel states; all that follows uses these relations only.

* `SignalsInvariant`: MM does not await work while a signal is pending that it was not told of.
  Inductive with how `sig_procs` and the pending signals relate to MM's receiving.
* `UsersInvariant`: a user gets nothing but the answer of the server it called, whatever it puts
  into the registers and whatever is pushed.  The invariant follows each answer from the request
  in a caller list over the server's debt (`owed`) to the user's buffer.
* `CallsInvariant`: requests stay intact, an answer never blocks, no group of processes waits
  for itself, and whoever runs heads its list (`CallsGoOn`).  Two hypotheses: `CallsDescend`
  (in every group of system processes somebody calls nobody in it) and `Pushes = {}`.  The
  calls of MM, FS and the tasks satisfy the first (`SystemCallsDescend` in `MCIPC`, which TLC
  evaluates); the second is what the terminal task breaks: `ipc_revive` shows how.

`MM_proofs` proves the invariants of run `processes` for every number of slots and pids, every
set of signals, users and terminals, and every `Calls`: nobody hangs in a call that MM has
forgotten (`NobodyForgotten`), the family is a tree under INIT in which whoever waits has a child
to wait for and no dead one (`FamilyRight`), the count of slots and the pids are right
(`CountRight`, `PidsRight`), MM, the kernel and FS agree on who is alive (`TablesRight`, under
`~ RootKillsAll`: the known fault of `kill(-1)` breaks it), and each death is told to one process,
by one answer (`DeathsTold`, an action property).  The inductive invariant is
`OK(mm, Callee(work))`:

* `Known` and `Owed` belong together: the kernel has a process as `served` exactly if MM waits
  for something on its behalf (`WAITING` or `PAUSED`, never both) or works on its call.
* `Wakes` needs `Descends` (no group of processes is its own ancestry) and `Counted`: `do_wait()`
  may sleep only because `cleanup()` looks at each child that dies later, and `mm_exit()` hands
  the children of the dead to INIT, which is alive.
* `Unique` needs `PidsAssumption`, and `do_fork()` finds a slot because of `Counted`.

The lemmas follow the routines, which leave the invariant for a while.  So its parts have
parameters: W, whose call MM works on; D, the process that `mm_exit()` has not yet told the
kernel and FS about; E, INIT in the middle of a `cleanup()` that may call itself for it.
`check_sig()` is a step per slot, so the invariant holds between any two of the processes that one
`kill()` ends, whatever their deaths have made of the later slots.

`HoleSet_proofs` proves for every size of the memory that `HoleSet` keeps holes apart
(`SeparationInvariant`), gives no click out twice (`ApartInvariant`), loses none
(`NoClickLostInvariant`), that EXEC finds its memory after it has released the old image
(`ExchangeSucceedsInvariant`: the panic of `new_mem()` is unreachable), and that it
implements `Memory` (`Refinement`).  The inductive invariant `Sound` joins these: the
separation of the holes is what makes `OneHole` true (free clicks in a row lie in one
hole, so first fit refuses nothing it could grant), and a release keeps holes apart only
because the block was apart from all of them.  `BiteLemma` and `JoinLemma` say what
`alloc_mem()` and `free_mem()` do to such a set.  They rest on the two assumptions of
`Clicks`.  The step from `Holes` to `HoleSet` follows links of unbounded length and
stays with TLC (`ImplementsHoles` in run `memory`).

`Build_proofs` proves `MapsInvariant` for all sizes of text, data and bss, common and separate
spaces in any mixture, and any size of the image: every segment that the kernel gives to MM, FS
and INIT holds the program's bytes to the last one, and FS, MM and the boot block agree with it.
The inductive invariant `BuildInv` follows `main()`: which programs are copied, that they lie one
behind the other on clicks (`PlacesRight`; this is where the zeros of `copy2()` are needed), that
each function that patches adds its words and spares everything else (`WordsPut`, `LaidStays`),
and, apart from that, that sizes stay sizes when they do not fit (`Started`).
`HeadersAssumption` holds for the real constants: a header has three 16-bit sizes, five programs
of 3 * 64K are less than 1440K, and `mpx88.asm` and `head.asm` have the words that are patched.

`Clock_proofs` proves `TimeIsKept` for every quantum, number of ticks, set of users and of alarm
times: no tick is lost to an interrupt in the middle of `do_clocktick()`, no alarm is overdue when
the task waits, and nobody runs for more than two quanta while another user is ready.  The
inductive invariant `ClockInv` adds to these what carries them between the steps of one tick:
the copy `t` is never more than `lost_ticks` (`Copied`), `next_alarm` is not later than any alarm,
which FORK may copy and SIGALRM's death may turn off behind its back (`NextIsFirst`), the alarms
that are due have gone off before the quantum is looked at (`Punctual`), who is billed is who
heads the ready users (`Billed`), and the time that he has been ahead is what `sched_ticks` has
lost and, if `prev_ptr` is him, one more quantum (`Shares`).

`Pipes_proofs` proves for any number of processes, descriptors, filp slots and pipes and for every
`PIPE_SIZE` that the counts of FS are right (`CountsAreRight`), that whoever sleeps at a pipe can be
woken and that no reader and writer wait for each other (`SleepersAreWoken`), that the panic of
`get_work()` is unreachable (`FSDoesNotPanic`), and that pipes implement `Channel`
(`PipesAreChannels`).  All four are theorems of `TidySpec`, whose steps are those of the pipes in run `waiting`:
without `TidyExits` and `OneSleepingReader` the known faults of `do_exit()` and `pipe_check()` break
them (`pipe_exit`, `NoStandoff`).  The inductive invariant `PipesInv` is made of

* `Base`, which every routine keeps: `Counted` and `Agree` (the counts, and that only the suspended
  are revived), `EndsRight` (a pipe has at most one slot for each end), `PositionsRight` (the writer
  is at the end of the data, the reader never beyond it), `CallsRight` (whoever is suspended has
  saved a call that is in order for the end it hangs on), `PartnersRight` (who sleeps has somebody
  at the other end, so `do_close()` must wake whoever loses its last partner) and `ReadersWait` (a
  reader sleeps only at an empty pipe);
* `OneReader` and `WritersGoOn`: where a reader and a writer are suspended on one pipe, one of them
  is about to go on, and if that is the writer there is only one.  This is what `NoStandoff` needs
  while `reviving` is not zero: two revived writers would each count on the other to wake the reader;
* who is suspended is who waits, and the dead have no descriptors.

The loop of `do_exit()` has an invariant of its own, `LoopInv`: each sleeper is woken because of one
descriptor, so none is woken twice.  It is the place where `TidyExits` is needed: with two
descriptors of one end a sleeper would be counted twice in `reviving`.  For the refinement, each
step of FS either tells one process an answer that the channel could give (`Told`) or leaves what is
in the pipes alone, but for a pipe that nobody can read any more (`HeldAll`).

Only model-checked: `Core`, `Copies`, FS but its pipes, the devices but the clock, the image tools but
`Build`, and liveness (`OrphansCollected`, `Answered`), which is out of the prover's reach.
Several of these modules follow links or paths with RECURSIVE operators (`Copies`, `Tree`),
and what those compute for every input cannot be proved with the tools at hand either.

## Not modelled

* Debugging dumps (`kernel/dmp.c`), the C libraries, commands, `fsck` and `dos2out`: no
  state of the running system, or programs of their own that run alone.
* Port programming, scan-code tables, function keys, serial lines (the code has none), boot
  code, interrupt vectors.
* Accounting and times (`do_times()`, the clock's time of day, times in i-nodes), the exit
  status, group ids, core files' contents, `STACK_FAULT`, which nothing in the kernel causes.
* How EXEC finds its file and its permission; set-uid bits are a constant of `MM`.
* Errors of reading a block other than the end of the disk; several devices in one cache.
* The commands of the image program that only read, but for `ls` and `get`.

Worth doing next: a composition of `MM` with FS's suspension (a signal that interrupts a
read at a terminal or a printer crosses `MM`, `Tty` and `Printer`); the pointer code of
`ready()` and `unready()` against the sequences of `Proc`.
