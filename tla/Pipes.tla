------------------------------- MODULE Pipes --------------------------------
(***************************************************************************)
(* Pipes of the file system: the descriptors of the processes, the filp    *)
(* table, and the suspension and revival of processes that hang on a pipe  *)
(* (fs/pipe.c, fs/filedes.c, and what main.c, open.c, read.c and misc.c do *)
(* for pipes).  FS handles one message after the other, so each call is a  *)
(* step; the tables are one record s, and a C routine is an operator from  *)
(* tables to tables.  Sizes and positions are in blocks.                   *)
(***************************************************************************)
EXTENDS Integers, SequencesExt

CONSTANTS NR_PROCS,    \* slots of the process table
          NR_FDS,      \* descriptors of a process
          NR_FILPS,    \* slots of the filp table
          Pipe,        \* the i-nodes that can be pipes
          PIPE_SIZE    \* what a pipe holds

INIT_PROC_NR == 2
User == INIT_PROC_NR .. NR_PROCS - 1
Fd   == 0 .. NR_FDS - 1
Filp == 0 .. NR_FILPS - 1
NIL_FILP == -1

\* What a caller asks for.
Sizes == 1 .. PIPE_SIZE + 1

ASSUME NrProcsAssumption == NR_PROCS \in Nat /\ NR_PROCS > INIT_PROC_NR
ASSUME TablesAssumption  == NR_FDS \in Nat \ {0} /\ NR_FILPS \in Nat \ {0}
ASSUME PipeAssumption    == Pipe \subseteq Nat /\ IsFiniteSet(Pipe)
ASSUME SizeAssumption    == PIPE_SIZE \in Nat \ {0}

\* fs_call, fd and nbytes of a READ or WRITE, as suspend() saves them.
Saved == [fs_call : {"READ", "WRITE"}, fd : Fd, nbytes : Sizes]
NoCall == [fs_call |-> "none"]

VARIABLES fs,      \* the tables of FS
          user,    \* of each process, "free", "running" or "waiting" for FS
          answer   \* what the last READ or WRITE returned

vars == <<fs, user, answer>>

\* The fields of a slot that is free, and of a call that was resumed, are never read.
FreeFilp  == [filp_mode |-> "none", filp_count |-> 0, filp_ino |-> -1, filp_pos |-> 0]
FreeInode == [i_count |-> 0, i_size |-> 0]

Tables ==
  [fp_filp      : [User -> [Fd -> Filp \cup {NIL_FILP}]],
   fp_suspended : [User -> BOOLEAN],
   fp_revived   : [User -> BOOLEAN],
   fp_saved     : [User -> Saved \cup {NoCall}],
   filp  : [Filp -> [filp_mode : {"R", "W", "none"}, filp_count : 0 .. NR_FDS * NR_PROCS,
                     filp_ino : Pipe \cup {-1}, filp_pos : 0 .. PIPE_SIZE]],
   inode : [Pipe -> [i_count : 0 .. 2, i_size : 0 .. PIPE_SIZE]],
   susp_count : 0 .. NR_PROCS,
   reviving   : 0 .. NR_PROCS,
   panicked   : BOOLEAN]

TypeOK ==
  /\ fs \in Tables
  /\ user \in [User -> {"free", "running", "waiting"}]

Init ==
  /\ fs = [fp_filp      |-> [p \in User |-> [fd \in Fd |-> NIL_FILP]],
           fp_suspended |-> [p \in User |-> FALSE],
           fp_revived   |-> [p \in User |-> FALSE],
           fp_saved     |-> [p \in User |-> NoCall],
           filp  |-> [f \in Filp |-> FreeFilp],
           inode |-> [ip \in Pipe |-> FreeInode],
           susp_count |-> 0, reviving |-> 0, panicked |-> FALSE]
  /\ user = [p \in User |-> IF p = INIT_PROC_NR THEN "running" ELSE "free"]
  /\ answer = [call |-> "none"]
-----------------------------------------------------------------------------
(* Descriptors: fs/filedes.c, do_pipe(), do_dup(), do_close().             *)

FreeFds(s, p) == {fd \in Fd : s.fp_filp[p][fd] = NIL_FILP}
FreeFilps(s)  == {f \in Filp : s.filp[f].filp_count = 0}

\* The ends of a pipe that somebody holds.
find_filp(s, ip, bits) ==
  {f \in Filp : /\ s.filp[f].filp_count # 0
                /\ s.filp[f].filp_ino = ip
                /\ s.filp[f].filp_mode = bits}

NewPipe(s, p) ==
  LET fd0 == Min(FreeFds(s, p))
      fd1 == Min(FreeFds(s, p) \ {fd0})
      f0  == Min(FreeFilps(s))
      f1  == Min(FreeFilps(s) \ {f0})
      ip  == Min({i \in Pipe : s.inode[i].i_count = 0})
      end(mode) == [filp_mode |-> mode, filp_count |-> 1, filp_ino |-> ip, filp_pos |-> 0]
  IN  [s EXCEPT !.fp_filp[p][fd0] = f0, !.fp_filp[p][fd1] = f1,
                !.filp[f0] = end("R"), !.filp[f1] = end("W"),
                !.inode[ip] = [i_count |-> 2, i_size |-> 0]]

CanMakePipe(s, p) ==
  /\ Cardinality(FreeFds(s, p)) >= 2
  /\ Cardinality(FreeFilps(s)) >= 2
  /\ \E ip \in Pipe : s.inode[ip].i_count = 0

put_inode(s, ip) ==
  IF s.inode[ip].i_count = 1 THEN [s EXCEPT !.inode[ip] = FreeInode]
  ELSE [s EXCEPT !.inode[ip].i_count = @ - 1]
-----------------------------------------------------------------------------
(* Suspension and revival.                                                 *)

suspend(s, p, call) ==
  [s EXCEPT !.susp_count = @ + 1, !.fp_suspended[p] = TRUE, !.fp_saved[p] = call]

\* p hangs on the pipe ip.  When p is just being ended and its descriptor is closed
\* already, the test reads through a null pointer: wild is what it gives.
Hangs(s, p, ip, fs_call, wild) ==
  LET f == s.fp_filp[p][s.fp_saved[p].fd]
  IN  /\ s.fp_suspended[p]
      /\ s.fp_saved[p].fs_call = fs_call
      /\ IF f = NIL_FILP THEN wild ELSE s.filp[f].filp_ino = ip

\* The first count processes of the table that hang there.
release(s, ip, fs_call, count, wild) ==
  LET hanging  == {p \in User : Hangs(s, p, ip, fs_call, wild)}
      released == {p \in hanging : Cardinality({q \in hanging : q < p}) < count}
  IN  [s EXCEPT !.fp_revived = [p \in User |-> p \in released \/ @[p]],
                !.reviving = @ + Cardinality(released),
                !.susp_count = @ - Cardinality(released)]

\* Mutant: who hangs on the other end is not woken.
do_close_silent(s, p, fd, wild) ==
  LET f    == s.fp_filp[p][fd]
      less == [s EXCEPT !.filp[f].filp_count = @ - 1, !.fp_filp[p][fd] = NIL_FILP]
  IN  IF f = NIL_FILP THEN s
      ELSE IF s.filp[f].filp_count > 1 THEN less
      ELSE put_inode([less EXCEPT !.filp[f] = FreeFilp], s.filp[f].filp_ino)

do_close(s, p, fd, wild) ==
  LET f    == s.fp_filp[p][fd]
      end  == s.filp[f]
      woken == release(s, end.filp_ino, IF end.filp_mode = "R" THEN "WRITE" ELSE "READ",
                       NR_PROCS, wild)
      less == [woken EXCEPT !.filp[f].filp_count = @ - 1, !.fp_filp[p][fd] = NIL_FILP]
  IN  IF f = NIL_FILP THEN s
      ELSE IF end.filp_count > 1 THEN less
      ELSE put_inode([less EXCEPT !.filp[f] = FreeFilp], end.filp_ino)

do_dup(s, p, fd, fd2) ==
  LET f == s.fp_filp[p][fd]
  IN  [s EXCEPT !.fp_filp[p][fd2] = f, !.filp[f].filp_count = @ + 1]
-----------------------------------------------------------------------------
(* READ and WRITE.  A call gives the tables, whether p is answered, and    *)
(* the answer.                                                             *)

\* h/error.h
ENOSPC == -28
EPIPE  == -32

Answer(s, call, ip, n) ==
  [s |-> s, reply |-> TRUE, answer |-> [call |-> call, ip |-> ip, n |-> n]]
Refused(s) == [s |-> s, reply |-> TRUE, answer |-> [call |-> "none"]]

Hung(s) == [s |-> s, reply |-> FALSE, answer |-> [call |-> "none"]]

\* pipe_check() for an empty pipe: wait, and wake a writer, or report the end.
ReadEmpty(s, p, call, ip) ==
  IF find_filp(s, ip, "W") = {} THEN Answer(s, "READ", ip, 0)
  ELSE LET hung == suspend(s, p, call)
       IN  Hung(IF hung.susp_count > 0 THEN release(hung, ip, "WRITE", 1, FALSE) ELSE hung)

\* Mutant: the writer goes on where it was.
ReadData_stale_writer(s, f, ip, nbytes) ==
  LET size == s.inode[ip].i_size
      n    == Min({nbytes, size - s.filp[f].filp_pos})
      position == s.filp[f].filp_pos + n
  IN  Answer(IF position >= size
             THEN [s EXCEPT !.inode[ip].i_size = 0, !.filp[f].filp_pos = 0]
             ELSE [s EXCEPT !.filp[f].filp_pos = position], "READ", ip, n)

\* The rest of read_write().  A pipe that is read to its end starts anew.
ReadData(s, f, ip, nbytes) ==
  LET size == s.inode[ip].i_size
      n    == Min({nbytes, size - s.filp[f].filp_pos})
      position == s.filp[f].filp_pos + n
      reset == [s EXCEPT !.inode[ip].i_size = 0,
                         !.filp = [g \in Filp |-> IF g = f \/ g \in find_filp(s, ip, "W")
                                                  THEN [@[g] EXCEPT !.filp_pos = 0] ELSE @[g]]]
  IN  Answer(IF position >= size THEN reset ELSE [s EXCEPT !.filp[f].filp_pos = position],
             "READ", ip, n)

do_read(s, p, call) ==
  LET f  == s.fp_filp[p][call.fd]
      ip == s.filp[f].filp_ino
  IN  IF f = NIL_FILP THEN Refused(s)
      ELSE IF s.filp[f].filp_mode # "R" THEN Refused(s)
      ELSE IF s.filp[f].filp_pos >= s.inode[ip].i_size THEN ReadEmpty(s, p, call, ip)
      ELSE ReadData(s, f, ip, call.nbytes)

\* done: the blocks that are written before the disk is full.
WriteData(s, f, ip, nbytes, done) ==
  LET position == s.filp[f].filp_pos + done
  IN  Answer([s EXCEPT !.filp[f].filp_pos = position,
                       !.inode[ip].i_size = Max({@, position})],
             "WRITE", ip, IF done = nbytes THEN done ELSE ENOSPC)

do_write(s, p, call, done) ==
  LET f  == s.fp_filp[p][call.fd]
      ip == s.filp[f].filp_ino
      position == s.filp[f].filp_pos
  IN  IF f = NIL_FILP THEN Refused(s)
      ELSE IF s.filp[f].filp_mode # "W" \/ call.nbytes > PIPE_SIZE THEN Refused(s)
      ELSE IF find_filp(s, ip, "R") = {} THEN Answer(s, "WRITE", ip, EPIPE)
      ELSE IF position + call.nbytes > PIPE_SIZE THEN Hung(suspend(s, p, call))
      ELSE WriteData(IF position = 0 THEN release(s, ip, "READ", 1, FALSE) ELSE s,
                     f, ip, call.nbytes, done)

read_write(s, p, call, done) ==
  IF call.fs_call = "READ" THEN do_read(s, p, call) ELSE do_write(s, p, call, done)
-----------------------------------------------------------------------------
(* What FS does with a message.                                            *)

\* FS works on a message only when nobody is left to revive.
AtReceive == fs.reviving = 0 /\ ~ fs.panicked

\* A reply to a process that was ended meanwhile is lost.
Finish(p, done) ==
  /\ fs' = done.s
  /\ answer' = done.answer
  /\ user' = [user EXCEPT ![p] = IF @ = "free" THEN @
                                 ELSE IF done.reply THEN "running" ELSE "waiting"]

Changed(s) == fs' = s /\ answer' = [call |-> "none"] /\ UNCHANGED user

\* How much of a write the disk takes.
Portions(call) ==
  IF call.fs_call = "WRITE" /\ call.nbytes <= PIPE_SIZE THEN 0 .. call.nbytes ELSE {0}

\* get_work() when a process is to be revived: its call is tried again.
get_work(done) ==
  LET revived == {p \in User : fs.fp_revived[p]}
      p       == Min(revived)
      resumed == [fs EXCEPT !.fp_suspended[p] = FALSE, !.fp_revived[p] = FALSE,
                            !.fp_saved[p] = NoCall, !.reviving = @ - 1]
  IN  /\ fs.reviving # 0
      /\ ~ fs.panicked
      /\ IF revived = {} THEN Changed([fs EXCEPT !.panicked = TRUE])
         ELSE /\ done \in Portions(fs.fp_saved[p])
              /\ Finish(p, read_write(resumed, p, fs.fp_saved[p], done))

Transfer(p, call, done) ==
  /\ AtReceive
  /\ user[p] = "running"
  /\ done \in Portions(call)
  /\ Finish(p, read_write(fs, p, call, done))

do_pipe(p) ==
  /\ AtReceive
  /\ user[p] = "running"
  /\ CanMakePipe(fs, p)
  /\ Changed(NewPipe(fs, p))

Close(p, fd) ==
  /\ AtReceive
  /\ user[p] = "running"
  /\ Changed(do_close(fs, p, fd, FALSE))

\* dup() looks for a free filp slot too, although it needs none.
Dup(p, fd) ==
  /\ AtReceive
  /\ user[p] = "running"
  /\ fs.fp_filp[p][fd] # NIL_FILP
  /\ FreeFds(fs, p) # {} /\ FreeFilps(fs) # {}
  /\ Changed(do_dup(fs, p, fd, Min(FreeFds(fs, p))))

Dup2(p, fd, fd2) ==
  /\ AtReceive
  /\ user[p] = "running"
  /\ fs.fp_filp[p][fd] # NIL_FILP
  /\ fd # fd2
  /\ Changed(do_dup(do_close(fs, p, fd2, FALSE), p, fd, fd2))

Copied(s, parent, child) ==
  [s EXCEPT !.fp_filp[child] = s.fp_filp[parent],
            !.fp_suspended[child] = s.fp_suspended[parent],
            !.fp_revived[child] = s.fp_revived[parent],
            !.fp_saved[child] = s.fp_saved[parent],
            !.filp = [f \in Filp |-> [s.filp[f] EXCEPT !.filp_count =
                        @ + Cardinality({fd \in Fd : s.fp_filp[parent][fd] = f})]]]

do_fork(parent) ==
  LET child == Min({q \in User : user[q] = "free"})
  IN  /\ AtReceive
      /\ user[parent] = "running"
      /\ \E q \in User : user[q] = "free"
      /\ fs' = Copied(fs, parent, child)
      /\ user' = [user EXCEPT ![child] = "running"]
      /\ answer' = [call |-> "none"]

\* Mutant: a sleeper that dies stays counted.
Ended_uncounted(s, p) ==
  [s EXCEPT !.fp_suspended[p] = FALSE, !.fp_saved[p] = IF s.fp_revived[p] THEN @ ELSE NoCall]

\* The end of p, which may hang on a pipe and be ended by a signal.
Ended(s, p) ==
  IF s.fp_suspended[p]
  THEN [s EXCEPT !.susp_count = @ - 1, !.fp_suspended[p] = FALSE,
                 !.fp_saved[p] = IF s.fp_revived[p] THEN @ ELSE NoCall]
  ELSE s

\* The loop of do_exit(): the descriptors below n are closed.
ClosedBelow(s, p, wild) ==
  LET closed[n \in 0 .. NR_FDS] ==
        IF n = 0 THEN s ELSE do_close(closed[n - 1], p, n - 1, wild)
  IN  closed

do_exit(p, wild) ==
  /\ AtReceive
  /\ user[p] # "free"
  /\ wild => fs.fp_suspended[p]
  /\ fs' = Ended(ClosedBelow(fs, p, wild)[NR_FDS], p)
  /\ user' = [user EXCEPT ![p] = "free"]
  /\ answer' = [call |-> "none"]

Next ==
  \/ \E done \in 0 .. PIPE_SIZE : get_work(done)
  \/ \E p \in User, call \in Saved, done \in 0 .. PIPE_SIZE : Transfer(p, call, done)
  \/ \E p \in User : do_pipe(p) \/ do_fork(p)
  \/ \E p \in User, fd \in Fd : Close(p, fd) \/ Dup(p, fd) \/ \E fd2 \in Fd : Dup2(p, fd, fd2)
  \/ \E p \in User \ {INIT_PROC_NR}, wild \in BOOLEAN : do_exit(p, wild)

Spec == Init /\ [][Next]_vars
-----------------------------------------------------------------------------
(* What keeps the known faults out, where they would hide all else.        *)

\* do_exit() goes wrong when a process has two descriptors of one end, or hangs on a
\* pipe and has another descriptor.
TidyExits ==
  \A p \in User : user[p] # "free" /\ user'[p] = "free" =>
    \A fd, fd2 \in Fd :
      fd # fd2 /\ fs.fp_filp[p][fd] # NIL_FILP /\ fs.fp_filp[p][fd2] # NIL_FILP =>
        fs.fp_filp[p][fd] # fs.fp_filp[p][fd2] /\ ~ fs.fp_suspended[p]

\* pipe_check() goes wrong when two processes hang reading one pipe.
OneSleepingReader ==
  \A p, q \in User : p # q =>
    \A ip \in Pipe : ~ (/\ Hangs(fs', p, ip, "READ", FALSE)
                        /\ Hangs(fs', q, ip, "READ", FALSE))

TidyNext == Next /\ TidyExits /\ OneSleepingReader
TidySpec == Init /\ [][TidyNext]_vars
-----------------------------------------------------------------------------
(* Properties.                                                             *)

Asleep(p) == fs.fp_suspended[p] /\ ~ fs.fp_revived[p]

\* glo.h: susp_count is the "number of procs suspended on pipe", reviving the "number
\* of pipe processes to be revived", through suspension, release by any of read,
\* write and close, and the death of the sleeper.
CountsAgree ==
  /\ fs.susp_count = Cardinality({p \in User : Asleep(p)})
  /\ fs.reviving = Cardinality({p \in User : fs.fp_revived[p]})

\* get_work() never panics: where reviving says so there is somebody to revive.
NeverPanics == ~ fs.panicked

\* Exactly the processes that FS has not answered are suspended: no call is
\* dropped, and none is answered twice.
WaitersSuspended == \A p \in User : user[p] = "waiting" <=> fs.fp_suspended[p]

\* Whoever sleeps on a pipe can still be woken by a process that holds the other
\* end: do_close() and do_exit() release the sleepers with the last one.
SleepersHavePartner ==
  \A p \in User : Asleep(p) =>
    LET ip == fs.filp[fs.fp_filp[p][fs.fp_saved[p].fd]].filp_ino
    IN  find_filp(fs, ip, IF fs.fp_saved[p].fs_call = "READ" THEN "W" ELSE "R") # {}

\* "When a process can't continue it is suspended, and revived later when it is able
\* to continue" (pipe.c): no reader and writer sleep on one pipe, each waiting for
\* the other.
NoStandoff ==
  fs.reviving = 0 =>
    \A ip \in Pipe, p, q \in User :
      ~ (Hangs(fs, p, ip, "READ", FALSE) /\ Hangs(fs, q, ip, "WRITE", FALSE))

\* Exactly the processes that FS has not answered are suspended on a pipe; each can still be
\* woken by one that holds the other end, and no reader and writer sleep on one pipe, each
\* waiting for the other (suspend(), release(), do_close(), do_exit()).
SleepersWoken == WaitersSuspended /\ SleepersHavePartner /\ NoStandoff

\* A stronger promise, which the code breaks even for one writer: nobody sleeps whose
\* call could be done.
NobodySleepsNeedlessly ==
  fs.reviving = 0 =>
    \A p \in User : Asleep(p) =>
      ~ read_write([fs EXCEPT !.fp_suspended[p] = FALSE], p, fs.fp_saved[p], 0).reply

\* The counts of the filp and i-node tables are the numbers of references, however
\* descriptors are shared, duplicated and closed, and the dead hold none.
DescriptorsCounted ==
  /\ \A f \in Filp :
       fs.filp[f].filp_count =
         Cardinality({pf \in User \X Fd : fs.fp_filp[pf[1]][pf[2]] = f})
  /\ \A ip \in Pipe :
       fs.inode[ip].i_count =
         Cardinality({f \in Filp : fs.filp[f].filp_count # 0 /\ fs.filp[f].filp_ino = ip})
  /\ \A p \in User : user[p] = "free" => \A fd \in Fd : fs.fp_filp[p][fd] = NIL_FILP

\* susp_count and reviving, which do_exit(), release() and get_work() go by, and the counts
\* of the filp and i-node tables are right through suspensions, revivals by any of read,
\* write and close, and the death of a sleeper (pipe.c, glo.h).
CountsRight == TypeOK /\ CountsAgree /\ DescriptorsCounted

\* The positions of the two ends and the size of the i-node implement a channel.
ChannelOf ==
  [ip \in Pipe |->
     LET readers == find_filp(fs, ip, "R")
     IN  [len |-> IF readers = {} THEN 0 ELSE fs.inode[ip].i_size - fs.filp[Min(readers)].filp_pos,
          readers |-> Cardinality(readers),
          writers |-> Cardinality(find_filp(fs, ip, "W"))]]

C == INSTANCE Channel WITH chan <- ChannelOf

ImplementsChannel == C!Spec
=============================================================================
