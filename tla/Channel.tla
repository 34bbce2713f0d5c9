------------------------------ MODULE Channel -------------------------------
(***************************************************************************)
(* What pipes promise to the processes that hold their ends: bytes arrive  *)
(* once, a reader is told of the end only when nothing is left and nobody  *)
(* can write any more, a writer of a broken pipe only when nobody can read.*)
(***************************************************************************)
EXTENDS Integers

CONSTANTS Pipe,        \* the i-nodes that can be pipes
          PIPE_SIZE    \* what a pipe holds, in blocks

VARIABLES chan,     \* for each pipe, what is in it and how many hold its ends
          answer    \* what the last READ or WRITE returned

vars == <<chan, answer>>

\* h/error.h
ENOSPC == -28
EPIPE  == -32

NoAnswer == [call |-> "none"]

answered(call, ip, n) == [call |-> call, ip |-> ip, n |-> n]

Closed == [len |-> 0, readers |-> 0, writers |-> 0]
Opened == [len |-> 0, readers |-> 1, writers |-> 1]

Init ==
  /\ chan = [ip \in Pipe |-> Closed]
  /\ answer = NoAnswer

Write(ip, n) ==
  /\ answer' = answered("WRITE", ip, n)
  /\ chan[ip].readers > 0
  /\ chan[ip].len + n <= PIPE_SIZE
  /\ chan' = [chan EXCEPT ![ip].len = @ + n]

\* The disk is full: part of the data is in the pipe.
WriteFails(ip, n) ==
  /\ answer' = answered("WRITE", ip, ENOSPC)
  /\ chan[ip].readers > 0
  /\ chan[ip].len + n <= PIPE_SIZE
  /\ chan' = [chan EXCEPT ![ip].len = @ + n]

BrokenPipe(ip) ==
  /\ answer' = answered("WRITE", ip, EPIPE)
  /\ chan[ip].readers = 0
  /\ UNCHANGED chan

\* A read takes n blocks: what there is, up to what was asked for.
Read(ip, n) ==
  /\ answer' = answered("READ", ip, n)
  /\ n \in 1 .. chan[ip].len
  /\ chan' = [chan EXCEPT ![ip].len = @ - n]

EndOfFile(ip) ==
  /\ answer' = answered("READ", ip, 0)
  /\ chan[ip].len = 0
  /\ chan[ip].writers = 0
  /\ UNCHANGED chan

\* The ends are opened together, shared and closed; an end that nobody holds stays
\* closed, and what nobody can read is gone.
Held(old, new) ==
  \/ old = Closed /\ new = Opened
  \/ /\ old.readers = 0 => new.readers = 0
     /\ old.writers = 0 => new.writers = 0
     /\ new.len = IF new.readers = 0 THEN 0 ELSE old.len

Hold ==
  /\ answer' = NoAnswer
  /\ \A ip \in Pipe : Held(chan[ip], chan'[ip])

Next ==
  \/ Hold
  \/ \E ip \in Pipe : BrokenPipe(ip) \/ EndOfFile(ip)
  \/ \E ip \in Pipe, n \in 0 .. PIPE_SIZE : Write(ip, n) \/ WriteFails(ip, n) \/ Read(ip, n)

Spec == Init /\ [][Next]_vars
=============================================================================
