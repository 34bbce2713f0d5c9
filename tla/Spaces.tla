------------------------------- MODULE Spaces -------------------------------
(***************************************************************************)
(* What the system task and the memory driver promise: every process has   *)
(* spaces of its own, a text and a data space whose bytes are numbered     *)
(* from 0, and a request moves just the bytes that it names.  A signal     *)
(* that is caught suspends what the process was doing until it returns.    *)
(***************************************************************************)
EXTENDS Integers, Sequences, FiniteSets

CONSTANTS
  Text(_), Data(_),    \* what a program file holds
  Extent(_)            \* how much of a device there is

VARIABLES
  space,     \* <<owner, segment>> |-> its bytes, a function on 0 .. size - 1
  context,   \* for each process, what it does: pc, psw and sp
  saved,     \* for each process, the contexts its signals have suspended
  did        \* the last request, with its reply

vars == <<space, context, saved, did>>

Size(s) == Cardinality(DOMAIN space[s])

EOF == -104
E_BAD_ADDR == -10

\* n bytes from i on in s come to j in d.
Moved(s, i, d, j, n) ==
  [space EXCEPT ![d] = [v \in DOMAIN @ |-> IF v \in j .. j + n - 1 THEN space[s][i + v - j] ELSE @[v]]]

\* All spaces but these stay as they are.
Others(ours) ==
  DOMAIN space' = DOMAIN space /\ \A s \in DOMAIN space \ ours : space'[s] = space[s]

\* A copy fails, and moves nothing, if a range starts beyond its space.
Copy(r) ==
  /\ r.op = "copy"
  /\ r.reply = IF r.i < Size(r.src) /\ r.j < Size(r.dst) THEN "OK" ELSE "EFAULT"
  /\ space' = IF r.reply = "OK" THEN Moved(r.src, r.i, r.dst, r.j, r.n) ELSE space
  /\ UNCHANGED <<context, saved>>

\* A device ends where it ends: the reply says how much was moved.
Device(r) ==
  LET n == IF r.n < Extent(r.dev) - r.i THEN r.n ELSE Extent(r.dev) - r.i
      at == r.first + r.i
  IN /\ r.op = "device"
     /\ r.reply = IF n <= 0 THEN EOF ELSE IF r.j < Size(r.user) THEN n ELSE E_BAD_ADDR
     /\ space' = CASE r.reply \in {EOF, E_BAD_ADDR} -> space
                   [] r.read -> Moved(r.owner, at, r.user, r.j, n)
                   [] OTHER -> Moved(r.user, r.j, r.owner, at, n)
     /\ UNCHANGED <<context, saved>>

\* Blocks of the disks, and characters for a terminal.
Load(r) ==
  /\ r.op = "load"
  /\ space' = [space EXCEPT ![r.dst] =
       [v \in DOMAIN @ |-> IF v \in r.j .. r.j + Len(r.block) - 1 THEN r.block[v - r.j + 1] ELSE @[v]]]
  /\ UNCHANGED <<context, saved>>

Store(r) ==
  /\ r.op = "store"
  /\ r.out = IF r.i < Size(r.src) THEN [k \in 1 .. r.n |-> space[r.src][r.i + k - 1]] ELSE <<>>
  /\ UNCHANGED <<space, context, saved>>

\* The child is its parent's copy, suspended contexts included.
Fork(r) ==
  /\ r.op = "fork"
  /\ space' = [space EXCEPT ![<<r.child, "T">>] = space[<<r.p, "T">>],
                            ![<<r.child, "D">>] = space[<<r.p, "D">>]]
  /\ context' = [context EXCEPT ![r.child] = context[r.p]]
  /\ saved' = [saved EXCEPT ![r.child] = saved[r.p]]

Exit(r) ==
  /\ r.op = "exit"
  /\ space' = [space EXCEPT ![<<r.p, "T">>] = <<>>, ![<<r.p, "D">>] = <<>>]
  /\ context' = [context EXCEPT ![r.p] = <<>>] /\ saved' = [saved EXCEPT ![r.p] = <<>>]

\* The arguments' words, moved to where the new stack is: the pointers of two lists, each
\* ended by a 0, are relative to it.
Relocated(words, base) ==
  [k \in DOMAIN words |->
     LET zeros == Cardinality({h \in 2 .. k : words[h] = 0})
     IN IF k > 1 /\ zeros < 2 /\ words[k] # 0 THEN words[k] + base ELSE words[k]]

\* The program, zeros, and the arguments at the top; of what was suspended nothing is left.
Exec(r) ==
  LET d == <<r.p, "D">>
      args == Relocated([k \in 1 .. r.n |-> space[d][r.i + k - 1]], r.base)
      program == Data(r.file)
  IN /\ r.op = "exec"
     /\ r.i < Size(d)
     /\ space'[<<r.p, "T">>] = [v \in 0 .. Len(Text(r.file)) - 1 |-> Text(r.file)[v + 1]]
     /\ space'[d] = [v \in 0 .. r.size - 1 |->
                       CASE v < Len(program) -> program[v + 1]
                         [] v \in r.base .. r.base + r.n - 1 -> args[v - r.base + 1]
                         [] OTHER -> 0]
     /\ Others({<<r.p, "T">>, d, <<"FS", "D">>})
     /\ context' = [context EXCEPT ![r.p] = [@ EXCEPT !.pc = 0, !.sp = r.base]]
     /\ saved' = [saved EXCEPT ![r.p] = <<>>]

\* The handler starts.  Of the memory only what lies under the stack pointer may change.
Signal(r) ==
  LET was == context[r.p]
      d == <<r.p, "D">>
  IN /\ r.op = "signal"
     /\ context' = [context EXCEPT ![r.p] = [@ EXCEPT !.pc = r.handler, !.sp = @ - r.n]]
     /\ saved' = [saved EXCEPT ![r.p] = <<was>> \o @]
     /\ DOMAIN space'[d] = DOMAIN space[d]
     /\ \A v \in DOMAIN space[d] \ (was.sp - r.n .. was.sp - 1) : space'[d][v] = space[d][v]
     /\ Others({d, <<"SYS", "D">>})

\* The handler returns, and the process goes on where it was.
Return(r) ==
  /\ r.op = "return"
  /\ context' = [context EXCEPT ![r.p] = Head(saved[r.p])]
  /\ saved' = [saved EXCEPT ![r.p] = Tail(@)]
  /\ UNCHANGED space

\* New sizes of the segments, and the first half of a fork, are not seen.
Nothing(r) == r.op \in {"brk", "forking"} /\ UNCHANGED <<space, context, saved>>

Init == did = [op |-> "none"]

Next ==
  \/ Copy(did') \/ Device(did') \/ Load(did') \/ Store(did') \/ Fork(did') \/ Exit(did')
  \/ Exec(did') \/ Signal(did') \/ Return(did') \/ Nothing(did')

Spec == Init /\ [][Next]_vars
=============================================================================
