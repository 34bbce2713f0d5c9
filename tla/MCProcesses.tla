---------------------------- MODULE MCProcesses -----------------------------
(***************************************************************************)
(* Three small populations of processes for MM.  "on" says which one a     *)
(* behaviour is about.  The first one is MM with the constants of the      *)
(* configuration: two users who signal each other, catch, ignore and wait. *)
(***************************************************************************)
EXTENDS MM

VARIABLE on

mcvars == <<on, mm, work>>

\* Three generations, and room for a fourth process that only the superuser gets.
Family == INSTANCE MM WITH
  NR_PROCS <- 6, LAST_FEW <- 1, MaxPid <- 6, Signals <- {}, Uids <- {}, SetuidFiles <- {},
  Ttys <- {}, Calls <- {"FORK", "EXIT", "WAIT"}, MaxDrift <- 1, RootKillsAll <- FALSE

\* Signals of a terminal and of broken pipes.
FromKernel == INSTANCE MM WITH
  NR_PROCS <- 5, LAST_FEW <- 1, MaxPid <- 5, Signals <- {2, 13}, Uids <- {1},
  SetuidFiles <- {1}, Ttys <- {3}, Calls <- {"FORK", "EXIT", "WAIT", "EXEC", "FS"},
  MaxDrift <- 1, RootKillsAll <- FALSE
-----------------------------------------------------------------------------
MCInit ==
  \/ on = "signalled" /\ Init
  \/ on = "family" /\ Family!Init
  \/ on = "from kernel" /\ FromKernel!Init

MCNext ==
  /\ UNCHANGED on
  /\ \/ on = "signalled" /\ Next
     \/ on = "family" /\ Family!Next
     \/ on = "from kernel" /\ FromKernel!Next

MCSpec == MCInit /\ [][MCNext]_mcvars
-----------------------------------------------------------------------------
\* The tables of MM, of the kernel and of FS agree on which slots are taken, MM's count of
\* them is right, and no two processes have the same pid, through every exit, wait and kill
\* (mm_exit(), cleanup() and do_fork() of forkexit.c).
TablesRight ==
  /\ on = "signalled" => TypeOK /\ PidsUnique
  /\ on = "family" => SlotsCounted
  /\ on = "from kernel" => TablesAgree
=============================================================================
