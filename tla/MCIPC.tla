------------------------------- MODULE MCIPC --------------------------------
(* Small instances of IPC.  The tasks are SYSTASK and CLOCK, and where      *)
(* NR_TASKS is 4 one device driver; the terminal task is such a driver.     *)
EXTENDS IPC

DRIVER == -4
DriverTasks == {DRIVER}

MCBody == {REQ, REP, PUSH, INT}
            \cup {ksig_mess(p, map) : p \in Slot, map \in SUBSET Signals}

\* Who calls whom: tell_fs() and the sys_*() calls of MM, dev_io() of FS.
SystemCalls == {<<MM_PROC_NR, FS_PROC_NR>>, <<MM_PROC_NR, SYSTASK>>, <<FS_PROC_NR, DRIVER>>}

ASSUME SystemCallsDescend == CallsDescend

\* The terminal task revives a reader that FS suspended.
Revivals == {<<DRIVER, FS_PROC_NR>>}
=============================================================================
