SPECIFICATION MCSpec
CONSTANTS
  NR_PROCS = 5
  LAST_FEW = 2
  MaxPid = 5
  Signals = {3}
  Uids = {1}
  SetuidFiles = {}
  Ttys = {}
  Calls = {"FORK", "EXIT", "WAIT", "PAUSE", "SIGNAL", "SETUID", "KILL"}
  MaxDrift = 1
  RootKillsAll = FALSE
INVARIANTS TablesRight FamilyWhole BlockedIffOwed
PROPERTY DeathsReported
CHECK_DEADLOCK FALSE
