SPECIFICATION Spec
CONSTANTS
  NR_TASKS = 4
  NR_PROCS = 3
  NrUsers = 1
  Signals = {"SIGINT"}
  Body <- MCBody
  Calls <- SystemCalls
  Pushes <- Revivals
  Drivers <- DriverTasks
  MaxLost = 1
INVARIANT RequestIntact
