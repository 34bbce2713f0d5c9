SPECIFICATION Spec
CONSTANTS
  NR_TASKS = 4
  NR_PROCS = 4
  NrUsers = 2
  Signals = {}
  Body <- MCBody
  Calls <- SystemCalls
  Pushes <- Revivals
  Drivers = {}
  MaxLost = 0
INVARIANTS UsersGetReplies
