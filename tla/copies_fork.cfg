SPECIFICATION Handlers
CONSTANTS
  NrClicks = 7
  NrReserved = 2
  NR_HOLES = 4
  NR_PROCS = 5
  MAX_PAGES = 3
  InitText = 0
  InitData = 1
  Programs <- Files
INVARIANT ForkedRunsInItsOwn
CHECK_DEADLOCK FALSE
