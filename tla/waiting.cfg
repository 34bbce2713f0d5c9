SPECIFICATION System
CONSTANTS
  NR_PROCS = 5
  NR_FDS = 2
  NR_FILPS = 3
  Pipe = {1}
  PIPE_SIZE = 2
INVARIANTS CountsRight SleepersWoken ReadersMinded WriterStopped
PROPERTIES ImplementsChannel ImplementsLines
CHECK_DEADLOCK FALSE
