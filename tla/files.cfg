SPECIFICATION System
CONSTANTS
  f1 = f1
  f2 = f2
  ROOT_DEV = "ram"
  DISK = "disk"
  Inums <- Numbers
  Name <- Names4
  Paths <- PathSet
  Links <- LinkSet
  Mounts <- MountSet
  DirPaths <- DirPathSet
  Modes <- AllModes
  Masks <- Most
  Calls <- DoneBy
  Proc = {0, 2, 3}
  MM_PROC_NR = 0
  INIT_PROC_NR = 2
  Uid = {0, 1}
  SUPER_USER = 0
  Fd = {0, 1}
  Filp = {1, 2}
  NR_INODES = 4
  MAX_LINKS = 2
  DirSlots = 4
  MaxCalls = 4
  Careful = TRUE
INVARIANTS CountsRight NamesWhole ErrorsLeaveNothing ZonesOwned AllocFindsFree
PROPERTY ImplementsFiles
CHECK_DEADLOCK FALSE
