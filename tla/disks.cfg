SPECIFICATION System
CONSTANTS
  s_ninodes = 8
  Zones = 22
  PerBlock = 3
  NDIRECT = 1
  NINDIRECT = 2
  Given <- Given1
  Device <- Terminal
  Paths <- SomePaths
  Contents <- ShortAndLong
  MaxCommands = 3
  Careful = TRUE
  Headers <- SomePrograms
  IMAGE_BYTES = 960
INVARIANTS BuffersWhole CrashLosesDataOnly ImageWhole MapsRight
PROPERTIES OnlyWritesChange ImageIsTree
CHECK_DEADLOCK FALSE
