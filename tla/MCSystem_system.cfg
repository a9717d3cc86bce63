SPECIFICATION CachedSpec
CHECK_DEADLOCK FALSE
CONSTANTS
  Programs <- MCSystems
  Breakpoints <- MCBreak
  Entries <- None
  PswWords <- None
  RegisterEdits <- None
  MaxRuns = 2
  Lines = 8
  CacheTypes = {"ASSOCIATIVE", "DIRECTMAPPING", "NO_CACHE"}
INVARIANTS
  LinesHoldMemory
  AccessesClean
PROPERTIES
  ImplementsCpu
