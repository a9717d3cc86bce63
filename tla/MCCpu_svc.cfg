SPECIFICATION Spec
CHECK_DEADLOCK FALSE
CONSTANTS
  Programs <- MCNested
  Breakpoints <- NoStop
  Entries <- None
  PswWords <- None
  RegisterEdits <- None
  MaxRuns = 1
PROPERTIES
  TrapPassesControl
