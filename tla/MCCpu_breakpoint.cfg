SPECIFICATION Spec
CHECK_DEADLOCK FALSE
CONSTANTS
  Programs <- MCBlock
  Breakpoints <- MCBreak
  Entries <- None
  PswWords <- None
  RegisterEdits <- None
  MaxRuns = 1
INVARIANTS
  BreakpointHalts
