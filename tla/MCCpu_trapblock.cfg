SPECIFICATION Spec
CHECK_DEADLOCK FALSE
CONSTANTS
  Programs <- MCInBlock
  Breakpoints <- NoStop
  Entries <- None
  PswWords <- None
  RegisterEdits <- None
  MaxRuns = 1
INVARIANTS
  PredicatedWhileOn
