SPECIFICATION TracedSpec
CHECK_DEADLOCK FALSE
CONSTANTS
  Programs <- MCPrograms
  Breakpoints <- MCBreaks
  Entries <- None
  PswWords <- None
  RegisterEdits <- None
  MaxRuns = 4
INVARIANTS
  PrioritiesAscend
  CexNotNested
  TrapsOutsideBlocks
PROPERTIES
  ImplementsPredication
  ImplementsTraps
  KeepsStack
