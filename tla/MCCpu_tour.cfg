SPECIFICATION FairSpec
CHECK_DEADLOCK FALSE
CONSTANTS
  Programs <- MCTour
  Breakpoints <- MCBreak
  Entries <- MCEntry
  PswWords <- MCPsw
  RegisterEdits <- MCEdits
  MaxRuns = 2
INVARIANTS
  TypeOK
  IndexInTable
  ListensWhileRunning
PROPERTIES
  PswGuarded
  StopsWhenAsked
  StopsSoon
