SPECIFICATION Spec
CONSTANTS
  Files <- MCFiles
  Slots = 8
  Unsigned = 65536
INVARIANTS
  TypeOK
PROPERTIES
  ImplementsSRecords
  Loads
  LoadsSoon
CHECK_DEADLOCK FALSE
