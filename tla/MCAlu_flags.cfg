SPECIFICATION Spec
CHECK_DEADLOCK FALSE
CONSTANTS
  Values <- MCValues
  Ops <- MCOps
INVARIANTS
  AddRight
  CompareRight
  DecimalRight
