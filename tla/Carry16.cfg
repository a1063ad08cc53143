SPECIFICATION CarrySpec
CONSTANTS
  Radix = 16
  TopLevel = 5
  MaxRevision = 4200
CHECK_DEADLOCK FALSE
INVARIANTS
  FrontierValid
PROPERTIES
  ReachesMaxRevision
