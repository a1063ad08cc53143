SPECIFICATION ListSpec
CONSTANTS
  Outside = 5
  Limits = {1, 3, 5}
  PageSize = 2
CHECK_DEADLOCK FALSE
INVARIANTS
  ListIsComplete
PROPERTIES
  ListReturns
