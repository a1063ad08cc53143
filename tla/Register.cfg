SPECIFICATION RegSpec
CONSTANTS
  IDs = {1, 2, 3, 4, 5, 6, 7}
  MaxRevision = 3
  MaxRetries = 0
  Clients = {c1, c2}
  Names = {n1, n2}
  MaxCalls = 2
  CarelessBatches = {}
CHECK_DEADLOCK FALSE
INVARIANTS
  UniqueNames
  NeverPoisoned
  AnswersAreTrue
PROPERTIES
  RegisterReturns
