SPECIFICATION RegSpec
CONSTANTS
  IDs = {1, 2, 3, 4}
  MaxRevision = 3
  MaxRetries = 0
  Clients = {c1}
  n1 = n1
  n2 = n2
  Names = {n1, n2}
  MaxCalls = 3
  CarelessBatches <- Careless
CHECK_DEADLOCK FALSE
INVARIANTS
  ProjectionMatches
PROPERTY
  PoisonIsFinal
