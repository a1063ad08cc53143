SPECIFICATION FairSpec
CONSTANTS
  Radix = 2
  TopLevel = 1
  MaxRevision = 2
  IDs = {i1, i2, i3}
  Goroutines = 2
  MaxRetries = 1
  MaxInt64 = 9
  MaxLate = 1
  Prefix = 0
  Older = {i3}
  Opaque = {}
  Decodes <- Versions
CHECK_DEADLOCK FALSE
INVARIANTS
  IInv
  AtMostOnce
  RefusedIsFinal
  AcknowledgedIsCommitted
  RetriesAreContended
  CommittedInOrder
PROPERTIES
  Termination
