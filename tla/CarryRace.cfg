SPECIFICATION Spec
CONSTANTS
  Radix = 2
  TopLevel = 2
  MaxRevision = 5
  IDs = {1, 2, 3, 4, i1, i2, x}
  Goroutines = 3
  MaxRetries = 1
  MaxInt64 = 9
  MaxLate = 1
  Prefix = 4
  Older = {x}
  Opaque = {x}
  Decodes <- Versions
SYMMETRY Symmetry
ACTION_CONSTRAINT QuietPrefix
CHECK_DEADLOCK FALSE
INVARIANTS
  ReferencesResolve
  HistoryComplete
  SegmentsConverge
  NoFalseCorruption
PROPERTIES
  ImplementsEventLog
