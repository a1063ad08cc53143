SPECIFICATION ScanSpec
CONSTANTS
  Radix = 3
  TopLevel = 2
  MaxRevision = 26
  MaxLength = 11
  BatchBytes = {0, 40000, 200000}
CHECK_DEADLOCK FALSE
INVARIANTS
  YieldsTheLog
  ScansAreComplete
  GetsAsPlanned
