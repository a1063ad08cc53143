SPECIFICATION SegmentSpec
CONSTANTS
  Children = 8
  GroupSize = 4
CHECK_DEADLOCK FALSE
INVARIANTS
  FilesAreClosedOnce
  PackedInOrder
  CauseIsReported
PROPERTIES
  CreateSegmentReturns
