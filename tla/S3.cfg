SPECIFICATION S3FairSpec
CONSTANTS
  Calls = {c1, c2}
  Sizes = {4, 5, 7}
  multipartThreshold = 4
  multipartPartSize = 1
  minPartSize = 1
  maxPartSize = 2
  maxParts = 3
  uploadConcurrency = 2
  retries = 1
  MaxLate = 2
CHECK_DEADLOCK FALSE
INVARIANTS
  ObjectIsWhole
  UploadsAreCleanedUp
PROPERTIES
  CreateReturns
  ImplementsContract
