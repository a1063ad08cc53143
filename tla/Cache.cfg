SPECIFICATION CacheSpec
CONSTANTS
  Writers = {w1, w2}
  Readers = {r1, r2}
  Length = 2
  MaxLate = 2
INVARIANTS
  CacheIsFaithful
  ScratchIsClosed
PROPERTIES
  ImplementsContract
