SPECIFICATION DiskSpec
CONSTANTS
  w1 = w1
  w2 = w2
  Keys = {2, 4}
  Inner = {3}
  Parent <- Tree
  Encoded <- Paths
  Writers = {w1, w2}
  Listers = {}
  Program <- SharedSegment
  Queries <- SomePrefixes
  limit = 1
CHECK_DEADLOCK FALSE
INVARIANT
  DependenciesAreKept
