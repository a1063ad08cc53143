SPECIFICATION DiskSpec
CONSTANTS
  w1 = w1
  w2 = w2
  Keys = {2, 3, 4}
  Inner = {}
  Parent <- Tree
  Encoded <- Paths
  Writers = {w1, w2}
  Listers = {l1}
  Program <- Racing
  Queries <- SomePrefixes
  limit = 2
CHECK_DEADLOCK FALSE
INVARIANTS
  ValuesAreWhole
  AcknowledgedIsKept
  ListIsCurrent
PROPERTY
  FirstWins
