SPECIFICATION SpecWithTerm
CONSTANTS
  k1 = k1
  k2 = k2
  k3 = k3
  b1 = b1
  b2 = b2
  w1 = w1
  w2 = w2
  NULL = NULL
  Keys = {k1, k2, k3}
  Buckets = {b1, b2}
  BucketOf <- TwoBuckets
  Workers = {w1, w2}
  Commands = {"SETBIT", "BITCOP"}
  DESC_TABLE_SIZE = 2
  MaxSources = 2
  FilesystemFails = TRUE
  MaxClock = 3
SYMMETRY Symmetric
CONSTRAINT Intact
CHECK_DEADLOCK FALSE
INVARIANTS TypeOK IntactInUseKeepsKey IntactInUseIsOpen RefsCountHolders IntactAllReachable NoStreamLost
PROPERTIES CloseFilesClosesAll RetryTakesIdleSlot
