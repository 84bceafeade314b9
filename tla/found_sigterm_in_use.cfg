SPECIFICATION SpecWithTerm
CONSTANTS
  k1 = k1
  k2 = k2
  k3 = k3
  b1 = b1
  b2 = b2
  w1 = w1
  NULL = NULL
  Keys = {k1, k2, k3}
  Buckets = {k1, k2, k3}
  BucketOf <- DistinctBuckets
  Workers = {w1}
  Commands = {"SETBIT"}
  DESC_TABLE_SIZE = 2
  MaxSources = 1
  FilesystemFails = FALSE
  MaxClock = 3
SYMMETRY Symmetric
CHECK_DEADLOCK FALSE
INVARIANT InUseIsOpen
