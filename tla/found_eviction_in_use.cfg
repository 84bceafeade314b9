SPECIFICATION Spec
CONSTANTS
  k1 = k1
  k2 = k2
  k3 = k3
  b1 = b1
  b2 = b2
  w1 = w1
  w2 = w2
  NULL = NULL
  Keys = {k1, k2, k3}
  Buckets = {k1, k2, k3}
  BucketOf <- DistinctBuckets
  Workers = {w1, w2}
  Commands = {"SETBIT"}
  DESC_TABLE_SIZE = 2
  MaxSources = 1
  FilesystemFails = FALSE
  MaxClock = 8
SYMMETRY Symmetric
CHECK_DEADLOCK FALSE
INVARIANT InUseKeepsKey
