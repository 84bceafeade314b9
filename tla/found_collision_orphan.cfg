SPECIFICATION Spec
CONSTANTS
  k1 = k1
  k2 = k2
  k3 = k3
  b1 = b1
  b2 = b2
  w1 = w1
  NULL = NULL
  Keys = {k1, k2, k3}
  Buckets = {b1, b2}
  BucketOf <- TwoBuckets
  Workers = {w1}
  Commands = {"SETBIT"}
  DESC_TABLE_SIZE = 2
  MaxSources = 1
  FilesystemFails = FALSE
  MaxClock = 4
SYMMETRY Symmetric
CHECK_DEADLOCK FALSE
INVARIANT AllReachable
