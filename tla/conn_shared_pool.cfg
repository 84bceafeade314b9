SPECIFICATION FairSpec
CONSTANTS
  c1 = c1
  c2 = c2
  Conns = {c1, c2}
  PoolSize = 1
  READ_CHUNK = 2
  RBUF_INIT_CAP = 2
  RBUF_MAX_CAP = 4
  SilentCommands = FALSE
  AllocFails = FALSE
  NetworkFails = TRUE
  MaxBytes = 2
CHECK_DEADLOCK FALSE
INVARIANT RepliesOrdered
PROPERTIES EveryLineAnswered ClosingIsFreed
