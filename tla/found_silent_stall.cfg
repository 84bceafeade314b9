SPECIFICATION FairSpec
CONSTANTS
  c1 = c1
  Conns = {c1}
  PoolSize = 1
  READ_CHUNK = 2
  RBUF_INIT_CAP = 2
  RBUF_MAX_CAP = 4
  SilentCommands = TRUE
  AllocFails = FALSE
  NetworkFails = FALSE
  MaxBytes = 4
CHECK_DEADLOCK FALSE
PROPERTY EveryLineExecuted
