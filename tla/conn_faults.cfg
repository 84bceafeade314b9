SPECIFICATION Spec
CONSTANTS
  c1 = c1
  Conns = {c1}
  PoolSize = 1
  READ_CHUNK = 2
  RBUF_INIT_CAP = 2
  RBUF_MAX_CAP = 4
  SilentCommands = TRUE
  AllocFails = TRUE
  NetworkFails = TRUE
  MaxBytes = 6
CHECK_DEADLOCK FALSE
INVARIANTS TypeOK BusyIffInFlight ClosedOnce ClosedWhenIdle ClosingIsClosed BufferBounded FramingExact RepliesIncrease NoStall
PROPERTIES ImplementsPipeline DroppedOnlyOverfull
