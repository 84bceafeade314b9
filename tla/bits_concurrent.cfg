SPECIFICATION CrashSpec
CONSTANTS
  x = x
  y = y
  z = z
  w1 = w1
  w2 = w2
  NULL = NULL
  Bit = {0, 1}
  Keys = {x}
  Workers = {w1, w2}
  Requests <- SettersAndCounters
  OldFiles <- OneFile
  Offsets = {1, 2}
  Values = {0, 1}
  FILE_BUFFER_SIZE = 2
  FILE_SIZE_LIMIT = 2
  INT_MAX = 2
  AllocFails = FALSE
  FilesystemFails = FALSE
  NoTruncation = TRUE
  Orderly = FALSE
  MaxCommands = 4
  MaxCrashes = 1
CHECK_DEADLOCK FALSE
INVARIANTS IntactAcknowledged OneBitAtRisk
PROPERTY CountBetween
