SPECIFICATION Spec
CONSTANTS
  x = x
  y = y
  z = z
  w1 = w1
  w2 = w2
  NULL = NULL
  Bit = {0, 1}
  Keys = {x, z}
  Workers = {w1}
  Requests <- Destination
  OldFiles <- OneFile
  Offsets = {0, 2}
  Values = {0, 1}
  FILE_BUFFER_SIZE = 2
  FILE_SIZE_LIMIT = 9
  INT_MAX = 9
  AllocFails = FALSE
  FilesystemFails = FALSE
  NoTruncation = FALSE
  Orderly = FALSE
  MaxCommands = 3
CHECK_DEADLOCK FALSE
INVARIANT BitopStoresResult
