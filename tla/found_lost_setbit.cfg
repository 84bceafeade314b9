SPECIFICATION Spec
CONSTANTS
  x = x
  y = y
  z = z
  w1 = w1
  w2 = w2
  NULL = NULL
  Bit = {0, 1}
  Keys = {x}
  Workers = {w1, w2}
  Requests <- Setters
  OldFiles <- OneFile
  Offsets = {0}
  Values = {1}
  FILE_BUFFER_SIZE = 1
  FILE_SIZE_LIMIT = 2
  INT_MAX = 2
  AllocFails = FALSE
  FilesystemFails = FALSE
  NoTruncation = TRUE
  Orderly = FALSE
  MaxCommands = 3
CHECK_DEADLOCK FALSE
INVARIANT AcknowledgedBitsStay
