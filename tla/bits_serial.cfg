SPECIFICATION FairSpec
CONSTANTS
  x = x
  y = y
  z = z
  w1 = w1
  w2 = w2
  NULL = NULL
  Bit = {0, 1}
  Keys = {x, y, z}
  Workers = {w1, w2}
  Requests <- OneOfEach
  OldFiles <- Files
  Offsets = {2, 4}
  Values = {0, 1}
  FILE_BUFFER_SIZE = 2
  FILE_SIZE_LIMIT = 3
  INT_MAX = 3
  AllocFails = TRUE
  FilesystemFails = TRUE
  NoTruncation = FALSE
  Orderly = TRUE
  MaxCommands = 2
CHECK_DEADLOCK FALSE
INVARIANTS TypeOK LengthMatchesSize
PROPERTIES ImplementsBitmap CommandsEnd
