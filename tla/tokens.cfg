SPECIFICATION ParserSpec
CONSTANTS
  MaxLength = 11
  NAME_LENGTH = 1
  CMD_MININUM = 3
  BITOP_MAXIMUM = 5
  ARG_PART_MAXIMUM = 3
CHECK_DEADLOCK FALSE
INVARIANTS ArgumentsAreWords AnsweredOnce JobMemory ExecutedIffWellFormed
