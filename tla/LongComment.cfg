CONSTANTS
  REGISTER_COUNT = 4
  SHAMT_SPACE = 16
  WORD_BITS = 14
  MEMORY_SIZE = 4
  INSTRUCTION_MEMORY_SIZE = 3
  DATA_MEMORY_START = 3
  BitAnd <- MCBitAnd
  BitXor <- MCBitXor
  ShiftLeft <- MCShiftLeft
  ShiftRight <- MCShiftRight
  LINE_CELLS = 6
  LONG_MAX = 131071
  Files <- LongLineFiles
SPECIFICATION Spec
PROPERTY CommentsIgnored
