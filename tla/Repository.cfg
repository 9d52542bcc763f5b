CONSTANTS
  REGISTER_COUNT = 8
  SHAMT_SPACE = 32768
  WORD_BITS = 28
  MEMORY_SIZE = 2048
  INSTRUCTION_MEMORY_SIZE = 1024
  DATA_MEMORY_START = 1024
  BitAnd <- MCBitAnd
  BitXor <- MCBitXor
  ShiftLeft <- MCShiftLeft
  ShiftRight <- MCShiftRight
  LINE_CELLS = 16
  LONG_MAX = 1073741823
  Files <- RepositoryFiles
  MaxCycles = 60
SPECIFICATION Spec
INVARIANT TestsEndAsIntended
