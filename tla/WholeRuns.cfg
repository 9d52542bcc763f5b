CONSTANTS
  REGISTER_COUNT = 4
  SHAMT_SPACE = 16
  WORD_BITS = 14
  MEMORY_SIZE = 6
  INSTRUCTION_MEMORY_SIZE = 4
  DATA_MEMORY_START = 4
  BitAnd <- MCBitAnd
  BitXor <- MCBitXor
  ShiftLeft <- MCShiftLeft
  ShiftRight <- MCShiftRight
  LINE_CELLS = 6
  LONG_MAX = 131071
  Files <- WholeFiles
  MaxCycles = 19
SPECIFICATION FairSpec
INVARIANTS EngineFindsProgram FetchesStored CompletesTheFile
PROPERTIES ExecutesStored RunsTheFile AlwaysExits
