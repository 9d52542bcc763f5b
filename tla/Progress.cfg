CONSTANTS
  REGISTER_COUNT = 4
  SHAMT_SPACE = 4
  WORD_BITS = 12
  MEMORY_SIZE = 8
  INSTRUCTION_MEMORY_SIZE = 6
  DATA_MEMORY_START = 6
  BitAnd <- MCBitAnd
  BitXor <- MCBitXor
  ShiftLeft <- MCShiftLeft
  ShiftRight <- MCShiftRight
  Programs <- ShortBranchPrograms
  MaxCycles = 19
SPECIFICATION FairSpec
PROPERTIES ForwardDrains RedirectEnds
