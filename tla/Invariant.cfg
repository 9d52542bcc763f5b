CONSTANTS
  REGISTER_COUNT = 2
  SHAMT_SPACE = 2
  WORD_BITS = 8
  MEMORY_SIZE = 6
  INSTRUCTION_MEMORY_SIZE = 4
  DATA_MEMORY_START = 4
  BitAnd <- MCBitAnd
  BitXor <- MCBitXor
  ShiftLeft <- MCShiftLeft
  ShiftRight <- MCShiftRight
  Programs <- NarrowPrograms
  MaxCycles = 17
SPECIFICATION Spec
INVARIANTS IInv RefinementInvariant
