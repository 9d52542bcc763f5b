CONSTANTS
  REGISTER_COUNT = 2
  SHAMT_SPACE = 2
  WORD_BITS = 8
  MEMORY_SIZE = 4
  INSTRUCTION_MEMORY_SIZE = 2
  DATA_MEMORY_START = 2
  BitAnd <- MCBitAnd
  BitXor <- MCBitXor
  ShiftLeft <- MCShiftLeft
  ShiftRight <- MCShiftRight
  Words <- MCWords
  Values <- MCValues
  PCs <- MCPCs
  Counts <- MCCounts
  Addresses <- MCAddresses
  Indices <- MCIndices
SPECIFICATION Spec
INVARIANTS TypeOK StageExecutesInstruction PathsAgree FetchGivesInstruction
PROPERTIES FailureIsHarmless InstructionsKept
