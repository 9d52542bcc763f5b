-------------------------------- MODULE Cpu --------------------------------
(***************************************************************************)
(* The storage of the machine (cpu.h, cpu.c and the accessors of memory.c) *)
(* and the int32_t arithmetic done on what it holds, as operators on the   *)
(* register file and the memory.                                           *)
(*                                                                         *)
(* Memory is one array of int32_t: instructions below                      *)
(* INSTRUCTION_MEMORY_SIZE, data from DATA_MEMORY_START on.  The field     *)
(* memoryBusy is set and cleared inside single accessors and is zero       *)
(* between any two of them; only a warning reads it, so it has no          *)
(* counterpart here.                                                       *)
(*                                                                         *)
(* C's bit operators on int32_t are parameters.  Module CInt defines       *)
(* them for the word size of the models.  Signed overflow of +, - and *    *)
(* wraps: the operands are only known at run time, so the build emits the  *)
(* plain machine instruction.                                              *)
(***************************************************************************)
EXTENDS Opcodes, Sequences

CONSTANTS
  WORD_BITS,                 \* width of int32_t in bits
  MEMORY_SIZE,
  INSTRUCTION_MEMORY_SIZE,
  DATA_MEMORY_START,
  BitAnd(_, _),              \* a & b on int32_t
  BitXor(_, _),              \* a ^ b on int32_t
  ShiftLeft(_, _),           \* (int32_t)((uint32_t)a << k)
  ShiftRight(_, _)           \* (int32_t)((uint32_t)a >> k)

ASSUME MemoryAssumption ==
  /\ MEMORY_SIZE \in Nat
  /\ INSTRUCTION_MEMORY_SIZE \in Nat
  /\ DATA_MEMORY_START \in Nat
  /\ INSTRUCTION_MEMORY_SIZE <= DATA_MEMORY_START
  /\ DATA_MEMORY_START < MEMORY_SIZE
  /\ INSTRUCTION_MEMORY_SIZE <= ADDR_SPACE
  /\ MEMORY_SIZE <= HALF_WORD

ASSUME WordAssumption == WORD_BITS \in Nat \ {0} /\ 2 ^ WORD_BITS = WORD_SPACE

Address == 0 .. MEMORY_SIZE - 1

-----------------------------------------------------------------------------
(* Register file.                                                          *)

readRegister(regs, r) == IF r \in Register \ {0} THEN regs[r] ELSE 0

\* Mutant of writeRegister: R0 is a register as any other.
WriteAnyRegister(regs, r, value) ==
  IF r \notin Register THEN regs ELSE [regs EXCEPT ![r] = value]

\* R0 is protected: a write to it stores zero.
writeRegister(regs, r, value) ==
  IF r \notin Register THEN regs
  ELSE [regs EXCEPT ![r] = IF r = 0 THEN 0 ELSE value]

-----------------------------------------------------------------------------
(* Memory.                                                                 *)

\* Mutant of is_data_address: a store may hit the instructions.
IsAnyAddress(a) == a >= 0 /\ a < MEMORY_SIZE

is_instruction_address(a) == a >= 0 /\ a < INSTRUCTION_MEMORY_SIZE
is_data_address(a)        == a >= DATA_MEMORY_START /\ a < MEMORY_SIZE

\* Outside the data segment a read gives zero and a write does nothing.
readMemory(mem, a) == IF is_data_address(a) THEN mem[a] ELSE 0

writeMemory(mem, a, value) ==
  IF is_data_address(a) THEN [mem EXCEPT ![a] = value] ELSE mem

memory_fetch_instruction(mem, a) ==
  IF is_instruction_address(a) THEN ToUint32(mem[a]) ELSE 0

memory_store_instruction(mem, a, word) ==
  IF is_instruction_address(a) THEN [mem EXCEPT ![a] = ToInt32(word)] ELSE mem

\* Memory after reset with the words of a program stored from address 0 on.
LoadedMemory(program) ==
  [a \in Address |-> IF a < Len(program) THEN ToInt32(program[a + 1]) ELSE 0]

-----------------------------------------------------------------------------
(* Arithmetic: the result that completes EX, from the decoded fields and   *)
(* the two operands.  Instructions without an ALU operation keep the old   *)
(* result.                                                                 *)

ShiftInRange(amount) == amount >= 0 /\ amount < WORD_BITS

AluResult(opcode, a, b, immediate, shamt, old) ==
  CASE opcode = OPCODE_ADD  -> ToInt32(a + b)
    [] opcode = OPCODE_SUB  -> ToInt32(a - b)
    [] opcode = OPCODE_MUL  -> ToInt32(a * b)
    [] opcode = OPCODE_AND  -> BitAnd(a, b)
    [] opcode = OPCODE_ORI  -> BitXor(a, immediate)
    [] opcode = OPCODE_LSL  -> IF ShiftInRange(shamt) THEN ShiftLeft(a, shamt) ELSE 0
    [] opcode = OPCODE_LSR  -> IF ShiftInRange(shamt) THEN ShiftRight(a, shamt) ELSE 0
    [] opcode = OPCODE_MOVI -> b
    [] OTHER                -> old

=============================================================================
