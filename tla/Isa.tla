-------------------------------- MODULE Isa --------------------------------
(***************************************************************************)
(* What the simulator promises: a machine that executes the loaded program *)
(* one whole instruction at a time.  There is no pipeline here, so there   *)
(* is nothing to forward, to stall or to flush: every instruction reads    *)
(* what all earlier ones have written and the next instruction is the one  *)
(* the last named.  Module Pipeline is shown to implement it.              *)
(***************************************************************************)
EXTENDS Cpu

VARIABLES
  pc,      \* the next instruction to execute
  regs,    \* the register file
  mem,     \* instruction and data memory
  count    \* the number of instructions loaded

isaVars == <<pc, regs, mem, count>>

\* Registers are reset; what has been loaded into memory is arbitrary.
Init ==
  /\ pc = 0
  /\ regs = [r \in Register |-> 0]
  /\ mem \in [Address -> Int32]
  /\ count \in 0 .. INSTRUCTION_MEMORY_SIZE

Value(r) == readRegister(regs, r)

\* The address an instruction loads from or stores to.
EffectiveAddress(d) == ToInt32(Value(d.r2) + d.immediate)

Result(d) ==
  CASE d.opcode = OPCODE_ADD  -> ToInt32(Value(d.r2) + Value(d.r3))
    [] d.opcode = OPCODE_SUB  -> ToInt32(Value(d.r2) - Value(d.r3))
    [] d.opcode = OPCODE_MUL  -> ToInt32(Value(d.r2) * Value(d.r3))
    [] d.opcode = OPCODE_AND  -> BitAnd(Value(d.r2), Value(d.r3))
    [] d.opcode = OPCODE_ORI  -> BitXor(Value(d.r2), d.immediate)
    [] d.opcode = OPCODE_LSL  -> IF ShiftInRange(d.shamt) THEN ShiftLeft(Value(d.r2), d.shamt) ELSE 0
    [] d.opcode = OPCODE_LSR  -> IF ShiftInRange(d.shamt) THEN ShiftRight(Value(d.r2), d.shamt) ELSE 0
    [] d.opcode = OPCODE_MOVI -> d.immediate
    [] d.opcode = OPCODE_MOVR -> readMemory(mem, EffectiveAddress(d))

\* Where a taken branch or a jump at address a goes; a target outside instruction
\* memory is ignored.
TargetFrom(a, d) == IF d.opcode = OPCODE_JMP THEN d.address ELSE a + 1 + d.immediate

Target(d) == TargetFrom(pc, d)

Taken(d) ==
  /\ \/ d.opcode = OPCODE_JMP
     \/ d.opcode = OPCODE_JEQ /\ Value(d.r1) = Value(d.r2)
  /\ is_instruction_address(Target(d))

\* The effect of an instruction.
Execute(d) ==
  /\ pc' = IF Taken(d) THEN Target(d) ELSE pc + 1
  /\ regs' = IF opcode_writes_register(d.opcode)
               THEN writeRegister(regs, d.r1, Result(d)) ELSE regs
  /\ mem' = IF d.opcode = OPCODE_MOVM
              THEN writeMemory(mem, EffectiveAddress(d), Value(d.r1)) ELSE mem

\* Execute the instruction at pc.
Step ==
  /\ pc < count
  /\ Execute(DecodeFields(memory_fetch_instruction(mem, pc)))
  /\ count' = count

Spec == Init /\ [][Step]_isaVars

=============================================================================
