---------------------------- MODULE RefinementInv --------------------------
(***************************************************************************)
(* The inductive invariant behind the refinement: why the pipeline, with   *)
(* several instructions under way, computes what the sequential machine of *)
(* module Isa computes.  Each stage sees the register file as the older    *)
(* instructions ahead of it will leave it, and holds an instruction of the *)
(* program with operands from exactly that file; and each instruction is   *)
(* followed by the one that the sequential machine would execute next.     *)
(***************************************************************************)
EXTENDS PipelineInv

\* The register file after what is in WB, in MEM and in EX.  An empty stage
\* writes nothing.
RegsAfterWB  == complete_wb_stage(registers, slot["WB"].reg)
RegsAfterMEM == complete_wb_stage(RegsAfterWB, slot["MEM"].reg)
RegsAfterEX  == complete_wb_stage(RegsAfterMEM, slot["EX"].reg)

\* Every loaded word decodes, so that decode_raw_instruction drops none.
WordsValid ==
  \A a \in ProgramAddress : DecodeFields(memory_fetch_instruction(memory, a)).valid

\* An instruction that has not left MEM is the one at its address.
FetchedFrom(reg) ==
  /\ reg.pc < instructionCount
  /\ reg.rawInstruction = memory_fetch_instruction(memory, reg.pc)

SlotsFetched ==
  \A k \in {"IF", "ID", "EX", "MEM"} : ~ IsEmpty(slot[k]) => FetchedFrom(slot[k].reg)

-----------------------------------------------------------------------------
(* The contents of the stages.                                             *)

\* As latch_decode_operands leaves a register, whatever the operands.
WithOperands(reg) ==
  [Decoded(reg) EXCEPT !.operand1 = reg.operand1, !.operand2 = reg.operand2]

IsLatched(reg)  == reg = WithOperands(reg)
IsExecuted(reg) == reg = complete_ex_stage(WithOperands(reg))

\* The operands that the instruction uses are those of the register file regs.
OperandsFrom(reg, regs) ==
  LET Value(r) == readRegister(regs, r)
  IN  /\ reg.opcode \in ReadsR2R3 =>
           reg.operand1 = Value(reg.r2) /\ reg.operand2 = Value(reg.r3)
      /\ reg.opcode = OPCODE_JEQ =>
           reg.operand1 = Value(reg.r1) /\ reg.operand2 = Value(reg.r2)
      /\ reg.opcode = OPCODE_MOVM =>
           reg.operand1 = Value(reg.r2) /\ reg.operand2 = Value(reg.r1)
      /\ reg.opcode \in ReadsR2 => reg.operand1 = Value(reg.r2)
      /\ reg.opcode = OPCODE_MOVI => reg.operand2 = reg.immediate

InIDHolds ==
  IsDone(slot["ID"]) => IsLatched(slot["ID"].reg) /\ OperandsFrom(slot["ID"].reg, RegsAfterEX)

InEXHolds ==
  ~ IsEmpty(slot["EX"]) =>
    /\ IF slot["EX"].completed THEN IsExecuted(slot["EX"].reg) ELSE IsLatched(slot["EX"].reg)
    /\ OperandsFrom(slot["EX"].reg, RegsAfterMEM)

InMEMHolds ==
  ~ IsEmpty(slot["MEM"]) /\ ~ slot["MEM"].completed =>
    IsExecuted(slot["MEM"].reg) /\ OperandsFrom(slot["MEM"].reg, RegsAfterWB)

\* What has completed WB is in the register file.
WrittenBack == IsDone(slot["WB"]) => RegsAfterWB = registers

\* What a load in MEM is about to write is not known yet, and the instruction in
\* EX does not read it.
LoadDistance ==
  ~ IsEmpty(slot["MEM"]) /\ slot["MEM"].reg.opcode = OPCODE_MOVR /\ ~ IsEmpty(slot["EX"]) =>
    ~ instruction_reads_register(slot["EX"].reg, destination_register(slot["MEM"].reg))

-----------------------------------------------------------------------------
(* The order of the stages.                                                *)

\* The address of the oldest instruction in IF, in IF or ID, and before MEM;
\* without one it is the next to fetch.
FrontIF == IF IsEmpty(slot["IF"]) THEN PC ELSE slot["IF"].reg.pc
FrontID == IF IsEmpty(slot["ID"]) THEN FrontIF ELSE slot["ID"].reg.pc
FrontEX == IF IsEmpty(slot["EX"]) THEN FrontID ELSE slot["EX"].reg.pc

\* The address that follows an executed instruction.
NextPC(reg) == IF branch_taken(reg) THEN branch_target(reg) ELSE reg.pc + 1

\* Each instruction is followed by its successor; before EX completes, a branch
\* by the instruction below it.
Flow ==
  /\ ~ IsEmpty(slot["IF"]) => PC = slot["IF"].reg.pc + 1
  /\ ~ IsEmpty(slot["ID"]) => FrontIF = slot["ID"].reg.pc + 1
  /\ ~ IsEmpty(slot["EX"]) =>
       FrontID = IF slot["EX"].completed THEN NextPC(slot["EX"].reg)
                                         ELSE slot["EX"].reg.pc + 1
  /\ ~ IsEmpty(slot["MEM"]) /\ ~ slot["MEM"].completed => FrontEX = NextPC(slot["MEM"].reg)

Contents ==
  /\ SlotsFetched
  /\ InIDHolds
  /\ InEXHolds
  /\ InMEMHolds
  /\ WrittenBack
  /\ LoadDistance

\* With the lock step of PipelineInv this is inductive.
RefinementInvariant == WordsValid /\ Contents /\ Flow

=============================================================================
