---------------------------- MODULE PipelineProps --------------------------
(***************************************************************************)
(* The correctness properties of the pipeline engine, and the refinement   *)
(* mapping under which it implements the sequential machine of module Isa. *)
(***************************************************************************)
EXTENDS Pipeline

\* The type invariant: every variable and every slot field of pipeline_sim_run
\* keeps the range its C declaration and the instruction layout give it.
TypeOK ==
  /\ PC \in Nat
  /\ registers \in [Register -> Int32]
  /\ memory \in [Address -> Int32]
  /\ instructionCount \in 0 .. INSTRUCTION_MEMORY_SIZE
  /\ slot \in [Stage -> StageSlot]
  /\ cycle \in 0 .. MaxCycles
  /\ wait_for_taken_branch_mem \in BOOLEAN
  /\ phase \in Phase
  /\ stalled \in BOOLEAN
  /\ fetched \in BOOLEAN
  /\ mem_active \in BOOLEAN

-----------------------------------------------------------------------------
(* Refinement.  An instruction takes effect when it completes MEM.  Until  *)
(* its tick of WB the register it writes still waits in the pipeline.      *)

ArchRegisters ==
  IF IsDone(slot["MEM"])
    THEN complete_wb_stage(registers, slot["MEM"].reg)
    ELSE IF ~ IsEmpty(slot["WB"]) /\ ~ slot["WB"].completed
    THEN complete_wb_stage(registers, slot["WB"].reg)
    ELSE registers

\* The oldest instruction that has not taken effect, else the next to fetch.
ArchPC ==
  IF ~ IsEmpty(slot["MEM"]) /\ ~ slot["MEM"].completed THEN slot["MEM"].reg.pc
  ELSE IF ~ IsEmpty(slot["EX"]) THEN slot["EX"].reg.pc
  ELSE IF ~ IsEmpty(slot["ID"]) THEN slot["ID"].reg.pc
  ELSE IF ~ IsEmpty(slot["IF"]) THEN slot["IF"].reg.pc
  ELSE PC

ISA == INSTANCE Isa WITH
  pc <- ArchPC, regs <- ArchRegisters, mem <- memory, count <- instructionCount

\* The pipeline executes the program as the sequential machine does: every
\* step of every stage is either one whole instruction, in program order and
\* with the operand values of that order, or invisible.  Forwarding, stalls,
\* flushes and the store in MEM before the register write in WB all come
\* under this.
ImplementsIsa == ISA!Spec

-----------------------------------------------------------------------------
(* Structure.                                                              *)

\* In a cycle whose number allows a fetch, MEM is always free and no taken
\* branch is outstanding: the stage latencies keep MEM to even cycles, also
\* after stalls and flushes, so that the IF/MEM conflict and the branch wait of
\* can_fetch_this_cycle never decide anything.
PortConflictFree ==
  phase = "start" /\ (cycle + 1) % 2 = 1 =>
    IsEmpty(slot["MEM"]) /\ ~ wait_for_taken_branch_mem

\* When ID latches its operands MEM holds no instruction, so it is harmless that
\* read_operand_with_forwarding asks WB (the older producer) before MEM (the
\* younger one).
ForwardingUnambiguous ==
  phase = "ID" /\ Completes("ID") => IsEmpty(slot["MEM"])

\* An instruction leaves ID with every register it reads available: none of them
\* is the destination of a load that is still in EX.
LoadUseStalls ==
  IsDone(slot["ID"]) /\ ~ IsEmpty(slot["EX"]) /\ slot["EX"].reg.opcode = OPCODE_MOVR =>
    ~ instruction_reads_register(slot["ID"].reg, destination_register(slot["EX"].reg))

\* From the tick that takes a branch until the branch has done MEM, nothing
\* younger is in the pipeline and PC keeps the target.
RedirectClean ==
  wait_for_taken_branch_mem =>
    /\ IsEmpty(slot["IF"]) /\ IsEmpty(slot["ID"])
    /\ \E k \in {"EX", "MEM"} :
         /\ slot[k].reg.valid
         /\ slot[k].reg.opcode \in {OPCODE_JEQ, OPCODE_JMP}
         /\ PC = branch_target(slot[k].reg)

\* The instructions before MEM come from consecutive addresses, up to PC: a
\* flush leaves no gap, a stall no duplicate.
InOrder ==
  /\ ~ IsEmpty(slot["IF"]) => PC = slot["IF"].reg.pc + 1
  /\ ~ IsEmpty(slot["ID"]) =>
       (IF IsEmpty(slot["IF"]) THEN PC ELSE slot["IF"].reg.pc) = slot["ID"].reg.pc + 1
  /\ ~ IsEmpty(slot["EX"]) /\ ~ IsEmpty(slot["ID"]) =>
       slot["ID"].reg.pc = slot["EX"].reg.pc + 1

\* PC never leaves instruction memory by more than the one step past its end,
\* whatever immediates and jump addresses the program holds, so a fetch is
\* always in range.
PCInRange == PC <= INSTRUCTION_MEMORY_SIZE

\* A running program never changes its instructions, whatever addresses its
\* stores compute.
ProgramUnchanged ==
  [][\A a \in 0 .. INSTRUCTION_MEMORY_SIZE - 1 : memory'[a] = memory[a]]_vars

-----------------------------------------------------------------------------
(* Progress.                                                               *)

\* The register image of the instruction loaded at address a.
Loaded(a) ==
  Decoded([ZeroRegister EXCEPT !.valid = TRUE,
                               !.rawInstruction = memory_fetch_instruction(memory, a)])

ProgramAddress == 0 .. instructionCount - 1

IsBranch(a) == Loaded(a).opcode \in {OPCODE_JEQ, OPCODE_JMP}

\* No branch of the program can go back: its target lies ahead or is ignored.
ForwardOnly ==
  \A a \in ProgramAddress :
    IsBranch(a) =>
      LET target == branch_target([Loaded(a) EXCEPT !.pc = a])
      IN  target > a \/ target < 0 \/ target >= INSTRUCTION_MEMORY_SIZE

\* A program that cannot loop runs to its end: the simulation drains the
\* pipeline and stops by itself, it never starves the fetch of a branch target
\* or the instruction held in ID until the cycle bound cuts it off.
ForwardDrains ==
  ForwardOnly ~> (phase = "done" /\ ~ pipeline_has_work)

\* A taken branch blocks fetching for as long as it takes to do MEM and no longer:
\* within two cycles the flag is cleared and the target is in IF, if it lies in the
\* program.  This holds also of programs that loop; only a wait that begins in the
\* last two cycles before the bound may be cut off.
RedirectEnds ==
  \A c \in 1 .. MaxCycles - 2 :
    (wait_for_taken_branch_mem /\ cycle = c) ~>
      /\ cycle <= c + 2
      /\ ~ wait_for_taken_branch_mem
      /\ PC < instructionCount => ~ IsEmpty(slot["IF"])

-----------------------------------------------------------------------------
(* A statement of the repository that the code does not keep.              *)

\* input/test_jump_flush.asm says that the jump target is the low 26 bits, two
\* bits fewer than the address field of the encoder and the decoder has.
JumpTargetLow26 ==
  phase = "ID" /\ IsDone(slot["EX"]) /\ slot["EX"].reg.opcode = OPCODE_JMP =>
    PC = slot["EX"].reg.address % (ADDR_SPACE \div 4)

=============================================================================
