------------------------------ MODULE Pipeline -----------------------------
(***************************************************************************)
(* The pipeline engine of pipeline_sim.c: five stage slots driven by the   *)
(* while loop of pipeline_sim_run.  One iteration of the loop is one clock *)
(* cycle; its calls are the actions, in the order of the code:             *)
(*                                                                         *)
(*   StartCycle   loop test, cycle counter, fetch, hazard evaluation       *)
(*   TickWB, TickMEM, TickEX, TickID, TickIF     one tick of each stage    *)
(*   Transfer     transfer_completed_stages                                *)
(*   Finish       the loop test fails                                      *)
(*                                                                         *)
(* WB is ticked first and IF last, so within one cycle an older            *)
(* instruction acts before a younger one.  The decoded format and the      *)
(* control signals are functions of the opcode and are not kept apart.     *)
(***************************************************************************)
EXTENDS Cpu

CONSTANTS
  Programs,      \* the programs (sequences of raw words) that may be loaded
  MaxCycles      \* the cycle bound of the loop, options.max_cycles or INT_MAX

\* The parser stores only words it has encoded, at most one per instruction
\* address.
ASSUME ProgramsAssumption ==
  \A program \in Programs :
    /\ program \in Seq(RawWord)
    /\ Len(program) <= INSTRUCTION_MEMORY_SIZE
    /\ \A a \in 1 .. Len(program) : DecodeFields(program[a]).valid

ASSUME MaxCyclesAssumption == MaxCycles \in Nat

VARIABLES
  PC, registers, memory, instructionCount,     \* the CPU
  slot,                                        \* the five StageSlots
  cycle,                                       \* PipelineEngine.cycle
  wait_for_taken_branch_mem,
  phase,                                       \* the next call of the loop body
  stalled,                                     \* local hazard.stalled
  fetched,                                     \* local fetched_this_cycle
  mem_active                                   \* local mem_active_at_cycle_start

cpuVars   == <<PC, registers, memory, instructionCount>>
loopVars  == <<cycle, stalled, fetched, mem_active>>
vars      == <<cpuVars, slot, wait_for_taken_branch_mem, phase, loopVars>>

\* Mutant of EX_CYCLES: EX is done in one cycle.
ONE_EX_CYCLE == 1

IF_CYCLES  == 1
ID_CYCLES  == 2
EX_CYCLES  == 2
MEM_CYCLES == 1
WB_CYCLES  == 1

Stage == {"IF", "ID", "EX", "MEM", "WB"}
Phase == {"start", "transfer", "done"} \cup Stage

-----------------------------------------------------------------------------
(* Pipeline registers and slots.                                           *)

PipelineRegister ==
  [valid : BOOLEAN, pc : Nat, rawInstruction : RawWord, opcode : OpcodeField,
   r1 : Register, r2 : Register, r3 : Register,
   immediate : Int32, shamt : Int32, address : Int32,
   operand1 : Int32, operand2 : Int32, aluResult : Int32, memoryData : Int32]

StageSlot == [reg : PipelineRegister, cycles_left : Int, completed : BOOLEAN]

\* memset(&reg, 0, sizeof(reg))
ZeroRegister ==
  [valid |-> FALSE, pc |-> 0, rawInstruction |-> 0, opcode |-> 0,
   r1 |-> 0, r2 |-> 0, r3 |-> 0, immediate |-> 0, shamt |-> 0, address |-> 0,
   operand1 |-> 0, operand2 |-> 0, aluResult |-> 0, memoryData |-> 0]

EmptySlot == [reg |-> ZeroRegister, cycles_left |-> 0, completed |-> FALSE]

SlotWith(reg, cycles) ==
  [reg |-> reg, cycles_left |-> cycles, completed |-> FALSE]

IsEmpty(s) == ~ s.reg.valid
IsDone(s)  == s.reg.valid /\ s.completed

\* decode_raw_instruction: the fields come from the raw word, the results are reset.
Decoded(reg) ==
  LET d == DecodeFields(reg.rawInstruction)
  IN  [valid |-> reg.valid /\ d.valid, pc |-> reg.pc,
       rawInstruction |-> reg.rawInstruction, opcode |-> d.opcode,
       r1 |-> d.r1, r2 |-> d.r2, r3 |-> d.r3,
       immediate |-> d.immediate, shamt |-> d.shamt, address |-> d.address,
       operand1 |-> 0, operand2 |-> 0, aluResult |-> 0, memoryData |-> 0]

-----------------------------------------------------------------------------
(* Hazards.                                                                *)

instruction_writes_register(reg) ==
  reg.valid /\ opcode_writes_register(reg.opcode)

destination_register(reg) ==
  IF instruction_writes_register(reg) THEN reg.r1 ELSE -1

ReadsR2R3 == {OPCODE_ADD, OPCODE_SUB, OPCODE_MUL, OPCODE_AND}
ReadsR1R2 == {OPCODE_JEQ, OPCODE_MOVM}
ReadsR2   == {OPCODE_ORI, OPCODE_LSL, OPCODE_LSR, OPCODE_MOVR}

instruction_reads_register(reg, r) ==
  /\ reg.valid
  /\ r # 0
  /\ \/ reg.opcode \in ReadsR2R3 /\ r \in {reg.r2, reg.r3}
     \/ reg.opcode \in ReadsR1R2 /\ r \in {reg.r1, reg.r2}
     \/ reg.opcode \in ReadsR2   /\ r = reg.r2

\* Mutants of evaluate_id_hazard: the register fields of ID are taken before they
\* are decoded; every producer in EX stalls ID, not only a load.
HazardOnUndecoded(id, ex) ==
  /\ ~ IsEmpty(id) /\ ~ id.completed /\ ~ IsEmpty(ex)
  /\ ex.reg.opcode = OPCODE_MOVR
  /\ instruction_reads_register(id.reg, destination_register(ex.reg))

HazardOnAnyProducer(id, ex) ==
  /\ ~ IsEmpty(id) /\ ~ id.completed /\ ~ IsEmpty(ex)
  /\ instruction_reads_register(Decoded(id.reg), destination_register(ex.reg))

\* The load in EX has not reached memory and the instruction in ID needs it.
evaluate_id_hazard(id, ex) ==
  LET consumer == Decoded(id.reg)
      producer == destination_register(ex.reg)
  IN  /\ ~ IsEmpty(id)
      /\ ~ id.completed
      /\ consumer.valid
      /\ ~ IsEmpty(ex)
      /\ ex.reg.opcode = OPCODE_MOVR
      /\ producer > 0
      /\ instruction_reads_register(consumer, producer)

\* What the instruction in MEM or WB is about to write.
Carried(reg) ==
  IF reg.opcode = OPCODE_MOVR THEN reg.memoryData ELSE reg.aluResult

ForwardsFromEX(r) ==
  /\ destination_register(slot["EX"].reg) = r
  /\ slot["EX"].completed
  /\ slot["EX"].reg.opcode # OPCODE_MOVR

\* Mutant of read_operand_with_forwarding: what is written to R0 is forwarded.
ReadForwardingR0(r) ==
  IF ForwardsFromEX(r) THEN slot["EX"].reg.aluResult
  ELSE IF destination_register(slot["WB"].reg) = r THEN Carried(slot["WB"].reg)
  ELSE IF destination_register(slot["MEM"].reg) = r THEN Carried(slot["MEM"].reg)
  ELSE readRegister(registers, r)

read_operand_with_forwarding(r) ==
  IF r = 0 THEN 0
  ELSE IF ForwardsFromEX(r) THEN slot["EX"].reg.aluResult
  ELSE IF destination_register(slot["WB"].reg) = r THEN Carried(slot["WB"].reg)
  ELSE IF destination_register(slot["MEM"].reg) = r THEN Carried(slot["MEM"].reg)
  ELSE readRegister(registers, r)

latch_decode_operands(reg) ==
  LET d == Decoded(reg)
      Operands(a, b) == [d EXCEPT !.operand1 = a, !.operand2 = b]
      Read(r) == read_operand_with_forwarding(r)
  IN  CASE d.opcode \in ReadsR2R3                -> Operands(Read(d.r2), Read(d.r3))
        [] d.opcode = OPCODE_JEQ                 -> Operands(Read(d.r1), Read(d.r2))
        [] d.opcode \in ReadsR2 \cup {OPCODE_MOVM} -> Operands(Read(d.r2), Read(d.r1))
        [] d.opcode = OPCODE_MOVI                -> Operands(0, d.immediate)
        [] OTHER                                 -> d

-----------------------------------------------------------------------------
(* What completes each stage.                                              *)

jump_target(reg) == (reg.pc - (reg.pc % ADDR_SPACE)) + (reg.address % ADDR_SPACE)

\* Mutant of branch_target: the offset counts from the branch itself.
TargetFromBranch(reg) ==
  IF reg.opcode = OPCODE_JMP THEN jump_target(reg) ELSE reg.pc + reg.immediate

branch_target(reg) ==
  IF reg.opcode = OPCODE_JMP THEN jump_target(reg) ELSE reg.pc + 1 + reg.immediate

\* Mutants of branch_taken: a target on one side of instruction memory is not
\* refused.
TakenBelowMemory(reg) ==
  /\ \/ reg.opcode = OPCODE_JEQ /\ reg.operand1 = reg.operand2
     \/ reg.opcode = OPCODE_JMP
  /\ branch_target(reg) < INSTRUCTION_MEMORY_SIZE

TakenBeyondMemory(reg) ==
  /\ \/ reg.opcode = OPCODE_JEQ /\ reg.operand1 = reg.operand2
     \/ reg.opcode = OPCODE_JMP
  /\ branch_target(reg) >= 0

\* calculate_branch_target returned true: a branch whose target lies outside
\* instruction memory is ignored even when its condition holds.
branch_taken(reg) ==
  /\ \/ reg.opcode = OPCODE_JEQ /\ reg.operand1 = reg.operand2
     \/ reg.opcode = OPCODE_JMP
  /\ branch_target(reg) >= 0
  /\ branch_target(reg) < INSTRUCTION_MEMORY_SIZE

complete_ex_stage(reg) ==
  LET alu == AluResult(reg.opcode, reg.operand1, reg.operand2,
                       reg.immediate, reg.shamt, reg.aluResult)
  IN  IF reg.opcode \in {OPCODE_MOVR, OPCODE_MOVM}
        THEN [reg EXCEPT !.aluResult = alu,
                         !.address = ToInt32(reg.operand1 + reg.immediate),
                         !.memoryData = reg.operand2]
        ELSE [reg EXCEPT !.aluResult = alu]

complete_mem_stage(reg) ==
  IF reg.opcode = OPCODE_MOVR
    THEN [reg EXCEPT !.memoryData = readMemory(memory, reg.address)]
    ELSE reg

\* Mutant of EndsBranchWait: conditional branches are forgotten.
OnlyJumpEndsWait(reg) == reg.opcode = OPCODE_JMP

\* An instruction that completes MEM ends the wait for a taken branch.
EndsBranchWait(reg) == reg.opcode \in {OPCODE_JEQ, OPCODE_JMP}

complete_wb_stage(regs, reg) ==
  IF instruction_writes_register(reg)
    THEN writeRegister(regs, reg.r1, Carried(reg))
    ELSE regs

-----------------------------------------------------------------------------
(* The loop.                                                               *)

Init ==
  /\ PC = 0
  /\ registers = [r \in Register |-> 0]
  /\ \E program \in Programs :
       /\ memory = LoadedMemory(program)
       /\ instructionCount = Len(program)
  /\ slot = [k \in Stage |-> EmptySlot]
  /\ cycle = 0
  /\ wait_for_taken_branch_mem = FALSE
  /\ phase = "start"
  /\ stalled = FALSE
  /\ fetched = FALSE
  /\ mem_active = FALSE

\* Mutant of pipeline_has_work: what is in WB is forgotten.
WorkBeforeWB ==
  PC < instructionCount \/ \E k \in Stage \ {"WB"} : ~ IsEmpty(slot[k])

pipeline_has_work ==
  PC < instructionCount \/ \E k \in Stage : ~ IsEmpty(slot[k])

\* Mutant of can_fetch_this_cycle: fetches in every cycle.
CanFetchAnyCycle(now) ==
  /\ PC < instructionCount
  /\ now \in Nat
  /\ IsEmpty(slot["IF"])
  /\ IsEmpty(slot["MEM"])
  /\ ~ wait_for_taken_branch_mem

can_fetch_this_cycle(now) ==
  /\ PC < instructionCount
  /\ now % 2 = 1
  /\ IsEmpty(slot["IF"])
  /\ IsEmpty(slot["MEM"])
  /\ ~ wait_for_taken_branch_mem

FetchedRegister ==
  LET raw == memory_fetch_instruction(memory, PC)
  IN  [ZeroRegister EXCEPT !.valid = TRUE, !.pc = PC,
                           !.rawInstruction = raw, !.opcode = OpcodeOf(raw)]

fetch_into_if ==
  /\ slot' = [slot EXCEPT !["IF"] = SlotWith(FetchedRegister, IF_CYCLES)]
  /\ PC' = PC + 1

StartCycle ==
  /\ phase = "start"
  /\ pipeline_has_work
  /\ cycle < MaxCycles
  /\ cycle' = cycle + 1
  /\ mem_active' = ~ IsEmpty(slot["MEM"])
  /\ fetched' = can_fetch_this_cycle(cycle + 1)
  /\ IF can_fetch_this_cycle(cycle + 1)
       THEN fetch_into_if
       ELSE UNCHANGED <<slot, PC>>
  /\ stalled' = evaluate_id_hazard(slot["ID"], slot["EX"])
  /\ phase' = "WB"
  /\ UNCHANGED <<registers, memory, instructionCount, wait_for_taken_branch_mem>>

\* tick_slot counts an occupied slot down unless it is done or held back ...
Ticks(k)     == ~ IsEmpty(slot[k]) /\ ~ slot[k].completed /\ (k = "ID" => ~ stalled)
\* ... and completes it at zero.
Completes(k) == Ticks(k) /\ slot[k].cycles_left <= 1

\* The slot after its tick, given what completing the stage does to its register.
Ticked(k, completedReg) ==
  IF Completes(k)
    THEN [reg |-> completedReg, cycles_left |-> slot[k].cycles_left - 1,
          completed |-> TRUE]
    ELSE IF Ticks(k) THEN [slot[k] EXCEPT !.cycles_left = @ - 1]
    ELSE slot[k]

TickWB ==
  /\ phase = "WB"
  /\ phase' = "MEM"
  /\ slot' = [slot EXCEPT !["WB"] = Ticked("WB", slot["WB"].reg)]
  /\ registers' = IF Completes("WB")
                    THEN complete_wb_stage(registers, slot["WB"].reg)
                    ELSE registers
  /\ UNCHANGED <<PC, memory, instructionCount, wait_for_taken_branch_mem, loopVars>>

TickMEM ==
  LET reg == slot["MEM"].reg
  IN  /\ phase = "MEM"
      /\ phase' = "EX"
      /\ slot' = [slot EXCEPT !["MEM"] = Ticked("MEM", complete_mem_stage(reg))]
      /\ memory' = IF Completes("MEM") /\ reg.opcode = OPCODE_MOVM
                     THEN writeMemory(memory, reg.address, reg.memoryData)
                     ELSE memory
      /\ wait_for_taken_branch_mem' =
           IF Completes("MEM") /\ EndsBranchWait(reg)
             THEN FALSE ELSE wait_for_taken_branch_mem
      /\ UNCHANGED <<PC, registers, instructionCount, loopVars>>

\* Mutants of flushPipeline: one of the two younger instructions survives.
FlushOnlyID(slots) == [slots EXCEPT !["ID"] = EmptySlot]
FlushOnlyIF(slots) == [slots EXCEPT !["IF"] = EmptySlot]

\* flushPipeline, on the slots as the completed branch leaves them.
flushPipeline(slots) == [slots EXCEPT !["IF"] = EmptySlot, !["ID"] = EmptySlot]

TickEX ==
  LET reg   == slot["EX"].reg
      slots == [slot EXCEPT !["EX"] = Ticked("EX", complete_ex_stage(reg))]
      taken == Completes("EX") /\ branch_taken(reg)
  IN  /\ phase = "EX"
      /\ phase' = "ID"
      /\ slot' = IF taken THEN flushPipeline(slots) ELSE slots
      /\ PC' = IF taken THEN branch_target(reg) ELSE PC
      /\ wait_for_taken_branch_mem' = (wait_for_taken_branch_mem \/ taken)
      /\ UNCHANGED <<registers, memory, instructionCount, loopVars>>

TickID ==
  /\ phase = "ID"
  /\ phase' = "IF"
  /\ slot' = [slot EXCEPT !["ID"] = Ticked("ID", latch_decode_operands(slot["ID"].reg))]
  /\ UNCHANGED <<cpuVars, wait_for_taken_branch_mem, loopVars>>

TickIF ==
  /\ phase = "IF"
  /\ phase' = "transfer"
  /\ slot' = [slot EXCEPT !["IF"] = Ticked("IF", slot["IF"].reg)]
  /\ UNCHANGED <<cpuVars, wait_for_taken_branch_mem, loopVars>>

\* transfer_completed_stages goes from WB to IF, so a slot vacated by one move
\* is free for the next.
LeavesWB  == IsDone(slot["WB"])
LeavesMEM == IsDone(slot["MEM"]) /\ (IsEmpty(slot["WB"]) \/ LeavesWB)
LeavesEX  == IsDone(slot["EX"]) /\ (IsEmpty(slot["MEM"]) \/ LeavesMEM)
LeavesID  == IsDone(slot["ID"]) /\ (IsEmpty(slot["EX"]) \/ LeavesEX)
LeavesIF  == IsDone(slot["IF"]) /\ (IsEmpty(slot["ID"]) \/ LeavesID)

\* A slot after the transfer: refilled from the stage before it, vacated or kept.
Moved(k, refill, from, cycles, leaves) ==
  IF refill THEN SlotWith(slot[from].reg, cycles)
  ELSE IF leaves THEN EmptySlot
  ELSE slot[k]

Transfer ==
  /\ phase = "transfer"
  /\ phase' = "start"
  /\ slot' = [slot EXCEPT
       !["WB"]  = Moved("WB", LeavesMEM, "MEM", WB_CYCLES, LeavesWB),
       !["MEM"] = Moved("MEM", LeavesEX, "EX", MEM_CYCLES, LeavesMEM),
       !["EX"]  = Moved("EX", LeavesID, "ID", EX_CYCLES, LeavesEX),
       !["ID"]  = Moved("ID", LeavesIF, "IF", ID_CYCLES, LeavesID),
       !["IF"]  = IF LeavesIF THEN EmptySlot ELSE slot["IF"]]
  /\ UNCHANGED <<cpuVars, wait_for_taken_branch_mem, loopVars>>

Finish ==
  /\ phase = "start"
  /\ ~ (pipeline_has_work /\ cycle < MaxCycles)
  /\ phase' = "done"
  /\ UNCHANGED <<cpuVars, slot, wait_for_taken_branch_mem, loopVars>>

\* The simulation is over and only its final state is printed.
Terminated == phase = "done" /\ UNCHANGED vars

Next ==
  \/ StartCycle
  \/ TickWB
  \/ TickMEM
  \/ TickEX
  \/ TickID
  \/ TickIF
  \/ Transfer
  \/ Finish
  \/ Terminated

Spec == Init /\ [][Next]_vars

\* The loop is the only thread of the program: it is always scheduled again.
FairSpec == Spec /\ WF_vars(Next)

=============================================================================
