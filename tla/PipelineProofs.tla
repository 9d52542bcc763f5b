---------------------------- MODULE PipelineProofs --------------------------
(***************************************************************************)
(* Theorems about the pipeline engine for every register count, word       *)
(* width, memory size, program set and cycle bound: its type invariant and *)
(* the safety properties that follow from the lock step of module          *)
(* PipelineInv.                                                            *)
(***************************************************************************)
EXTENDS PipelineInv, CpuProofs

-----------------------------------------------------------------------------
(* Types of the operators.                                                 *)

\* A stage slot holds register zero after a reset or a flush.
LEMMA EmptyType == ZeroRegister \in PipelineRegister /\ EmptySlot \in StageSlot
<1>1. 0 \in Register /\ 0 \in RawWord /\ 0 \in OpcodeField
  BY LayoutAssumption, UnitsPositive DEF Register, RawWord, OpcodeField
<1>2. ZeroRegister \in PipelineRegister
  BY <1>1, Int32Facts DEF ZeroRegister, PipelineRegister
<1> QED
  BY <1>2 DEF EmptySlot, StageSlot

\* set_slot keeps slots well-typed.
LEMMA SlotWithType ==
  ASSUME NEW reg \in PipelineRegister, NEW cycles \in Int
  PROVE  SlotWith(reg, cycles) \in StageSlot
  BY DEF SlotWith, StageSlot

\* Decoding a register gives a register.
LEMMA DecodedType ==
  ASSUME NEW reg \in PipelineRegister PROVE Decoded(reg) \in PipelineRegister
<1> DEFINE d == DecodeFields(reg.rawInstruction)
<1>1. reg.valid \in BOOLEAN /\ reg.pc \in Nat /\ reg.rawInstruction \in RawWord
  BY DEF PipelineRegister
<1>2. d \in DecodedFields
  BY <1>1, DecodeFieldsType
<1>3. /\ d.valid \in BOOLEAN /\ d.opcode \in OpcodeField
      /\ d.r1 \in Register /\ d.r2 \in Register /\ d.r3 \in Register
      /\ d.shamt \in Int32 /\ d.immediate \in Int32 /\ d.address \in Int32
  BY <1>2 DEF DecodedFields
<1>4. Decoded(reg) =
        [valid |-> reg.valid /\ d.valid, pc |-> reg.pc,
         rawInstruction |-> reg.rawInstruction, opcode |-> d.opcode,
         r1 |-> d.r1, r2 |-> d.r2, r3 |-> d.r3,
         immediate |-> d.immediate, shamt |-> d.shamt, address |-> d.address,
         operand1 |-> 0, operand2 |-> 0, aluResult |-> 0, memoryData |-> 0]
  BY DEF Decoded
<1> HIDE DEF d
<1> QED
  BY <1>1, <1>3, <1>4, Int32Facts DEF PipelineRegister

\* What an instruction carries to WB is an int32_t.
LEMMA CarriedType ==
  ASSUME NEW reg \in PipelineRegister PROVE Carried(reg) \in Int32
  BY DEF Carried, PipelineRegister

\* A latched operand is an int32_t wherever it comes from.
LEMMA OperandType ==
  ASSUME TypeOK, NEW r PROVE read_operand_with_forwarding(r) \in Int32
<1>1. \A k \in Stage : slot[k].reg \in PipelineRegister
  BY DEF TypeOK, StageSlot
<1>2. /\ slot["EX"].reg \in PipelineRegister
      /\ slot["WB"].reg \in PipelineRegister
      /\ slot["MEM"].reg \in PipelineRegister
  BY <1>1 DEF Stage
<1>3. slot["EX"].reg.aluResult \in Int32
  BY <1>2 DEF PipelineRegister
<1>4. readRegister(registers, r) \in Int32
  BY ReadRegisterType DEF TypeOK
<1> QED
  BY <1>2, <1>3, <1>4, CarriedType, Int32Facts DEF read_operand_with_forwarding

\* Latching operands sets the two operands of the decoded register.
LEMMA LatchShape ==
  ASSUME TypeOK, NEW reg \in PipelineRegister
  PROVE  \E a, b \in Int32 :
           latch_decode_operands(reg) = [Decoded(reg) EXCEPT !.operand1 = a, !.operand2 = b]
<1> DEFINE d == Decoded(reg)
           Read(r) == read_operand_with_forwarding(r)
<1>1. d \in PipelineRegister
  BY DecodedType
<1>2. \A r : Read(r) \in Int32
  BY OperandType
<1>3. d.immediate \in Int32 /\ d = [d EXCEPT !.operand1 = d.operand1, !.operand2 = d.operand2]
      /\ d.operand1 \in Int32 /\ d.operand2 \in Int32
  BY <1>1 DEF PipelineRegister
<1> HIDE DEF d
<1>4. latch_decode_operands(reg) =
        LET Operands(a, b) == [d EXCEPT !.operand1 = a, !.operand2 = b]
        IN  CASE d.opcode \in ReadsR2R3  -> Operands(Read(d.r2), Read(d.r3))
              [] d.opcode = OPCODE_JEQ   -> Operands(Read(d.r1), Read(d.r2))
              [] d.opcode \in ReadsR2 \cup {OPCODE_MOVM} -> Operands(Read(d.r2), Read(d.r1))
              [] d.opcode = OPCODE_MOVI  -> Operands(0, d.immediate)
              [] OTHER                   -> d
  BY DEF latch_decode_operands, d
<1> HIDE DEF Read
<1>5. \E a, b \in Int32 : latch_decode_operands(reg) = [d EXCEPT !.operand1 = a, !.operand2 = b]
  BY <1>2, <1>3, <1>4, Int32Facts
<1> QED
  BY <1>5 DEF d

\* So it gives a register that differs from the decoded one in the operands only.
LEMMA LatchFacts ==
  ASSUME TypeOK, NEW reg \in PipelineRegister
  PROVE  LET l == latch_decode_operands(reg)
             d == Decoded(reg)
         IN  /\ l \in PipelineRegister
             /\ l.valid = d.valid /\ l.opcode = d.opcode /\ l.pc = d.pc
             /\ l.r1 = d.r1 /\ l.r2 = d.r2 /\ l.r3 = d.r3
             /\ l.rawInstruction = d.rawInstruction
<1> DEFINE d == Decoded(reg)
<1>1. d \in PipelineRegister
  BY DecodedType
<1>2. PICK a, b \in Int32 :
        latch_decode_operands(reg) = [d EXCEPT !.operand1 = a, !.operand2 = b]
  BY LatchShape
<1> HIDE DEF d
<1> QED
  BY <1>1, <1>2 DEF PipelineRegister, d

\* A slot and its register in a well-typed state.
LEMMA SlotType ==
  ASSUME TypeOK, NEW k \in Stage
  PROVE  /\ slot[k] \in StageSlot
         /\ slot[k].reg \in PipelineRegister
         /\ slot[k].cycles_left \in Int
         /\ slot[k].completed \in BOOLEAN
  BY DEF TypeOK, StageSlot

\* Completing EX computes the result and the address, and leaves the identity of
\* the instruction alone.
LEMMA CompleteExFacts ==
  ASSUME NEW reg \in PipelineRegister
  PROVE  LET c == complete_ex_stage(reg)
         IN  /\ c \in PipelineRegister
             /\ c.valid = reg.valid /\ c.pc = reg.pc /\ c.rawInstruction = reg.rawInstruction
             /\ c.opcode = reg.opcode /\ c.r1 = reg.r1 /\ c.r2 = reg.r2 /\ c.r3 = reg.r3
             /\ c.immediate = reg.immediate
             /\ c.operand1 = reg.operand1 /\ c.operand2 = reg.operand2
<1>1. /\ reg.opcode \in OpcodeField /\ reg.operand1 \in Int32 /\ reg.operand2 \in Int32
      /\ reg.immediate \in Int32 /\ reg.shamt \in Int32 /\ reg.aluResult \in Int32
  BY DEF PipelineRegister
<1> DEFINE alu == AluResult(reg.opcode, reg.operand1, reg.operand2,
                            reg.immediate, reg.shamt, reg.aluResult)
           address == ToInt32(reg.operand1 + reg.immediate)
<1>2. alu \in Int32
  BY <1>1, AluResultType
<1>3. address \in Int32
  <2>1. reg.operand1 \in Int /\ reg.immediate \in Int
    BY <1>1, Int32Facts
  <2>2. reg.operand1 + reg.immediate \in Int
    BY <2>1
  <2> QED
    BY <2>2, ToInt32Type
<1>4. \/ complete_ex_stage(reg) = [reg EXCEPT !.aluResult = alu]
      \/ complete_ex_stage(reg) = [reg EXCEPT !.aluResult = alu, !.address = address,
                                               !.memoryData = reg.operand2]
  BY DEF complete_ex_stage
<1> HIDE DEF alu, address
<1> QED
  BY <1>1, <1>2, <1>3, <1>4 DEF PipelineRegister

\* Completing MEM loads, and leaves the identity of the instruction alone.
LEMMA CompleteMemFacts ==
  ASSUME TypeOK, NEW reg \in PipelineRegister
  PROVE  LET c == complete_mem_stage(reg)
         IN  /\ c \in PipelineRegister
             /\ c.valid = reg.valid /\ c.opcode = reg.opcode
             /\ c.r1 = reg.r1 /\ c.pc = reg.pc /\ c.rawInstruction = reg.rawInstruction
<1>1. reg.address \in Int
  BY Int32Facts DEF PipelineRegister
<1>2. readMemory(memory, reg.address) \in Int32
  BY <1>1, ReadMemoryType DEF TypeOK
<1> QED
  BY <1>2 DEF complete_mem_stage, PipelineRegister

\* Completing WB keeps the register file well-typed.
LEMMA CompleteWbType ==
  ASSUME NEW regs \in [Register -> Int32], NEW reg \in PipelineRegister
  PROVE  complete_wb_stage(regs, reg) \in [Register -> Int32]
  BY CarriedType, WriteRegisterType DEF complete_wb_stage

\* A tick keeps a slot well-typed and occupied by the same instruction; it
\* completes the slot at the last cycle and only counts down before.
LEMMA TickedFacts ==
  ASSUME TypeOK, NEW k \in Stage, NEW c \in PipelineRegister
  PROVE  LET t == Ticked(k, c)
         IN  /\ t \in StageSlot
             /\ Completes(k) => t.reg = c /\ t.completed
             /\ ~ Completes(k) => t.reg = slot[k].reg /\ t.completed = slot[k].completed
             /\ ~ Ticks(k) => t = slot[k] /\ ~ Completes(k)
             /\ Ticks(k) => t.cycles_left = slot[k].cycles_left - 1
<1>1. /\ slot[k].reg \in PipelineRegister
      /\ slot[k].cycles_left \in Int
      /\ slot[k].completed \in BOOLEAN
      /\ slot[k] \in StageSlot
  BY SlotType
<1>2. [slot[k] EXCEPT !.cycles_left = @ - 1] =
        [reg |-> slot[k].reg, cycles_left |-> slot[k].cycles_left - 1,
         completed |-> slot[k].completed]
  BY <1>1 DEF StageSlot
<1>3. slot[k].cycles_left - 1 \in Int
  BY <1>1
<1>4. Completes(k) => Ticks(k)
  BY DEF Completes
<1> DEFINE t == Ticked(k, c)
<1>5. CASE Completes(k)
  <2>1. t = [reg |-> c, cycles_left |-> slot[k].cycles_left - 1, completed |-> TRUE]
    BY <1>5 DEF Ticked
  <2> QED
    BY <1>3, <1>4, <1>5, <2>1 DEF StageSlot
<1>6. CASE ~ Completes(k) /\ Ticks(k)
  <2>1. t = [slot[k] EXCEPT !.cycles_left = @ - 1]
    BY <1>6 DEF Ticked
  <2> QED
    BY <1>1, <1>2, <1>3, <1>6, <2>1 DEF StageSlot
<1>7. CASE ~ Ticks(k)
  <2>1. t = slot[k]
    BY <1>4, <1>7 DEF Ticked
  <2> QED
    BY <1>1, <1>4, <1>7, <2>1
<1> QED
  BY <1>5, <1>6, <1>7

\* Moving between stages keeps slots well-typed.
LEMMA MovedType ==
  ASSUME TypeOK, NEW k \in Stage, NEW from \in Stage, NEW refill, NEW leaves,
         NEW cycles \in Int
  PROVE  Moved(k, refill, from, cycles, leaves) \in StageSlot
  BY SlotType, SlotWithType, EmptyType DEF Moved

\* The slots that transfer_completed_stages leaves.
LEMMA FlushType ==
  ASSUME NEW slots \in [Stage -> StageSlot]
  PROVE  flushPipeline(slots) \in [Stage -> StageSlot]
  BY EmptyType DEF flushPipeline

\* A fetched register is well-typed.
LEMMA FetchedType == ASSUME TypeOK PROVE FetchedRegister \in PipelineRegister
<1> DEFINE raw == memory_fetch_instruction(memory, PC)
<1>1. PC \in Nat /\ memory \in [Address -> Int32]
  BY DEF TypeOK
<1>2. raw \in RawWord
  BY <1>1, FetchType
<1>3. OpcodeOf(raw) \in OpcodeField
  BY <1>2, OpcodeOfType
<1> HIDE DEF raw
<1>4. FetchedRegister = [ZeroRegister EXCEPT !.valid = TRUE, !.pc = PC,
                           !.rawInstruction = raw, !.opcode = OpcodeOf(raw)]
  BY DEF FetchedRegister, raw
<1> QED
  BY <1>1, <1>2, <1>3, <1>4, EmptyType DEF PipelineRegister

\* A branch that is taken has a natural number for its target.
LEMMA TargetType ==
  ASSUME NEW reg \in PipelineRegister, branch_taken(reg)
  PROVE  branch_target(reg) \in 0 .. INSTRUCTION_MEMORY_SIZE - 1
<1>1. reg.pc \in Int /\ reg.address \in Int /\ reg.immediate \in Int
  <2>1. reg.pc \in Nat /\ reg.address \in Int32 /\ reg.immediate \in Int32
    BY DEF PipelineRegister
  <2> QED
    BY <2>1, Int32Facts
<1>2. ADDR_SPACE \in Nat \ {0}
  BY UnitsPositive DEF ADDR_SPACE
<1>3. reg.pc % ADDR_SPACE \in Int /\ reg.address % ADDR_SPACE \in Int
  BY <1>1, <1>2
<1>4. jump_target(reg) \in Int
  BY <1>1, <1>3 DEF jump_target
<1>5. branch_target(reg) \in Int
  BY <1>1, <1>4 DEF branch_target
<1> QED
  BY <1>5, MemoryAssumption DEF branch_taken

-----------------------------------------------------------------------------
(* The type invariant.                                                     *)

\* The initial state is well-typed.
LEMMA InitType == Init => TypeOK
<1> SUFFICES ASSUME Init PROVE TypeOK
  OBVIOUS
<1>1. registers \in [Register -> Int32]
  BY Int32Facts DEF Init
<1>2. PICK program \in Programs : memory = LoadedMemory(program) /\ instructionCount = Len(program)
  BY DEF Init
<1>3. /\ program \in Seq(RawWord) /\ Len(program) <= INSTRUCTION_MEMORY_SIZE
      /\ Len(program) \in Nat
  BY ProgramsAssumption
<1>4. instructionCount \in 0 .. INSTRUCTION_MEMORY_SIZE
  BY <1>2, <1>3, MemoryAssumption
<1>5. ASSUME NEW a \in Address PROVE LoadedMemory(program)[a] \in Int32
  <2>1. CASE a < Len(program)
    <3>1. a \in Nat /\ a + 1 \in 1 .. Len(program)
      BY <2>1, <1>3, MemoryAssumption DEF Address
    <3>2. program[a + 1] \in RawWord
      BY <3>1, <1>3
    <3>3. program[a + 1] \in Int
      BY <3>2, UnitsPositive DEF RawWord
    <3> QED
      BY <2>1, <3>3, ToInt32Type DEF LoadedMemory
  <2>2. CASE ~ (a < Len(program))
    BY <2>2, Int32Facts DEF LoadedMemory
  <2> QED
    BY <2>1, <2>2
<1>6. memory \in [Address -> Int32]
  BY <1>2, <1>5 DEF LoadedMemory
<1>7. slot \in [Stage -> StageSlot]
  BY EmptyType DEF Init
<1>8. cycle \in 0 .. MaxCycles
  BY MaxCyclesAssumption DEF Init
<1> QED
  BY <1>1, <1>4, <1>6, <1>7, <1>8 DEF Init, TypeOK, Phase

\* Every step keeps every variable in its type.
LEMMA NextType == TypeOK /\ [Next]_vars => TypeOK'
<1> SUFFICES ASSUME TypeOK, [Next]_vars PROVE TypeOK'
  OBVIOUS
<1> USE DEF Phase, Stage
<1>0. \A k \in Stage : slot[k].reg \in PipelineRegister
  BY SlotType
<1>1. CASE StartCycle
  <2>1. PC' \in Nat /\ slot' \in [Stage -> StageSlot]
    <3>1. CASE can_fetch_this_cycle(cycle + 1)
      <4>1. FetchedRegister \in PipelineRegister
        BY FetchedType
      <4>2. SlotWith(FetchedRegister, IF_CYCLES) \in StageSlot
        BY <4>1, SlotWithType DEF IF_CYCLES
      <4> QED
        BY <1>1, <3>1, <4>2 DEF StartCycle, fetch_into_if, TypeOK
    <3>2. CASE ~ can_fetch_this_cycle(cycle + 1)
      BY <1>1, <3>2 DEF StartCycle, TypeOK
    <3> QED
      BY <3>1, <3>2
  <2>2. cycle' \in 0 .. MaxCycles
    BY <1>1, MaxCyclesAssumption DEF StartCycle, TypeOK
  <2>3. stalled' \in BOOLEAN /\ fetched' \in BOOLEAN /\ mem_active' \in BOOLEAN
    BY <1>1 DEF StartCycle, evaluate_id_hazard, can_fetch_this_cycle
  <2> QED
    BY <1>1, <2>1, <2>2, <2>3 DEF StartCycle, TypeOK
<1>2. CASE TickWB
  <2>1. slot["WB"].reg \in PipelineRegister
    BY <1>0
  <2>2. Ticked("WB", slot["WB"].reg) \in StageSlot
    BY <2>1, TickedFacts
  <2>3. registers' \in [Register -> Int32]
    BY <1>2, <2>1, CompleteWbType DEF TickWB, TypeOK
  <2> QED
    BY <1>2, <2>2, <2>3 DEF TickWB, TypeOK, loopVars
<1>3. CASE TickMEM
  <2> DEFINE reg == slot["MEM"].reg
  <2>1. reg \in PipelineRegister /\ complete_mem_stage(reg) \in PipelineRegister
    BY <1>0, CompleteMemFacts
  <2>2. Ticked("MEM", complete_mem_stage(reg)) \in StageSlot
    BY <2>1, TickedFacts
  <2>3. memory' \in [Address -> Int32]
    <3>1. reg.address \in Int32 /\ reg.memoryData \in Int32
      BY <2>1 DEF PipelineRegister
    <3>2. reg.address \in Int
      BY <3>1, Int32Facts
    <3>3. writeMemory(memory, reg.address, reg.memoryData) \in [Address -> Int32]
      BY <3>1, <3>2, WriteMemoryType DEF TypeOK
    <3> QED
      BY <1>3, <3>3 DEF TickMEM, TypeOK
  <2>4. wait_for_taken_branch_mem' \in BOOLEAN
    BY <1>3 DEF TickMEM, TypeOK
  <2> QED
    BY <1>3, <2>2, <2>3, <2>4 DEF TickMEM, TypeOK, loopVars
<1>4. CASE TickEX
  <2> DEFINE reg   == slot["EX"].reg
             slots == [slot EXCEPT !["EX"] = Ticked("EX", complete_ex_stage(reg))]
             taken == Completes("EX") /\ branch_taken(reg)
  <2>1. reg \in PipelineRegister /\ complete_ex_stage(reg) \in PipelineRegister
    BY <1>0, CompleteExFacts
  <2>2. Ticked("EX", complete_ex_stage(reg)) \in StageSlot
    BY <2>1, TickedFacts
  <2>3. slots \in [Stage -> StageSlot]
    BY <2>2 DEF TypeOK
  <2>4. slot' \in [Stage -> StageSlot]
    BY <1>4, <2>3, FlushType DEF TickEX
  <2>5. PC' \in Nat
    <3>1. CASE taken
      <4>1. PC' = branch_target(reg)
        BY <1>4, <3>1 DEF TickEX
      <4>2. branch_target(reg) \in 0 .. INSTRUCTION_MEMORY_SIZE - 1
        BY <2>1, <3>1, TargetType
      <4> QED
        BY <4>1, <4>2, MemoryAssumption
    <3>2. CASE ~ taken
      BY <1>4, <3>2 DEF TickEX, TypeOK
    <3> QED
      BY <3>1, <3>2
  <2>6. wait_for_taken_branch_mem' \in BOOLEAN
    BY <1>4 DEF TickEX
  <2> QED
    BY <1>4, <2>4, <2>5, <2>6 DEF TickEX, TypeOK, loopVars
<1>5. CASE TickID
  <2>1. latch_decode_operands(slot["ID"].reg) \in PipelineRegister
    BY <1>0, LatchFacts
  <2>2. Ticked("ID", latch_decode_operands(slot["ID"].reg)) \in StageSlot
    BY <2>1, TickedFacts
  <2> QED
    BY <1>5, <2>2 DEF TickID, TypeOK, cpuVars, loopVars
<1>6. CASE TickIF
  <2>1. Ticked("IF", slot["IF"].reg) \in StageSlot
    BY <1>0, TickedFacts
  <2> QED
    BY <1>6, <2>1 DEF TickIF, TypeOK, cpuVars, loopVars
<1>7. CASE Transfer
  <2>1. /\ Moved("WB", LeavesMEM, "MEM", WB_CYCLES, LeavesWB) \in StageSlot
        /\ Moved("MEM", LeavesEX, "EX", MEM_CYCLES, LeavesMEM) \in StageSlot
        /\ Moved("EX", LeavesID, "ID", EX_CYCLES, LeavesEX) \in StageSlot
        /\ Moved("ID", LeavesIF, "IF", ID_CYCLES, LeavesID) \in StageSlot
    BY MovedType DEF WB_CYCLES, MEM_CYCLES, EX_CYCLES, ID_CYCLES
  <2>2. (IF LeavesIF THEN EmptySlot ELSE slot["IF"]) \in StageSlot
    BY SlotType, EmptyType
  <2>3. slot' \in [Stage -> StageSlot]
    BY <1>7, <2>1, <2>2 DEF Transfer, TypeOK
  <2> QED
    BY <1>7, <2>3 DEF Transfer, TypeOK, cpuVars, loopVars
<1>8. CASE Finish
  BY <1>8 DEF Finish, TypeOK, cpuVars, loopVars
<1>9. CASE UNCHANGED vars
  BY <1>9 DEF TypeOK, vars, cpuVars, loopVars
<1> QED
  BY <1>1, <1>2, <1>3, <1>4, <1>5, <1>6, <1>7, <1>8, <1>9 DEF Next, Terminated

\* Every variable and every field of every slot keeps its type, in every run of
\* every program: operands, addresses and results stay int32_t values, register
\* numbers stay below the register count, and PC stays a natural number whatever
\* branch targets the program computes.
THEOREM TypeCorrect == Spec => []TypeOK
<1>1. Init => TypeOK
  BY InitType
<1>2. TypeOK /\ [Next]_vars => TypeOK'
  BY NextType
<1> QED
  BY <1>1, <1>2, PTL DEF Spec

-----------------------------------------------------------------------------
(* The lock step of stages and cycles.                                     *)

\* The hazard decision depends on the raw instruction in ID and on the identity of
\* the instruction in EX only.
LEMMA HazardDepends ==
  ASSUME NEW id1, NEW id2, NEW ex1, NEW ex2,
         id1.reg = id2.reg, id1.completed = id2.completed,
         ex1.reg.valid = ex2.reg.valid, ex1.reg.opcode = ex2.reg.opcode,
         ex1.reg.r1 = ex2.reg.r1
  PROVE  evaluate_id_hazard(id1, ex1) <=> evaluate_id_hazard(id2, ex2)
  BY DEF evaluate_id_hazard, IsEmpty, destination_register, instruction_writes_register

\* A hazard needs an undecoded instruction in ID and a load in EX.
LEMMA HazardNeeds ==
  Hazard => /\ ~ IsEmpty(slot["ID"]) /\ ~ slot["ID"].completed
            /\ ~ IsEmpty(slot["EX"]) /\ slot["EX"].reg.opcode = OPCODE_MOVR
  BY DEF Hazard, evaluate_id_hazard

\* The initial state is in lock step.
LEMMA InitLockStep == Init => LockStep
<1> SUFFICES ASSUME Init PROVE LockStep
  OBVIOUS
<1>1. \A k \in Stage : IsEmpty(slot[k])
  BY DEF Init, IsEmpty, EmptySlot, ZeroRegister
<1>2. /\ IsEmpty(slot["IF"]) /\ IsEmpty(slot["ID"]) /\ IsEmpty(slot["EX"])
      /\ IsEmpty(slot["MEM"]) /\ IsEmpty(slot["WB"])
  BY <1>1 DEF Stage
<1>3. phase = "start" /\ cycle = 0 /\ ~ OddCycle /\ ~ wait_for_taken_branch_mem /\ ~ fetched
  BY DEF Init, OddCycle
<1>4. ~ InCycle
  BY <1>3 DEF InCycle, Stage
<1> QED
  BY <1>2, <1>3, <1>4
     DEF LockStep, BeforeOdd, BeforeEven, DuringOdd, DuringEven, StallCurrent,
         FetchAllowed, LoadUseStalls

\* A new cycle starts in lock step: what was to run in it runs, a fetch happens in
\* odd cycles only, and the stall decision is the current one.
LEMMA StartCycleLockStep == TypeOK /\ LockStep /\ StartCycle => LockStep'
<1> SUFFICES ASSUME TypeOK, LockStep, StartCycle PROVE LockStep'
  OBVIOUS
<1>1. /\ phase = "start" /\ phase' = "WB" /\ cycle' = cycle + 1 /\ cycle \in Nat
      /\ UNCHANGED wait_for_taken_branch_mem
  BY MaxCyclesAssumption DEF StartCycle, TypeOK
<1>2. OddCycle' <=> ~ OddCycle
  BY <1>1 DEF OddCycle
<1>3. InCycle' /\ ~ AfterWB' /\ ~ AfterMEM' /\ ~ AfterEX' /\ ~ AfterID' /\ ~ AfterIF'
  BY <1>1 DEF InCycle, Stage, AfterWB, AfterMEM, AfterEX, AfterID, AfterIF
<1>4. /\ slot'["ID"] = slot["ID"] /\ slot'["EX"] = slot["EX"]
      /\ slot'["MEM"] = slot["MEM"] /\ slot'["WB"] = slot["WB"]
  BY DEF StartCycle, fetch_into_if, TypeOK, Stage
<1>5. (stalled' <=> Hazard) /\ (Hazard' <=> Hazard)
  BY <1>4 DEF StartCycle, Hazard
<1>6. fetched' => OddCycle' /\ ~ mem_active' /\ slot'["IF"].cycles_left = 1
                    /\ ~ slot'["IF"].completed
  <2>1. fetched' <=> can_fetch_this_cycle(cycle + 1)
    BY DEF StartCycle
  <2>2. fetched' => slot'["IF"] = SlotWith(FetchedRegister, IF_CYCLES)
    BY <2>1 DEF StartCycle, fetch_into_if, TypeOK, Stage
  <2>3. fetched' => (cycle + 1) % 2 = 1 /\ IsEmpty(slot["MEM"])
    BY <2>1 DEF can_fetch_this_cycle
  <2>4. mem_active' <=> ~ IsEmpty(slot["MEM"])
    BY DEF StartCycle
  <2>5. fetched' => slot'["IF"].cycles_left = 1 /\ ~ slot'["IF"].completed
    BY <2>2 DEF SlotWith, IF_CYCLES
  <2> QED
    BY <1>1, <2>3, <2>4, <2>5 DEF OddCycle
<1>7. ~ fetched' => slot'["IF"] = slot["IF"]
  BY DEF StartCycle
<1>8. BeforeOdd' /\ BeforeEven'
  BY <1>1 DEF BeforeOdd, BeforeEven
<1>9. DuringOdd'
  <2> SUFFICES ASSUME OddCycle' PROVE DuringOdd'
    BY DEF DuringOdd
  <2>1. ~ OddCycle
    BY <1>2
  <2>2. BeforeOdd
    BY DEF LockStep
  <2> QED
    BY <1>1, <1>3, <1>4, <1>5, <1>6, <1>7, <2>1, <2>2, HazardNeeds
       DEF DuringOdd, BeforeOdd, Running, IsEmpty
<1>10. DuringEven'
  <2> SUFFICES ASSUME ~ OddCycle' PROVE DuringEven'
    BY DEF DuringEven
  <2>1. OddCycle /\ ~ fetched'
    BY <1>2, <1>6
  <2>2. BeforeEven
    BY DEF LockStep
  <2> QED
    BY <1>1, <1>3, <1>4, <1>5, <1>7, <2>1, <2>2
       DEF DuringEven, BeforeEven, Running, IsEmpty, BranchIn
<1>11. StallCurrent' /\ FetchAllowed'
  BY <1>5, <1>6 DEF StallCurrent, FetchAllowed
<1>12. LoadUseStalls'
  BY <1>4 DEF LockStep, LoadUseStalls, IsDone, IsEmpty
<1> QED
  BY <1>8, <1>9, <1>10, <1>11, <1>12 DEF LockStep

\* What the ticks have in common: cycle, stall decision and flags are those of
\* the whole cycle.
LEMMA TickFrame ==
  TypeOK /\ (TickWB \/ TickMEM \/ TickEX \/ TickID \/ TickIF) =>
    /\ (OddCycle' <=> OddCycle) /\ InCycle /\ InCycle'
    /\ stalled' = stalled /\ fetched' = fetched /\ mem_active' = mem_active
    /\ ~ (phase' = "start")
  BY DEF TickWB, TickMEM, TickEX, TickID, TickIF, loopVars, OddCycle, InCycle, Stage

\* The tick of WB.
LEMMA TickWBLockStep == TypeOK /\ LockStep /\ TickWB => LockStep'
<1> SUFFICES ASSUME TypeOK, LockStep, TickWB PROVE LockStep'
  OBVIOUS
<1>1. /\ (OddCycle' <=> OddCycle) /\ InCycle /\ InCycle' /\ phase' # "start"
      /\ stalled' = stalled /\ fetched' = fetched /\ mem_active' = mem_active
  BY TickFrame
<1>2. /\ phase = "WB" /\ phase' = "MEM"
      /\ UNCHANGED wait_for_taken_branch_mem
  BY DEF TickWB
<1>3. /\ ~ AfterWB /\ ~ AfterMEM /\ ~ AfterEX /\ ~ AfterID /\ ~ AfterIF
      /\ AfterWB' /\ ~ AfterMEM' /\ ~ AfterEX' /\ ~ AfterID' /\ ~ AfterIF'
  BY <1>2 DEF AfterWB, AfterMEM, AfterEX, AfterID, AfterIF
<1>4. /\ slot'["IF"] = slot["IF"] /\ slot'["ID"] = slot["ID"]
      /\ slot'["EX"] = slot["EX"] /\ slot'["MEM"] = slot["MEM"]
      /\ slot'["WB"] = Ticked("WB", slot["WB"].reg)
  BY DEF TickWB, TypeOK, Stage
<1>5. /\ Completes("WB") => slot'["WB"].reg = slot["WB"].reg /\ slot'["WB"].completed
      /\ ~ Completes("WB") => slot'["WB"].reg = slot["WB"].reg
  BY <1>4, SlotType, TickedFacts DEF Stage
<1>6. Hazard' <=> Hazard
  BY <1>4 DEF Hazard
<1>7. BeforeOdd' /\ BeforeEven'
  BY <1>1 DEF BeforeOdd, BeforeEven
<1>8. DuringOdd'
  <2> SUFFICES ASSUME OddCycle PROVE DuringOdd'
    BY <1>1 DEF DuringOdd
  <2>1. DuringOdd
    BY DEF LockStep
  <2>2. ~ IsEmpty(slot["WB"]) => Completes("WB")
    BY <1>1, <1>3, <2>1 DEF DuringOdd, Running, Completes, Ticks
  <2> QED
    BY <1>1, <1>2, <1>3, <1>4, <1>5, <2>1, <2>2 DEF DuringOdd, Running, IsEmpty, BranchIn
<1>9. DuringEven'
  <2> SUFFICES ASSUME ~ OddCycle PROVE DuringEven'
    BY <1>1 DEF DuringEven
  <2>1. DuringEven
    BY DEF LockStep
  <2> QED
    BY <1>1, <1>2, <1>3, <1>4, <1>5, <1>6, <2>1 DEF DuringEven, Running, IsEmpty, BranchIn
<1>10. StallCurrent' /\ FetchAllowed'
  BY <1>1, <1>3, <1>6 DEF LockStep, StallCurrent, FetchAllowed
<1>11. LoadUseStalls'
  BY <1>4 DEF LockStep, LoadUseStalls, IsDone, IsEmpty
<1> QED
  BY <1>7, <1>8, <1>9, <1>10, <1>11 DEF LockStep

\* The tick of MEM, which has work in even cycles only.
LEMMA TickMEMLockStep == TypeOK /\ LockStep /\ TickMEM => LockStep'
<1> SUFFICES ASSUME TypeOK, LockStep, TickMEM PROVE LockStep'
  OBVIOUS
<1>1. /\ (OddCycle' <=> OddCycle) /\ InCycle /\ InCycle' /\ phase' # "start"
      /\ stalled' = stalled /\ fetched' = fetched /\ mem_active' = mem_active
  BY TickFrame
<1>2. phase = "MEM" /\ phase' = "EX"
  BY DEF TickMEM
<1>3. /\ AfterWB /\ ~ AfterMEM /\ ~ AfterEX /\ ~ AfterID /\ ~ AfterIF
      /\ AfterWB' /\ AfterMEM' /\ ~ AfterEX' /\ ~ AfterID' /\ ~ AfterIF'
  BY <1>2 DEF AfterWB, AfterMEM, AfterEX, AfterID, AfterIF
<1>4. /\ slot'["IF"] = slot["IF"] /\ slot'["ID"] = slot["ID"]
      /\ slot'["EX"] = slot["EX"] /\ slot'["WB"] = slot["WB"]
      /\ slot'["MEM"] = Ticked("MEM", complete_mem_stage(slot["MEM"].reg))
  BY DEF TickMEM, TypeOK, Stage
<1>5. /\ Completes("MEM") => slot'["MEM"].completed
      /\ ~ Completes("MEM") => wait_for_taken_branch_mem' = wait_for_taken_branch_mem
      /\ slot'["MEM"].reg.valid = slot["MEM"].reg.valid
  <2>1. /\ slot["MEM"].reg \in PipelineRegister
        /\ complete_mem_stage(slot["MEM"].reg) \in PipelineRegister
        /\ complete_mem_stage(slot["MEM"].reg).valid = slot["MEM"].reg.valid
    BY SlotType, CompleteMemFacts DEF Stage
  <2>2. ~ Completes("MEM") => wait_for_taken_branch_mem' = wait_for_taken_branch_mem
    BY DEF TickMEM
  <2> QED
    BY <1>4, <2>1, <2>2, TickedFacts DEF Stage
<1>6. Hazard' <=> Hazard
  BY <1>4 DEF Hazard
<1>7. BeforeOdd' /\ BeforeEven'
  BY <1>1 DEF BeforeOdd, BeforeEven
<1>8. DuringOdd'
  <2> SUFFICES ASSUME OddCycle PROVE DuringOdd'
    BY <1>1 DEF DuringOdd
  <2>1. DuringOdd
    BY DEF LockStep
  <2>2. ~ Completes("MEM")
    BY <1>1, <2>1 DEF DuringOdd, Completes, Ticks
  <2> QED
    BY <1>1, <1>3, <1>4, <1>5, <2>1, <2>2 DEF DuringOdd, Running, IsEmpty, BranchIn
<1>9. DuringEven'
  <2> SUFFICES ASSUME ~ OddCycle PROVE DuringEven'
    BY <1>1 DEF DuringEven
  <2>1. DuringEven
    BY DEF LockStep
  <2>2. ~ IsEmpty(slot["MEM"]) => Completes("MEM")
    BY <1>1, <1>3, <2>1 DEF DuringEven, Running, Completes, Ticks
  <2>3. ~ wait_for_taken_branch_mem'
    BY <1>1, <1>5, <2>1, <2>2 DEF DuringEven, BranchIn, TickMEM, EndsBranchWait
  <2> QED
    BY <1>1, <1>3, <1>4, <1>5, <1>6, <2>1, <2>2, <2>3 DEF DuringEven, Running, IsEmpty
<1>10. StallCurrent' /\ FetchAllowed'
  BY <1>1, <1>3, <1>6 DEF LockStep, StallCurrent, FetchAllowed
<1>11. LoadUseStalls'
  BY <1>4 DEF LockStep, LoadUseStalls, IsDone, IsEmpty
<1> QED
  BY <1>7, <1>8, <1>9, <1>10, <1>11 DEF LockStep

\* The tick of EX, which completes in odd cycles only.  A taken branch empties IF
\* and ID; a stall is then not in force, because a branch is no load.
LEMMA TickEXLockStep == TypeOK /\ LockStep /\ TickEX => LockStep'
<1> SUFFICES ASSUME TypeOK, LockStep, TickEX PROVE LockStep'
  OBVIOUS
<1> DEFINE reg   == slot["EX"].reg
           taken == Completes("EX") /\ branch_taken(reg)
<1>1. /\ (OddCycle' <=> OddCycle) /\ InCycle /\ InCycle' /\ phase' # "start"
      /\ stalled' = stalled /\ fetched' = fetched /\ mem_active' = mem_active
  BY TickFrame
<1>2. /\ phase = "EX" /\ phase' = "ID"
      /\ wait_for_taken_branch_mem' <=> (wait_for_taken_branch_mem \/ taken)
  BY DEF TickEX
<1>3. /\ AfterWB /\ AfterMEM /\ ~ AfterEX /\ ~ AfterID /\ ~ AfterIF
      /\ AfterWB' /\ AfterMEM' /\ AfterEX' /\ ~ AfterID' /\ ~ AfterIF'
  BY <1>2 DEF AfterWB, AfterMEM, AfterEX, AfterID, AfterIF
<1>4. /\ slot'["MEM"] = slot["MEM"] /\ slot'["WB"] = slot["WB"]
      /\ slot'["EX"] = Ticked("EX", complete_ex_stage(reg))
  BY DEF TickEX, TypeOK, Stage, flushPipeline
<1>5. ~ taken => slot'["IF"] = slot["IF"] /\ slot'["ID"] = slot["ID"]
  BY DEF TickEX, TypeOK, Stage
<1>6. taken => IsEmpty(slot'["IF"]) /\ IsEmpty(slot'["ID"])
  BY DEF TickEX, TypeOK, Stage, flushPipeline, IsEmpty, EmptySlot, ZeroRegister
<1>7. /\ Completes("EX") => slot'["EX"].completed
      /\ ~ Completes("EX") => slot'["EX"].completed = slot["EX"].completed
      /\ Ticks("EX") => slot'["EX"].cycles_left = slot["EX"].cycles_left - 1
      /\ slot'["EX"].reg.valid = reg.valid /\ slot'["EX"].reg.opcode = reg.opcode
      /\ slot'["EX"].reg.r1 = reg.r1
  <2>1. /\ reg \in PipelineRegister
        /\ complete_ex_stage(reg) \in PipelineRegister
        /\ complete_ex_stage(reg).valid = reg.valid
        /\ complete_ex_stage(reg).opcode = reg.opcode
        /\ complete_ex_stage(reg).r1 = reg.r1
    BY SlotType, CompleteExFacts DEF Stage
  <2> QED
    BY <1>4, <2>1, TickedFacts DEF Stage
<1>8. taken => /\ ~ IsEmpty(slot["EX"]) /\ reg.opcode \in {OPCODE_JEQ, OPCODE_JMP}
               /\ reg.opcode # OPCODE_MOVR
  BY DEF Completes, Ticks, branch_taken, OPCODE_JEQ, OPCODE_JMP, OPCODE_MOVR
<1>9. ~ taken => (Hazard' <=> Hazard)
  BY <1>5, <1>7, HazardDepends DEF Hazard
<1>10. taken => ~ Hazard' /\ ~ Hazard
  BY <1>6, <1>8, HazardNeeds DEF Hazard, evaluate_id_hazard
<1>11. BeforeOdd' /\ BeforeEven'
  BY <1>1 DEF BeforeOdd, BeforeEven
<1>12. DuringOdd'
  <2> SUFFICES ASSUME OddCycle PROVE DuringOdd'
    BY <1>1 DEF DuringOdd
  <2>1. DuringOdd
    BY DEF LockStep
  <2>2. /\ ~ IsEmpty(slot["EX"]) => Completes("EX")
        /\ ~ wait_for_taken_branch_mem
    BY <1>1, <1>3, <2>1 DEF DuringOdd, Running, Completes, Ticks
  <2>3. CASE taken
    BY <1>1, <1>2, <1>3, <1>4, <1>6, <1>7, <1>8, <2>1, <2>2, <2>3
       DEF DuringOdd, Running, IsEmpty, BranchIn
  <2>4. CASE ~ taken
    BY <1>1, <1>2, <1>3, <1>4, <1>5, <1>7, <2>1, <2>2, <2>4
       DEF DuringOdd, Running, IsEmpty, BranchIn
  <2> QED
    BY <2>3, <2>4
<1>13. DuringEven'
  <2> SUFFICES ASSUME ~ OddCycle PROVE DuringEven'
    BY <1>1 DEF DuringEven
  <2>1. DuringEven
    BY DEF LockStep
  <2>2. /\ ~ Completes("EX") /\ ~ taken
        /\ ~ IsEmpty(slot["EX"]) => Ticks("EX") /\ ~ slot'["EX"].completed
                                   /\ slot'["EX"].cycles_left = 1
    BY <1>1, <1>3, <1>7, <2>1 DEF DuringEven, Running, Completes, Ticks
  <2> QED
    BY <1>1, <1>2, <1>3, <1>4, <1>5, <1>7, <1>9, <2>1, <2>2
       DEF DuringEven, Running, IsEmpty, BranchIn
<1>14. StallCurrent'
  BY <1>1, <1>3, <1>9, <1>10 DEF LockStep, StallCurrent
<1>15. FetchAllowed'
  BY <1>1 DEF LockStep, FetchAllowed
<1>16. LoadUseStalls'
  <2>1. CASE taken
    BY <1>6, <2>1 DEF LoadUseStalls, IsDone, IsEmpty
  <2>2. CASE ~ taken
    <3>1. ~ IsDone(slot["ID"])
      BY <1>1, <1>3 DEF LockStep, DuringOdd, DuringEven, Running, IsDone, IsEmpty
    <3> QED
      BY <1>5, <2>2, <3>1 DEF LoadUseStalls, IsDone
  <2> QED
    BY <2>1, <2>2
<1> QED
  BY <1>11, <1>12, <1>13, <1>14, <1>15, <1>16 DEF LockStep

\* Decoding yields a register that names the registers it reads.
LEMMA ReadsSame ==
  ASSUME NEW reg1, NEW reg2, NEW r,
         reg1.valid = reg2.valid, reg1.opcode = reg2.opcode,
         reg1.r1 = reg2.r1, reg1.r2 = reg2.r2, reg1.r3 = reg2.r3
  PROVE  instruction_reads_register(reg1, r) <=> instruction_reads_register(reg2, r)
  BY DEF instruction_reads_register

\* The tick of ID, which latches in odd cycles, when the stall decision taken at
\* the start of the cycle still says that every operand can be had.
LEMMA TickIDLockStep == TypeOK /\ LockStep /\ TickID => LockStep'
<1> SUFFICES ASSUME TypeOK, LockStep, TickID PROVE LockStep'
  OBVIOUS
<1> DEFINE reg == slot["ID"].reg
<1>1. /\ (OddCycle' <=> OddCycle) /\ InCycle /\ InCycle' /\ phase' # "start"
      /\ stalled' = stalled /\ fetched' = fetched /\ mem_active' = mem_active
  BY TickFrame
<1>2. /\ phase = "ID" /\ phase' = "IF"
      /\ UNCHANGED wait_for_taken_branch_mem
  BY DEF TickID
<1>3. /\ AfterWB /\ AfterMEM /\ AfterEX /\ ~ AfterID /\ ~ AfterIF
      /\ AfterWB' /\ AfterMEM' /\ AfterEX' /\ AfterID' /\ ~ AfterIF'
  BY <1>2 DEF AfterWB, AfterMEM, AfterEX, AfterID, AfterIF
<1>4. /\ slot'["IF"] = slot["IF"] /\ slot'["EX"] = slot["EX"]
      /\ slot'["MEM"] = slot["MEM"] /\ slot'["WB"] = slot["WB"]
      /\ slot'["ID"] = Ticked("ID", latch_decode_operands(reg))
  BY DEF TickID, TypeOK, Stage
<1>5. /\ latch_decode_operands(reg) \in PipelineRegister
      /\ reg \in PipelineRegister /\ Decoded(reg) \in PipelineRegister
  BY SlotType, LatchFacts, DecodedType DEF Stage
<1>6. /\ Completes("ID") => /\ slot'["ID"].completed
                            /\ slot'["ID"].reg = latch_decode_operands(reg)
      /\ ~ Completes("ID") => /\ slot'["ID"].completed = slot["ID"].completed
                              /\ slot'["ID"].reg = reg
      /\ ~ Ticks("ID") => slot'["ID"] = slot["ID"]
      /\ Ticks("ID") => slot'["ID"].cycles_left = slot["ID"].cycles_left - 1
  BY <1>4, <1>5, TickedFacts DEF Stage
<1>7. BeforeOdd' /\ BeforeEven'
  BY <1>1 DEF BeforeOdd, BeforeEven
<1>8. IsEmpty(slot["ID"]) => slot'["ID"] = slot["ID"]
  BY <1>6 DEF Ticks
<1>9. stalled => slot'["ID"] = slot["ID"]
  BY <1>6 DEF Ticks
<1>10. DuringOdd'
  <2> SUFFICES ASSUME OddCycle PROVE DuringOdd'
    BY <1>1 DEF DuringOdd
  <2>1. DuringOdd
    BY DEF LockStep
  <2>2. ~ IsEmpty(slot["ID"]) /\ ~ stalled => slot'["ID"].completed
    BY <1>1, <1>3, <1>6, <2>1 DEF DuringOdd, Running, Completes, Ticks
  <2> QED
    BY <1>1, <1>2, <1>3, <1>4, <1>8, <1>9, <2>1, <2>2
       DEF DuringOdd, Running, IsEmpty, BranchIn
<1>11. ~ OddCycle => /\ DuringEven /\ ~ Completes("ID")
                     /\ ~ IsEmpty(slot["ID"]) /\ ~ stalled =>
                          Running("ID", 1)' /\ ~ IsEmpty(slot'["ID"])
  <2> SUFFICES ASSUME ~ OddCycle
               PROVE  /\ DuringEven /\ ~ Completes("ID")
                      /\ ~ IsEmpty(slot["ID"]) /\ ~ stalled =>
                           Running("ID", 1)' /\ ~ IsEmpty(slot'["ID"])
    OBVIOUS
  <2>1. DuringEven
    BY DEF LockStep
  <2>2. ~ IsEmpty(slot["ID"]) => Running("ID", 2)
    BY <1>1, <1>3, <2>1 DEF DuringEven
  <2>3. ~ Completes("ID")
    BY <2>2 DEF Completes, Ticks, Running
  <2> QED
    BY <1>6, <2>1, <2>2, <2>3 DEF Running, Ticks, IsEmpty
<1>12. DuringEven'
  <2> SUFFICES ASSUME ~ OddCycle PROVE DuringEven'
    BY <1>1 DEF DuringEven
  <2>1. Hazard' <=> Hazard
    BY <1>4, <1>6, <1>11, HazardDepends DEF Hazard
  <2>2. slot'["ID"].reg = reg
    BY <1>6, <1>11
  <2>3. stalled <=> Hazard
    BY <1>1, <1>11 DEF DuringEven
  <2> QED
    BY <1>1, <1>2, <1>3, <1>4, <1>8, <1>9, <1>11, <2>1, <2>2, <2>3
       DEF DuringEven, Running, IsEmpty, BranchIn
<1>13. StallCurrent' /\ FetchAllowed'
  BY <1>1, <1>3 DEF LockStep, StallCurrent, FetchAllowed
<1>14. LoadUseStalls'
  <2> DEFINE d == Decoded(reg)
             l == latch_decode_operands(reg)
             producer == destination_register(slot["EX"].reg)
  <2>1. CASE Completes("ID")
    <3>1. ~ Hazard /\ ~ IsEmpty(slot["ID"]) /\ ~ slot["ID"].completed
      BY <1>1, <1>3, <2>1 DEF LockStep, StallCurrent, Completes, Ticks
    <3>2. /\ l.valid = d.valid /\ l.opcode = d.opcode
          /\ l.r1 = d.r1 /\ l.r2 = d.r2 /\ l.r3 = d.r3
      BY <1>5, LatchFacts
    <3>3. instruction_reads_register(l, producer) <=> instruction_reads_register(d, producer)
      BY <3>2, ReadsSame
    <3>4. instruction_reads_register(d, producer) => d.valid /\ producer > 0
      <4>1. d.r1 \in Nat /\ d.r2 \in Nat /\ d.r3 \in Nat
        BY <1>5, LayoutAssumption DEF PipelineRegister, Register
      <4>2. instruction_reads_register(d, producer) =>
              d.valid /\ producer # 0 /\ producer \in {d.r1, d.r2, d.r3}
        BY DEF instruction_reads_register
      <4> HIDE DEF d, producer
      <4> QED
        BY <4>1, <4>2
    <3>5. ~ IsEmpty(slot["EX"]) /\ slot["EX"].reg.opcode = OPCODE_MOVR =>
            ~ instruction_reads_register(d, producer)
      BY <3>1, <3>4 DEF Hazard, evaluate_id_hazard
    <3>6. slot'["ID"].reg = l /\ slot'["EX"] = slot["EX"]
      BY <1>4, <1>6, <2>1
    <3> QED
      BY <3>3, <3>5, <3>6 DEF LoadUseStalls, IsEmpty
  <2>2. CASE ~ Completes("ID")
    BY <1>4, <1>6, <2>2 DEF LockStep, LoadUseStalls, IsDone, IsEmpty
  <2> QED
    BY <2>1, <2>2
<1> QED
  BY <1>7, <1>10, <1>12, <1>13, <1>14 DEF LockStep

\* The tick of IF: a fetched instruction is ready for ID at the end of its cycle.
LEMMA TickIFLockStep == TypeOK /\ LockStep /\ TickIF => LockStep'
<1> SUFFICES ASSUME TypeOK, LockStep, TickIF PROVE LockStep'
  OBVIOUS
<1>1. /\ (OddCycle' <=> OddCycle) /\ InCycle /\ InCycle' /\ phase' # "start"
      /\ stalled' = stalled /\ fetched' = fetched /\ mem_active' = mem_active
  BY TickFrame
<1>2. /\ phase = "IF" /\ phase' = "transfer"
      /\ UNCHANGED wait_for_taken_branch_mem
  BY DEF TickIF
<1>3. /\ AfterWB /\ AfterMEM /\ AfterEX /\ AfterID /\ ~ AfterIF
      /\ AfterWB' /\ AfterMEM' /\ AfterEX' /\ AfterID' /\ AfterIF'
  BY <1>2 DEF AfterWB, AfterMEM, AfterEX, AfterID, AfterIF
<1>4. /\ slot'["ID"] = slot["ID"] /\ slot'["EX"] = slot["EX"]
      /\ slot'["MEM"] = slot["MEM"] /\ slot'["WB"] = slot["WB"]
      /\ slot'["IF"] = Ticked("IF", slot["IF"].reg)
  BY DEF TickIF, TypeOK, Stage
<1>5. /\ Completes("IF") => slot'["IF"].completed
      /\ ~ Ticks("IF") => slot'["IF"] = slot["IF"]
      /\ slot'["IF"].reg = slot["IF"].reg
  BY <1>4, SlotType, TickedFacts DEF Stage
<1>6. Hazard' <=> Hazard
  BY <1>4 DEF Hazard
<1>7. BeforeOdd' /\ BeforeEven'
  BY <1>1 DEF BeforeOdd, BeforeEven
<1>8. DuringOdd'
  <2> SUFFICES ASSUME OddCycle PROVE DuringOdd'
    BY <1>1 DEF DuringOdd
  <2>1. DuringOdd
    BY DEF LockStep
  <2>2. ~ IsEmpty(slot["IF"]) => Completes("IF") \/ slot["IF"].completed
    BY <1>1, <1>3, <2>1 DEF DuringOdd, Running, Completes, Ticks
  <2>3. ~ IsEmpty(slot["IF"]) => slot'["IF"].completed
    BY <1>5, <2>2 DEF Ticks
  <2> QED
    BY <1>1, <1>2, <1>3, <1>4, <1>5, <2>1, <2>3 DEF DuringOdd, Running, IsEmpty, BranchIn
<1>9. DuringEven'
  <2> SUFFICES ASSUME ~ OddCycle PROVE DuringEven'
    BY <1>1 DEF DuringEven
  <2>1. DuringEven
    BY DEF LockStep
  <2>2. slot'["IF"] = slot["IF"]
    BY <1>1, <1>5, <2>1 DEF DuringEven, Ticks
  <2> QED
    BY <1>1, <1>2, <1>3, <1>4, <1>6, <2>1, <2>2 DEF DuringEven, Running, IsEmpty, BranchIn
<1>10. StallCurrent' /\ FetchAllowed'
  BY <1>1, <1>3 DEF LockStep, StallCurrent, FetchAllowed
<1>11. LoadUseStalls'
  BY <1>4 DEF LockStep, LoadUseStalls, IsDone, IsEmpty
<1> QED
  BY <1>7, <1>8, <1>9, <1>10, <1>11 DEF LockStep

\* A refilled slot is occupied by the instruction that comes and has all its
\* cycles to run; a vacated one is empty.
LEMMA MovedFacts ==
  ASSUME NEW k, NEW from, NEW refill, NEW leaves, NEW cycles
  PROVE  LET m == Moved(k, refill, from, cycles, leaves)
         IN  /\ refill => m.reg = slot[from].reg /\ m.cycles_left = cycles /\ ~ m.completed
             /\ ~ refill /\ leaves => ~ m.reg.valid
             /\ ~ refill /\ ~ leaves => m = slot[k]
  BY DEF Moved, SlotWith, EmptySlot, ZeroRegister

\* The transfer at the end of a cycle.  After an odd cycle WB, EX, ID and IF are
\* done and move, unless a stall keeps ID and with it IF; after an even cycle
\* only MEM is done and moves.
LEMMA TransferLockStep == TypeOK /\ LockStep /\ Transfer => LockStep'
<1> SUFFICES ASSUME TypeOK, LockStep, Transfer PROVE LockStep'
  OBVIOUS
<1>1. /\ phase = "transfer" /\ phase' = "start" /\ cycle' = cycle
      /\ UNCHANGED <<wait_for_taken_branch_mem, fetched, mem_active>>
  BY DEF Transfer, loopVars
<1>2. /\ InCycle /\ ~ InCycle' /\ (OddCycle' <=> OddCycle)
      /\ AfterWB /\ AfterMEM /\ AfterEX /\ AfterID /\ AfterIF
  BY <1>1 DEF InCycle, OddCycle, Stage, AfterWB, AfterMEM, AfterEX, AfterID, AfterIF
<1>3. /\ slot'["WB"]  = Moved("WB", LeavesMEM, "MEM", WB_CYCLES, LeavesWB)
      /\ slot'["MEM"] = Moved("MEM", LeavesEX, "EX", MEM_CYCLES, LeavesMEM)
      /\ slot'["EX"]  = Moved("EX", LeavesID, "ID", EX_CYCLES, LeavesEX)
      /\ slot'["ID"]  = Moved("ID", LeavesIF, "IF", ID_CYCLES, LeavesID)
      /\ slot'["IF"]  = IF LeavesIF THEN EmptySlot ELSE slot["IF"]
  BY DEF Transfer, TypeOK, Stage
<1>4. /\ LeavesIF => IsEmpty(slot'["IF"])
      /\ ~ LeavesIF => slot'["IF"] = slot["IF"]
  BY <1>3 DEF IsEmpty, EmptySlot, ZeroRegister
<1>5. /\ LeavesIF => Running("ID", 2)'
      /\ ~ LeavesIF /\ LeavesID => IsEmpty(slot'["ID"])
      /\ ~ LeavesIF /\ ~ LeavesID => slot'["ID"] = slot["ID"]
  BY <1>3, MovedFacts DEF IsEmpty, Running, ID_CYCLES
<1>6. /\ LeavesID => Running("EX", 2)'
      /\ ~ LeavesID /\ LeavesEX => IsEmpty(slot'["EX"])
      /\ ~ LeavesID /\ ~ LeavesEX => slot'["EX"] = slot["EX"]
  BY <1>3, MovedFacts DEF IsEmpty, Running, EX_CYCLES
<1>7. /\ LeavesEX => /\ Running("MEM", 1)' /\ slot'["MEM"].reg = slot["EX"].reg
      /\ ~ LeavesEX /\ LeavesMEM => IsEmpty(slot'["MEM"])
      /\ ~ LeavesEX /\ ~ LeavesMEM => slot'["MEM"] = slot["MEM"]
  BY <1>3, MovedFacts DEF IsEmpty, Running, MEM_CYCLES
<1>8. /\ LeavesMEM => Running("WB", 1)'
      /\ ~ LeavesMEM /\ LeavesWB => IsEmpty(slot'["WB"])
      /\ ~ LeavesMEM /\ ~ LeavesWB => slot'["WB"] = slot["WB"]
  BY <1>3, MovedFacts DEF IsEmpty, Running, WB_CYCLES
<1>9. BeforeOdd'
  <2> SUFFICES ASSUME ~ OddCycle PROVE BeforeOdd'
    BY <1>2 DEF BeforeOdd
  <2>1. DuringEven
    BY DEF LockStep
  <2>2. /\ IsEmpty(slot["WB"])
        /\ ~ IsEmpty(slot["MEM"]) => slot["MEM"].completed
        /\ ~ IsEmpty(slot["EX"]) => Running("EX", 1)
        /\ ~ IsEmpty(slot["ID"]) => Running("ID", IF ~ stalled THEN 1 ELSE 2)
        /\ ~ IsEmpty(slot["IF"]) =>
             slot["IF"].completed /\ ~ IsEmpty(slot["ID"]) /\ IsEmpty(slot["EX"])
        /\ stalled <=> Hazard
        /\ ~ wait_for_taken_branch_mem
    BY <1>2, <2>1 DEF DuringEven
  <2>3. ~ LeavesEX /\ ~ LeavesID /\ ~ LeavesIF
    BY <2>2 DEF LeavesEX, LeavesID, LeavesIF, IsDone, IsEmpty, Running
  <2>4. LeavesMEM <=> ~ IsEmpty(slot["MEM"])
    BY <2>2 DEF LeavesMEM, IsDone, IsEmpty
  <2>5. /\ slot'["IF"] = slot["IF"] /\ slot'["ID"] = slot["ID"] /\ slot'["EX"] = slot["EX"]
        /\ IsEmpty(slot'["MEM"])
        /\ ~ IsEmpty(slot'["WB"]) => Running("WB", 1)'
    BY <1>4, <1>5, <1>6, <1>7, <1>8, <2>2, <2>3, <2>4 DEF LeavesWB, IsDone, IsEmpty
  <2>6. Hazard' <=> Hazard
    BY <2>5 DEF Hazard
  <2> QED
    BY <1>1, <2>2, <2>5, <2>6 DEF BeforeOdd, Running, IsEmpty
<1>10. BeforeEven'
  <2> SUFFICES ASSUME OddCycle PROVE BeforeEven'
    BY <1>2 DEF BeforeEven
  <2>1. DuringOdd
    BY DEF LockStep
  <2>2. /\ IsEmpty(slot["MEM"])
        /\ ~ IsEmpty(slot["WB"]) => slot["WB"].completed
        /\ ~ IsEmpty(slot["EX"]) => slot["EX"].completed
        /\ ~ IsEmpty(slot["ID"]) =>
             IF stalled THEN Running("ID", 2) ELSE slot["ID"].completed
        /\ ~ IsEmpty(slot["IF"]) => slot["IF"].completed
        /\ wait_for_taken_branch_mem =>
             BranchIn("EX") /\ IsEmpty(slot["ID"]) /\ IsEmpty(slot["IF"])
    BY <1>2, <2>1 DEF DuringOdd
  <2>3. /\ ~ LeavesMEM
        /\ LeavesEX <=> ~ IsEmpty(slot["EX"])
        /\ LeavesID <=> ~ IsEmpty(slot["ID"]) /\ ~ stalled
        /\ LeavesIF <=> ~ IsEmpty(slot["IF"]) /\ (IsEmpty(slot["ID"]) \/ ~ stalled)
    BY <2>2 DEF LeavesMEM, LeavesEX, LeavesID, LeavesIF, IsDone, IsEmpty, Running
  <2>4. /\ IsEmpty(slot'["WB"])
        /\ ~ IsEmpty(slot'["MEM"]) => Running("MEM", 1)'
        /\ ~ IsEmpty(slot'["EX"]) => Running("EX", 2)' /\ LeavesID
        /\ ~ IsEmpty(slot'["ID"]) => Running("ID", 2)'
    BY <1>5, <1>6, <1>7, <1>8, <2>2, <2>3 DEF LeavesWB, IsDone, IsEmpty, Running
  <2>5. ~ IsEmpty(slot'["IF"]) =>
          slot'["IF"].completed /\ ~ IsEmpty(slot'["ID"]) /\ IsEmpty(slot'["EX"])
    BY <1>4, <1>5, <2>2, <2>3, <2>4 DEF IsEmpty
  <2>6. wait_for_taken_branch_mem' =>
          /\ BranchIn("MEM")' /\ IsEmpty(slot'["EX"]) /\ IsEmpty(slot'["ID"])
          /\ IsEmpty(slot'["IF"])
    BY <1>1, <1>4, <1>5, <1>7, <2>2, <2>3, <2>4 DEF BranchIn, IsEmpty
  <2> QED
    BY <2>4, <2>5, <2>6 DEF BeforeEven
<1>11. DuringOdd' /\ DuringEven' /\ StallCurrent'
  BY <1>2 DEF DuringOdd, DuringEven, StallCurrent
<1>12. FetchAllowed'
  BY <1>1, <1>2 DEF LockStep, FetchAllowed
<1>13. LoadUseStalls'
  <2>1. ~ IsDone(slot'["ID"])
    BY <1>1, <1>9, <1>10 DEF BeforeOdd, BeforeEven, IsDone, IsEmpty, Running
  <2> QED
    BY <2>1 DEF LoadUseStalls
<1> QED
  BY <1>9, <1>10, <1>11, <1>12, <1>13 DEF LockStep

\* Every step keeps the pipeline in lock step.
LEMMA NextLockStep == TypeOK /\ LockStep /\ [Next]_vars => LockStep'
<1> SUFFICES ASSUME TypeOK, LockStep, [Next]_vars PROVE LockStep'
  OBVIOUS
<1>1. CASE Finish
  <2>1. phase' = "done" /\ UNCHANGED <<slot, cycle, fetched, mem_active>>
    BY <1>1 DEF Finish, loopVars
  <2> QED
    BY <2>1 DEF LockStep, BeforeOdd, BeforeEven, DuringOdd, DuringEven, StallCurrent,
         FetchAllowed, LoadUseStalls, InCycle, Stage, OddCycle, IsDone, IsEmpty
<1>2. CASE UNCHANGED vars
  <2>1. UNCHANGED <<slot, cycle, phase, stalled, fetched, mem_active, wait_for_taken_branch_mem>>
    BY <1>2 DEF vars, loopVars
  <2> QED
    BY <2>1 DEF LockStep, BeforeOdd, BeforeEven, DuringOdd, DuringEven, StallCurrent,
         FetchAllowed, LoadUseStalls, InCycle, OddCycle, IsDone, IsEmpty, Running,
         Hazard, BranchIn, AfterWB, AfterMEM, AfterEX, AfterID, AfterIF
<1> QED
  BY <1>1, <1>2, StartCycleLockStep, TickWBLockStep, TickMEMLockStep, TickEXLockStep,
     TickIDLockStep, TickIFLockStep, TransferLockStep DEF Next, Terminated

\* The inductive invariant holds in every run.
THEOREM Invariance == Spec => []IInv
<1>1. Init => IInv
  BY InitType, InitLockStep DEF IInv
<1>2. IInv /\ [Next]_vars => IInv'
  BY NextType, NextLockStep DEF IInv
<1> QED
  BY <1>1, <1>2, PTL DEF Spec

-----------------------------------------------------------------------------
(* The safety properties.                                                  *)

\* IF and MEM never need the memory port in the same cycle, and no taken branch is
\* outstanding when a fetch is due: the conditions of can_fetch_this_cycle on MEM
\* and on the branch wait never hold a fetch back.
THEOREM PortIsFree == Spec => []PortConflictFree
<1>1. IInv => PortConflictFree
  <2>1. cycle \in Nat /\ (cycle + 1) % 2 = 1 => cycle % 2 # 1
    OBVIOUS
  <2> QED
    BY <2>1, MaxCyclesAssumption
       DEF IInv, TypeOK, LockStep, BeforeOdd, OddCycle, PortConflictFree
<1> QED
  BY <1>1, Invariance, PTL

\* MEM is empty whenever ID latches operands: the order in which
\* read_operand_with_forwarding asks WB and MEM decides nothing.
THEOREM ForwardingIsUnambiguous == Spec => []ForwardingUnambiguous
<1>1. IInv => ForwardingUnambiguous
  <2> SUFFICES ASSUME IInv, phase = "ID", Completes("ID") PROVE IsEmpty(slot["MEM"])
    BY DEF ForwardingUnambiguous
  <2>1. InCycle /\ ~ AfterID
    BY DEF InCycle, Stage, AfterID
  <2>2. ~ IsEmpty(slot["ID"]) /\ slot["ID"].cycles_left <= 1
    BY DEF Completes, Ticks
  <2>3. OddCycle
    BY <2>1, <2>2 DEF IInv, LockStep, DuringEven, Running
  <2> QED
    BY <2>1, <2>3 DEF IInv, LockStep, DuringOdd
<1> QED
  BY <1>1, Invariance, PTL

\* No instruction leaves ID while a load it depends on is still in EX: the stall
\* decided at the start of the cycle covers the tick at its end.
THEOREM LoadsAreAwaited == Spec => []LoadUseStalls
<1>1. IInv => LoadUseStalls
  BY DEF IInv, LockStep
<1> QED
  BY <1>1, Invariance, PTL

\* The instructions in memory are those that were loaded, whatever addresses the
\* stores of a program compute.
THEOREM ProgramIsUnchanged == Spec => ProgramUnchanged
<1> DEFINE Same == \A a \in 0 .. INSTRUCTION_MEMORY_SIZE - 1 : memory'[a] = memory[a]
<1>1. TypeOK /\ [Next]_vars => [Same]_vars
  <2> SUFFICES ASSUME TypeOK, [Next]_vars PROVE Same
    OBVIOUS
  <2>1. CASE TickMEM
    <3> DEFINE reg == slot["MEM"].reg
    <3>1. reg \in PipelineRegister
      BY SlotType DEF Stage
    <3>2. reg.address \in Int32 /\ reg.memoryData \in Int32
      BY <3>1 DEF PipelineRegister
    <3>3. reg.address \in Int
      BY <3>2, Int32Facts
    <3>4. \A a \in 0 .. INSTRUCTION_MEMORY_SIZE - 1 :
            writeMemory(memory, reg.address, reg.memoryData)[a] = memory[a]
      BY <3>2, <3>3, WriteMemoryType DEF TypeOK
    <3> QED
      BY <2>1, <3>4 DEF TickMEM
  <2>2. CASE ~ TickMEM
    BY <2>2 DEF Next, StartCycle, fetch_into_if, TickWB, TickEX, TickID, TickIF, Transfer,
                Finish, Terminated, vars, cpuVars
  <2> QED
    BY <2>1, <2>2
<1> QED
  BY <1>1, TypeCorrect, PTL DEF Spec, ProgramUnchanged

-----------------------------------------------------------------------------
(* Program order and redirection, on top of the lock step.                 *)

\* The target of a branch depends on the fields that EX and MEM leave alone.
LEMMA TargetSame ==
  ASSUME NEW reg1, NEW reg2, reg1.opcode = reg2.opcode, reg1.pc = reg2.pc,
         reg1.address = reg2.address, reg1.immediate = reg2.immediate
  PROVE  branch_target(reg1) = branch_target(reg2)
  BY DEF branch_target, jump_target

\* EX leaves a branch's target alone.
LEMMA CompleteExTarget ==
  ASSUME NEW reg \in PipelineRegister, reg.opcode \in {OPCODE_JEQ, OPCODE_JMP}
  PROVE  branch_target(complete_ex_stage(reg)) = branch_target(reg)
<1> DEFINE alu == AluResult(reg.opcode, reg.operand1, reg.operand2,
                            reg.immediate, reg.shamt, reg.aluResult)
<1>1. reg.opcode \notin {OPCODE_MOVR, OPCODE_MOVM}
  BY DEF OPCODE_JEQ, OPCODE_JMP, OPCODE_MOVR, OPCODE_MOVM
<1>2. complete_ex_stage(reg) = [reg EXCEPT !.aluResult = alu]
  BY <1>1 DEF complete_ex_stage
<1> HIDE DEF alu
<1>3. /\ complete_ex_stage(reg).opcode = reg.opcode
      /\ complete_ex_stage(reg).pc = reg.pc
      /\ complete_ex_stage(reg).address = reg.address
      /\ complete_ex_stage(reg).immediate = reg.immediate
  BY <1>2 DEF PipelineRegister
<1> QED
  BY <1>3, TargetSame

\* What of the state program order depends on: a step that keeps it keeps the order.
LEMMA OrderFrame ==
  ASSUME PC' = PC, InOrder,
         \A k \in {"IF", "ID", "EX"} :
           /\ slot'[k].reg.valid = slot[k].reg.valid
           /\ slot'[k].reg.pc = slot[k].reg.pc
  PROVE  InOrder'
  BY DEF InOrder, IsEmpty

\* Program order is kept by every step.
LEMMA NextInOrder == IInv /\ InOrder /\ [Next]_vars => InOrder'
<1> SUFFICES ASSUME IInv, InOrder, [Next]_vars PROVE InOrder'
  OBVIOUS
<1>0. TypeOK /\ LockStep
  BY DEF IInv
<1>1. CASE StartCycle
  <2>1. slot'["ID"] = slot["ID"] /\ slot'["EX"] = slot["EX"]
    BY <1>0, <1>1 DEF StartCycle, fetch_into_if, TypeOK, Stage
  <2>2. CASE can_fetch_this_cycle(cycle + 1)
    <3>1. /\ IsEmpty(slot["IF"]) /\ PC' = PC + 1
          /\ slot'["IF"] = SlotWith(FetchedRegister, IF_CYCLES)
      BY <1>0, <1>1, <2>2 DEF StartCycle, fetch_into_if, can_fetch_this_cycle, TypeOK, Stage
    <3>2. FetchedRegister.valid /\ FetchedRegister.pc = PC
      BY DEF FetchedRegister, ZeroRegister
    <3>3. slot'["IF"].reg = FetchedRegister
      BY <3>1 DEF SlotWith
    <3> QED
      BY <2>1, <3>1, <3>2, <3>3 DEF InOrder, IsEmpty
  <2>3. CASE ~ can_fetch_this_cycle(cycle + 1)
    BY <1>1, <2>3, OrderFrame DEF StartCycle
  <2> QED
    BY <2>2, <2>3
<1>2. CASE TickWB
  <2>1. slot'["IF"] = slot["IF"] /\ slot'["ID"] = slot["ID"] /\ slot'["EX"] = slot["EX"]
    BY <1>0, <1>2 DEF TickWB, TypeOK, Stage
  <2> QED
    BY <1>2, <2>1, OrderFrame DEF TickWB
<1>3. CASE TickMEM
  <2>1. slot'["IF"] = slot["IF"] /\ slot'["ID"] = slot["ID"] /\ slot'["EX"] = slot["EX"]
    BY <1>0, <1>3 DEF TickMEM, TypeOK, Stage
  <2> QED
    BY <1>3, <2>1, OrderFrame DEF TickMEM
<1>4. CASE TickEX
  <2> DEFINE reg   == slot["EX"].reg
             taken == Completes("EX") /\ branch_taken(reg)
  <2>1. CASE taken
    <3>1. IsEmpty(slot'["IF"]) /\ IsEmpty(slot'["ID"])
      BY <1>0, <1>4, <2>1 DEF TickEX, TypeOK, Stage, flushPipeline, IsEmpty, EmptySlot, ZeroRegister
    <3> QED
      BY <3>1 DEF InOrder
  <2>2. CASE ~ taken
    <3>1. /\ slot'["IF"] = slot["IF"] /\ slot'["ID"] = slot["ID"] /\ PC' = PC
          /\ slot'["EX"] = Ticked("EX", complete_ex_stage(reg))
      BY <1>0, <1>4, <2>2 DEF TickEX, TypeOK, Stage
    <3>2. /\ complete_ex_stage(reg) \in PipelineRegister
          /\ complete_ex_stage(reg).valid = reg.valid
          /\ complete_ex_stage(reg).pc = reg.pc
      BY <1>0, SlotType, CompleteExFacts DEF Stage
    <3>3. slot'["EX"].reg.valid = reg.valid /\ slot'["EX"].reg.pc = reg.pc
      BY <1>0, <3>1, <3>2, TickedFacts DEF Stage
    <3> QED
      BY <3>1, <3>3, OrderFrame
  <2> QED
    BY <2>1, <2>2
<1>5. CASE TickID
  <2> DEFINE reg == slot["ID"].reg
             l   == latch_decode_operands(reg)
  <2>1. /\ slot'["IF"] = slot["IF"] /\ slot'["EX"] = slot["EX"] /\ PC' = PC
        /\ slot'["ID"] = Ticked("ID", l)
    BY <1>0, <1>5 DEF TickID, TypeOK, Stage, cpuVars
  <2>2. reg \in PipelineRegister
    BY <1>0, SlotType DEF Stage
  <2>3. /\ l \in PipelineRegister /\ l.pc = Decoded(reg).pc /\ l.valid = Decoded(reg).valid
    BY <1>0, <2>2, LatchFacts
  <2>4. Decoded(reg).pc = reg.pc /\ (Decoded(reg).valid => reg.valid)
    BY DEF Decoded
  <2> HIDE DEF l
  <2>5. slot'["ID"].reg.pc = reg.pc /\ (slot'["ID"].reg.valid => reg.valid)
    BY <1>0, <2>1, <2>3, <2>4, TickedFacts DEF Stage
  <2> QED
    BY <2>1, <2>5 DEF InOrder, IsEmpty
<1>6. CASE TickIF
  <2>1. /\ slot'["ID"] = slot["ID"] /\ slot'["EX"] = slot["EX"] /\ PC' = PC
        /\ slot'["IF"] = Ticked("IF", slot["IF"].reg)
    BY <1>0, <1>6 DEF TickIF, TypeOK, Stage, cpuVars
  <2>2. slot'["IF"].reg = slot["IF"].reg
    BY <1>0, <2>1, SlotType, TickedFacts DEF Stage
  <2> QED
    BY <2>1, <2>2, OrderFrame
<1>7. CASE Transfer
  <2>1. /\ slot'["EX"]  = Moved("EX", LeavesID, "ID", EX_CYCLES, LeavesEX)
        /\ slot'["ID"]  = Moved("ID", LeavesIF, "IF", ID_CYCLES, LeavesID)
        /\ slot'["IF"]  = IF LeavesIF THEN EmptySlot ELSE slot["IF"]
        /\ PC' = PC
    BY <1>0, <1>7 DEF Transfer, TypeOK, Stage, cpuVars
  <2>2. /\ LeavesIF => IsEmpty(slot'["IF"])
        /\ ~ LeavesIF => slot'["IF"] = slot["IF"]
    BY <2>1 DEF IsEmpty, EmptySlot, ZeroRegister
  <2>3. /\ LeavesIF => slot'["ID"].reg = slot["IF"].reg
        /\ ~ LeavesIF /\ LeavesID => IsEmpty(slot'["ID"])
        /\ ~ LeavesIF /\ ~ LeavesID => slot'["ID"] = slot["ID"]
    BY <2>1, MovedFacts DEF IsEmpty
  <2>4. /\ LeavesID => slot'["EX"].reg = slot["ID"].reg
        /\ ~ LeavesID /\ LeavesEX => IsEmpty(slot'["EX"])
        /\ ~ LeavesID /\ ~ LeavesEX => slot'["EX"] = slot["EX"]
    BY <2>1, MovedFacts DEF IsEmpty
  <2>5. /\ LeavesIF => ~ IsEmpty(slot["IF"]) /\ (IsEmpty(slot["ID"]) \/ LeavesID)
        /\ LeavesID => ~ IsEmpty(slot["ID"])
    BY DEF LeavesIF, LeavesID, IsDone, IsEmpty
  <2>6. phase = "transfer" /\ InCycle /\ AfterWB /\ AfterMEM /\ AfterEX /\ AfterID /\ AfterIF
    BY <1>7 DEF Transfer, InCycle, AfterWB, AfterMEM, AfterEX, AfterID, AfterIF
  <2>7. LeavesIF => LeavesID \/ IsEmpty(slot'["EX"])
    <3>1. CASE OddCycle
      <4>1. /\ IsEmpty(slot["MEM"])
            /\ ~ IsEmpty(slot["EX"]) => slot["EX"].completed
        BY <1>0, <2>6, <3>1 DEF LockStep, DuringOdd
      <4>2. IsEmpty(slot["EX"]) \/ LeavesEX
        BY <4>1 DEF LeavesEX, IsDone, IsEmpty
      <4> QED
        BY <2>4, <4>2
    <3>2. CASE ~ OddCycle
      <4>1. ~ IsEmpty(slot["IF"]) => IsEmpty(slot["EX"])
        BY <1>0, <2>6, <3>2 DEF LockStep, DuringEven
      <4> QED
        BY <2>4, <2>5, <4>1
    <3> QED
      BY <3>1, <3>2
  <2>8. /\ ~ IsEmpty(slot'["IF"]) => PC' = slot'["IF"].reg.pc + 1
        /\ ~ IsEmpty(slot'["ID"]) =>
             (IF IsEmpty(slot'["IF"]) THEN PC' ELSE slot'["IF"].reg.pc) = slot'["ID"].reg.pc + 1
    BY <2>1, <2>2, <2>3, <2>5 DEF InOrder, IsEmpty
  <2>9. ~ IsEmpty(slot'["EX"]) /\ ~ IsEmpty(slot'["ID"]) =>
          slot'["ID"].reg.pc = slot'["EX"].reg.pc + 1
    <3>1. CASE LeavesIF
      BY <2>3, <2>4, <2>5, <2>7, <3>1 DEF InOrder, IsEmpty
    <3>2. CASE ~ LeavesIF
      BY <2>3, <2>4, <3>2 DEF InOrder, IsEmpty
    <3> QED
      BY <3>1, <3>2
  <2> QED
    BY <2>8, <2>9 DEF InOrder, IsEmpty
<1>8. CASE Finish
  BY <1>8, OrderFrame DEF Finish, cpuVars
<1>9. CASE UNCHANGED vars
  BY <1>9, OrderFrame DEF vars, cpuVars
<1> QED
  BY <1>1, <1>2, <1>3, <1>4, <1>5, <1>6, <1>7, <1>8, <1>9 DEF Next, Terminated

\* What is in IF, ID and EX comes from consecutive addresses up to PC: no flush
\* leaves a wrong-path instruction behind and no stall drops or repeats one.
THEOREM ProgramOrder == Spec => []InOrder
<1>1. Init => InOrder
  <2> SUFFICES ASSUME Init PROVE InOrder
    OBVIOUS
  <2>1. IsEmpty(slot["IF"]) /\ IsEmpty(slot["ID"]) /\ IsEmpty(slot["EX"])
    BY DEF Init, Stage, IsEmpty, EmptySlot, ZeroRegister
  <2> QED
    BY <2>1 DEF InOrder
<1>2. IInv /\ InOrder /\ [Next]_vars => InOrder'
  BY NextInOrder
<1> QED
  BY <1>1, <1>2, Invariance, PTL DEF Spec

\* Stage k holds the branch that PC follows.
RedirectedBy(k) ==
  /\ slot[k].reg.valid
  /\ slot[k].reg.opcode \in {OPCODE_JEQ, OPCODE_JMP}
  /\ PC = branch_target(slot[k].reg)

\* RedirectClean by stages.
LEMMA RedirectCleanIff ==
  RedirectClean <=>
    (wait_for_taken_branch_mem =>
       /\ IsEmpty(slot["IF"]) /\ IsEmpty(slot["ID"])
       /\ RedirectedBy("EX") \/ RedirectedBy("MEM"))
  BY DEF RedirectClean, RedirectedBy

\* The state in which a wait is clean is kept by a step that leaves IF, ID, EX, MEM
\* and PC alone.
LEMMA RedirectFrame ==
  ASSUME RedirectClean, PC' = PC,
         wait_for_taken_branch_mem' => wait_for_taken_branch_mem,
         \A k \in {"IF", "ID", "EX", "MEM"} : slot'[k] = slot[k]
  PROVE  RedirectClean'
<1>1. /\ slot'["IF"] = slot["IF"] /\ slot'["ID"] = slot["ID"]
      /\ slot'["EX"] = slot["EX"] /\ slot'["MEM"] = slot["MEM"]
  OBVIOUS
<1> QED
  BY <1>1 DEF RedirectClean, IsEmpty

\* The clean wait is kept by every step.
LEMMA NextRedirectClean == IInv /\ RedirectClean /\ [Next]_vars => RedirectClean'
<1> SUFFICES ASSUME IInv, RedirectClean, [Next]_vars PROVE RedirectClean'
  OBVIOUS
<1>0. TypeOK /\ LockStep
  BY DEF IInv
<1>1. CASE StartCycle
  <2>1. CASE wait_for_taken_branch_mem
    BY <1>1, <2>1, RedirectFrame DEF StartCycle, can_fetch_this_cycle
  <2>2. CASE ~ wait_for_taken_branch_mem
    BY <1>1, <2>2 DEF StartCycle, RedirectClean
  <2> QED
    BY <2>1, <2>2
<1>2. CASE TickWB
  BY <1>0, <1>2, RedirectFrame DEF TickWB, TypeOK, Stage
<1>3. CASE TickMEM
  <2> DEFINE reg == slot["MEM"].reg
  <2> SUFFICES ASSUME wait_for_taken_branch_mem' PROVE RedirectClean'
    BY DEF RedirectClean
  <2>1. wait_for_taken_branch_mem /\ PC' = PC
    BY <1>3 DEF TickMEM
  <2>2. /\ slot'["IF"] = slot["IF"] /\ slot'["ID"] = slot["ID"] /\ slot'["EX"] = slot["EX"]
        /\ slot'["MEM"] = Ticked("MEM", complete_mem_stage(reg))
    BY <1>0, <1>3 DEF TickMEM, TypeOK, Stage
  <2>3. reg.opcode \in {OPCODE_JEQ, OPCODE_JMP} => slot'["MEM"].reg = reg
    <3>1. reg \in PipelineRegister /\ complete_mem_stage(reg) \in PipelineRegister
      BY <1>0, SlotType, CompleteMemFacts DEF Stage
    <3>2. reg.opcode \in {OPCODE_JEQ, OPCODE_JMP} => complete_mem_stage(reg) = reg
      BY DEF complete_mem_stage, OPCODE_JEQ, OPCODE_JMP, OPCODE_MOVR
    <3> QED
      BY <1>0, <2>2, <3>1, <3>2, TickedFacts DEF Stage
  <2> QED
    BY <2>1, <2>2, <2>3 DEF RedirectClean, IsEmpty
<1>4. CASE TickEX
  <2> DEFINE reg   == slot["EX"].reg
             c     == complete_ex_stage(reg)
             taken == Completes("EX") /\ branch_taken(reg)
  <2>1. /\ slot'["MEM"] = slot["MEM"] /\ slot'["EX"] = Ticked("EX", c)
    BY <1>0, <1>4 DEF TickEX, TypeOK, Stage, flushPipeline
  <2>2. /\ reg \in PipelineRegister /\ c \in PipelineRegister
        /\ c.valid = reg.valid /\ c.opcode = reg.opcode
    BY <1>0, SlotType, CompleteExFacts DEF Stage
  <2>3. reg.opcode \in {OPCODE_JEQ, OPCODE_JMP} => branch_target(c) = branch_target(reg)
    BY <2>2, CompleteExTarget
  <2> HIDE DEF c
  <2>4. slot'["EX"].reg = IF Completes("EX") THEN c ELSE reg
    BY <1>0, <2>1, <2>2, TickedFacts DEF Stage
  <2>5. CASE taken
    <3>1. /\ IsEmpty(slot'["IF"]) /\ IsEmpty(slot'["ID"])
          /\ PC' = branch_target(reg)
      BY <1>0, <1>4, <2>5 DEF TickEX, TypeOK, Stage, flushPipeline, IsEmpty, EmptySlot, ZeroRegister
    <3>2. reg.valid /\ reg.opcode \in {OPCODE_JEQ, OPCODE_JMP}
      BY <2>5 DEF Completes, Ticks, IsEmpty, branch_taken
    <3>3. RedirectedBy("EX")'
      BY <2>2, <2>3, <2>4, <2>5, <3>1, <3>2 DEF RedirectedBy
    <3> QED
      BY <3>1, <3>3 DEF RedirectClean, RedirectedBy
  <2>6. CASE ~ taken
    <3>1. /\ slot'["IF"] = slot["IF"] /\ slot'["ID"] = slot["ID"] /\ PC' = PC
          /\ wait_for_taken_branch_mem' => wait_for_taken_branch_mem
      BY <1>0, <1>4, <2>6 DEF TickEX, TypeOK, Stage
    <3>2. RedirectedBy("EX") => RedirectedBy("EX")'
      BY <2>2, <2>3, <2>4, <3>1 DEF RedirectedBy
    <3>3. RedirectedBy("MEM") => RedirectedBy("MEM")'
      BY <2>1, <3>1 DEF RedirectedBy
    <3> QED
      BY <3>1, <3>2, <3>3 DEF RedirectClean, RedirectedBy, IsEmpty
  <2> QED
    BY <2>5, <2>6
<1>5. CASE TickID
  <2>1. /\ slot'["IF"] = slot["IF"] /\ slot'["EX"] = slot["EX"] /\ slot'["MEM"] = slot["MEM"]
        /\ slot'["ID"] = Ticked("ID", latch_decode_operands(slot["ID"].reg))
        /\ PC' = PC /\ wait_for_taken_branch_mem' = wait_for_taken_branch_mem
    BY <1>0, <1>5 DEF TickID, TypeOK, Stage, cpuVars
  <2>2. IsEmpty(slot["ID"]) => slot'["ID"] = slot["ID"]
    BY <2>1 DEF Ticked, Completes, Ticks
  <2> QED
    BY <2>1, <2>2 DEF RedirectClean, IsEmpty
<1>6. CASE TickIF
  <2>1. /\ slot'["ID"] = slot["ID"] /\ slot'["EX"] = slot["EX"] /\ slot'["MEM"] = slot["MEM"]
        /\ slot'["IF"] = Ticked("IF", slot["IF"].reg)
        /\ PC' = PC /\ wait_for_taken_branch_mem' = wait_for_taken_branch_mem
    BY <1>0, <1>6 DEF TickIF, TypeOK, Stage, cpuVars
  <2>2. IsEmpty(slot["IF"]) => slot'["IF"] = slot["IF"]
    BY <2>1 DEF Ticked, Completes, Ticks
  <2> QED
    BY <2>1, <2>2 DEF RedirectClean, IsEmpty
<1>7. CASE Transfer
  <2>1. PC' = PC /\ wait_for_taken_branch_mem' = wait_for_taken_branch_mem
    BY <1>7 DEF Transfer, cpuVars
  <2> SUFFICES ASSUME wait_for_taken_branch_mem PROVE RedirectClean'
    BY <2>1 DEF RedirectClean
  <2>2. /\ IsEmpty(slot["IF"]) /\ IsEmpty(slot["ID"])
        /\ RedirectedBy("EX") \/ RedirectedBy("MEM")
    BY RedirectCleanIff
  <2>3. IsEmpty(slot["MEM"])
    <3>1. InCycle /\ AfterMEM
      BY <1>7 DEF Transfer, InCycle, AfterMEM
    <3> QED
      BY <1>0, <3>1 DEF LockStep, DuringOdd, DuringEven
  <2>4. RedirectedBy("EX")
    BY <2>2, <2>3 DEF RedirectedBy, IsEmpty
  <2>5. ~ LeavesIF /\ ~ LeavesID
    BY <2>2 DEF LeavesIF, LeavesID, IsDone, IsEmpty
  <2>6. /\ slot'["IF"] = slot["IF"] /\ slot'["ID"] = slot["ID"]
        /\ slot'["EX"] = Moved("EX", LeavesID, "ID", EX_CYCLES, LeavesEX)
        /\ slot'["MEM"] = Moved("MEM", LeavesEX, "EX", MEM_CYCLES, LeavesMEM)
    BY <1>0, <1>7, <2>5 DEF Transfer, TypeOK, Stage, Moved
  <2>7. /\ LeavesEX => slot'["MEM"].reg = slot["EX"].reg
        /\ ~ LeavesEX => slot'["EX"] = slot["EX"]
    BY <2>5, <2>6, MovedFacts
  <2>8. RedirectedBy("EX")' \/ RedirectedBy("MEM")'
    BY <2>1, <2>4, <2>7 DEF RedirectedBy
  <2> QED
    BY <2>2, <2>6, <2>8 DEF RedirectClean, RedirectedBy, IsEmpty
<1>8. CASE Finish
  BY <1>8, RedirectFrame DEF Finish, cpuVars
<1>9. CASE UNCHANGED vars
  BY <1>9, RedirectFrame DEF vars, cpuVars
<1> QED
  BY <1>1, <1>2, <1>3, <1>4, <1>5, <1>6, <1>7, <1>8, <1>9 DEF Next, Terminated

\* While a taken branch is outstanding nothing younger is in the pipeline and PC
\* keeps its target.
THEOREM RedirectIsClean == Spec => []RedirectClean
<1>1. Init => RedirectClean
  BY DEF Init, RedirectClean
<1>2. IInv /\ RedirectClean /\ [Next]_vars => RedirectClean'
  BY NextRedirectClean
<1> QED
  BY <1>1, <1>2, Invariance, PTL DEF Spec

\* PC stays within instruction memory or one behind its end, for every immediate
\* and every jump address.
THEOREM PCStaysInRange == Spec => []PCInRange
<1>1. Init => PCInRange
  BY MemoryAssumption DEF Init, PCInRange
<1>2. TypeOK /\ PCInRange /\ [Next]_vars => PCInRange'
  <2> SUFFICES ASSUME TypeOK, PCInRange, [Next]_vars PROVE PCInRange'
    OBVIOUS
  <2>0. PC \in Nat /\ instructionCount \in 0 .. INSTRUCTION_MEMORY_SIZE
    BY DEF TypeOK
  <2>1. CASE StartCycle
    <3>1. PC' = PC \/ (PC < instructionCount /\ PC' = PC + 1)
      BY <2>1 DEF StartCycle, fetch_into_if, can_fetch_this_cycle
    <3> QED
      BY <2>0, <3>1, MemoryAssumption DEF PCInRange
  <2>2. CASE TickEX
    <3> DEFINE reg == slot["EX"].reg
    <3>1. reg \in PipelineRegister
      BY SlotType DEF Stage
    <3>2. PC' = PC \/ (branch_taken(reg) /\ PC' = branch_target(reg))
      BY <2>2 DEF TickEX
    <3>3. branch_taken(reg) => branch_target(reg) \in 0 .. INSTRUCTION_MEMORY_SIZE - 1
      BY <3>1, TargetType
    <3> QED
      BY <3>2, <3>3, MemoryAssumption DEF PCInRange
  <2>3. CASE ~ StartCycle /\ ~ TickEX
    <3>1. PC' = PC
      BY <2>3 DEF Next, TickWB, TickMEM, TickID, TickIF, Transfer, Finish, Terminated,
                  vars, cpuVars
    <3> QED
      BY <3>1 DEF PCInRange
  <2> QED
    BY <2>1, <2>2, <2>3
<1> QED
  BY <1>1, <1>2, TypeCorrect, PTL DEF Spec

=============================================================================
