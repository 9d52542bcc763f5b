--------------------------- MODULE RefinementProofs ------------------------
(***************************************************************************)
(* The pipeline implements the sequential machine: Spec => ISA!Spec for    *)
(* every register count, word width, memory size, program set and cycle    *)
(* bound.  The proof rests on the invariant of module RefinementInv.       *)
(***************************************************************************)
EXTENDS RefinementInv, PipelineProofs

-----------------------------------------------------------------------------
(* What is in WB, MEM and EX, as a writer of registers.                    *)

\* An empty stage writes nothing.
LEMMA WbEmpty ==
  ASSUME NEW regs, NEW reg, ~ reg.valid PROVE complete_wb_stage(regs, reg) = regs
  BY DEF complete_wb_stage, instruction_writes_register

\* After WB a register holds what the instruction carried, if it is its
\* destination, and else what it held.
LEMMA WbReads ==
  ASSUME NEW regs \in [Register -> Int32], NEW reg \in PipelineRegister, NEW r \in Register
  PROVE  readRegister(complete_wb_stage(regs, reg), r) =
           IF r # 0 /\ destination_register(reg) = r THEN Carried(reg)
                                                     ELSE readRegister(regs, r)
<1>1. reg.r1 \in Register
  BY DEF PipelineRegister
<1>2. r # -1
  BY LayoutAssumption DEF Register
<1> QED
  BY <1>1, <1>2 DEF complete_wb_stage, destination_register, readRegister, writeRegister

\* Writing the same register again changes nothing.
LEMMA WbTwice ==
  ASSUME NEW regs \in [Register -> Int32], NEW reg \in PipelineRegister
  PROVE  complete_wb_stage(complete_wb_stage(regs, reg), reg) = complete_wb_stage(regs, reg)
<1>1. reg.r1 \in Register
  BY DEF PipelineRegister
<1> QED
  BY <1>1 DEF complete_wb_stage, writeRegister

\* The views of the register file are register files.
LEMMA RegsType ==
  ASSUME TypeOK
  PROVE  /\ RegsAfterWB \in [Register -> Int32]
         /\ RegsAfterMEM \in [Register -> Int32]
         /\ RegsAfterEX \in [Register -> Int32]
<1>1. registers \in [Register -> Int32]
  BY DEF TypeOK
<1>2. /\ slot["WB"].reg \in PipelineRegister /\ slot["MEM"].reg \in PipelineRegister
      /\ slot["EX"].reg \in PipelineRegister
  BY SlotType DEF Stage
<1>3. RegsAfterWB \in [Register -> Int32]
  BY <1>1, <1>2, CompleteWbType DEF RegsAfterWB
<1>4. RegsAfterMEM \in [Register -> Int32]
  BY <1>2, <1>3, CompleteWbType DEF RegsAfterMEM
<1> QED
  BY <1>2, <1>3, <1>4, CompleteWbType DEF RegsAfterEX

-----------------------------------------------------------------------------
(* Latched and executed instructions.                                      *)

\* Decoding depends on the address and the raw word.
LEMMA DecodedDepends ==
  ASSUME NEW reg1, NEW reg2, reg1.pc = reg2.pc, reg1.rawInstruction = reg2.rawInstruction,
         reg1.valid, reg2.valid
  PROVE  Decoded(reg1) = Decoded(reg2)
  BY DEF Decoded

\* The operands matter for the registers the instruction reads only.
LEMMA OperandsSame ==
  ASSUME NEW reg \in PipelineRegister, reg.valid, NEW regs1, NEW regs2,
         OperandsFrom(reg, regs1),
         \A r \in Register : instruction_reads_register(reg, r) =>
                               readRegister(regs2, r) = readRegister(regs1, r)
  PROVE  OperandsFrom(reg, regs2)
<1>1. reg.r1 \in Register /\ reg.r2 \in Register /\ reg.r3 \in Register
  BY DEF PipelineRegister
<1>2. readRegister(regs1, 0) = 0 /\ readRegister(regs2, 0) = 0
  BY DEF readRegister
<1>3. ASSUME NEW r \in {reg.r1, reg.r2, reg.r3}, r = 0 \/ instruction_reads_register(reg, r)
      PROVE  readRegister(regs2, r) = readRegister(regs1, r)
  BY <1>1, <1>2, <1>3
<1>4. reg.opcode \in ReadsR2R3 =>
        /\ readRegister(regs2, reg.r2) = readRegister(regs1, reg.r2)
        /\ readRegister(regs2, reg.r3) = readRegister(regs1, reg.r3)
  BY <1>3 DEF instruction_reads_register
<1>5. reg.opcode \in ReadsR1R2 =>
        /\ readRegister(regs2, reg.r1) = readRegister(regs1, reg.r1)
        /\ readRegister(regs2, reg.r2) = readRegister(regs1, reg.r2)
  BY <1>3 DEF instruction_reads_register
<1>6. reg.opcode \in ReadsR2 => readRegister(regs2, reg.r2) = readRegister(regs1, reg.r2)
  BY <1>3 DEF instruction_reads_register
<1> QED
  BY <1>4, <1>5, <1>6 DEF OperandsFrom, ReadsR1R2

\* read_operand_with_forwarding gives the value that the instructions ahead leave,
\* when MEM is empty and EX is done with no load of that register.
LEMMA ForwardedValue ==
  ASSUME TypeOK, IsEmpty(slot["MEM"]), ~ IsEmpty(slot["EX"]) => slot["EX"].completed,
         NEW r \in Register,
         r # 0 /\ slot["EX"].reg.opcode = OPCODE_MOVR => destination_register(slot["EX"].reg) # r
  PROVE  read_operand_with_forwarding(r) = readRegister(RegsAfterEX, r)
<1> DEFINE ex == slot["EX"].reg
           wb == slot["WB"].reg
<1>1. registers \in [Register -> Int32] /\ ex \in PipelineRegister /\ wb \in PipelineRegister
  BY SlotType DEF TypeOK, Stage
<1>2. RegsAfterMEM = RegsAfterWB
  BY WbEmpty DEF RegsAfterMEM, IsEmpty
<1>3. readRegister(RegsAfterWB, r) =
        IF r # 0 /\ destination_register(wb) = r THEN Carried(wb) ELSE readRegister(registers, r)
  BY <1>1, WbReads DEF RegsAfterWB
<1>4. readRegister(RegsAfterEX, r) =
        IF r # 0 /\ destination_register(ex) = r THEN Carried(ex)
                                                 ELSE readRegister(RegsAfterWB, r)
  BY <1>1, <1>2, RegsType, WbReads DEF RegsAfterEX
<1>5. r # -1
  BY LayoutAssumption DEF Register
<1>6. destination_register(ex) = r /\ r # 0 => ForwardsFromEX(r) /\ Carried(ex) = ex.aluResult
  BY <1>5 DEF ForwardsFromEX, Carried, destination_register, instruction_writes_register, IsEmpty
<1>7. ForwardsFromEX(r) => destination_register(ex) = r
  BY DEF ForwardsFromEX
<1>8. destination_register(slot["MEM"].reg) # r
  BY <1>5 DEF destination_register, instruction_writes_register, IsEmpty
<1>9. readRegister(RegsAfterEX, 0) = 0
  BY DEF readRegister
<1> QED
  BY <1>3, <1>4, <1>6, <1>7, <1>8, <1>9 DEF read_operand_with_forwarding

\* What ID latches: the decoded instruction with the operands that the
\* instructions ahead leave, when the load-use hazard is excluded.
LEMMA LatchedOperands ==
  ASSUME TypeOK, IsEmpty(slot["MEM"]), ~ IsEmpty(slot["EX"]) => slot["EX"].completed,
         NEW reg \in PipelineRegister, Decoded(reg).valid,
         slot["EX"].reg.opcode = OPCODE_MOVR =>
           ~ instruction_reads_register(Decoded(reg), destination_register(slot["EX"].reg))
  PROVE  LET l == latch_decode_operands(reg)
         IN  IsLatched(l) /\ OperandsFrom(l, RegsAfterEX)
<1> DEFINE d == Decoded(reg)
           l == latch_decode_operands(reg)
           Read(r) == read_operand_with_forwarding(r)
           Value(r) == readRegister(RegsAfterEX, r)
<1>1. d \in PipelineRegister /\ d.valid
  BY DecodedType
<1>2. reg.valid
  BY DEF Decoded
<1>3. d.r1 \in Register /\ d.r2 \in Register /\ d.r3 \in Register
  BY <1>1 DEF PipelineRegister
<1>4. ASSUME NEW r \in Register, r # 0 => instruction_reads_register(d, r)
      PROVE  Read(r) = Value(r)
  BY <1>4, ForwardedValue
<1>5. l = CASE d.opcode \in ReadsR2R3 -> [d EXCEPT !.operand1 = Read(d.r2), !.operand2 = Read(d.r3)]
            [] d.opcode = OPCODE_JEQ  -> [d EXCEPT !.operand1 = Read(d.r1), !.operand2 = Read(d.r2)]
            [] d.opcode \in ReadsR2 \cup {OPCODE_MOVM} ->
                 [d EXCEPT !.operand1 = Read(d.r2), !.operand2 = Read(d.r1)]
            [] d.opcode = OPCODE_MOVI -> [d EXCEPT !.operand1 = 0, !.operand2 = d.immediate]
            [] OTHER                  -> d
  BY DEF latch_decode_operands
<1>6. PICK a, b \in Int32 : l = [d EXCEPT !.operand1 = a, !.operand2 = b]
  BY LatchShape
<1>7. /\ l.valid = d.valid /\ l.opcode = d.opcode /\ l.pc = d.pc
      /\ l.rawInstruction = d.rawInstruction
      /\ l.r1 = d.r1 /\ l.r2 = d.r2 /\ l.r3 = d.r3 /\ l.immediate = d.immediate
      /\ l.operand1 = a /\ l.operand2 = b
  <2> HIDE DEF d, l
  <2> QED
    BY <1>1, <1>6 DEF PipelineRegister
<1>8. IsLatched(l)
  <2>1. d.pc = reg.pc /\ d.rawInstruction = reg.rawInstruction
    BY DEF Decoded
  <2>2. Decoded(l) = d
    <3> HIDE DEF l
    <3> QED
      BY <1>1, <1>2, <1>7, <2>1, DecodedDepends
  <2> QED
    BY <1>6, <1>7, <2>2 DEF IsLatched, WithOperands
<1>9. OperandsFrom(l, RegsAfterEX)
  <2>1. /\ d.opcode \in ReadsR2R3 => l.operand1 = Read(d.r2) /\ l.operand2 = Read(d.r3)
        /\ d.opcode = OPCODE_JEQ => l.operand1 = Read(d.r1) /\ l.operand2 = Read(d.r2)
        /\ d.opcode = OPCODE_MOVM => l.operand1 = Read(d.r2) /\ l.operand2 = Read(d.r1)
        /\ d.opcode \in ReadsR2 => l.operand1 = Read(d.r2)
        /\ d.opcode = OPCODE_MOVI => l.operand2 = d.immediate
    <3> HIDE DEF d, l, Read
    <3> QED
      BY <1>1, <1>5
         DEF PipelineRegister, ReadsR2R3, ReadsR2, OPCODE_ADD, OPCODE_SUB, OPCODE_MUL, OPCODE_AND,
             OPCODE_ORI, OPCODE_LSL, OPCODE_LSR, OPCODE_MOVR, OPCODE_MOVM, OPCODE_JEQ, OPCODE_MOVI
  <2>2. /\ d.opcode \in ReadsR2R3 => Read(d.r2) = Value(d.r2) /\ Read(d.r3) = Value(d.r3)
        /\ d.opcode \in ReadsR1R2 => Read(d.r1) = Value(d.r1) /\ Read(d.r2) = Value(d.r2)
        /\ d.opcode \in ReadsR2 => Read(d.r2) = Value(d.r2)
    <3> HIDE DEF d, Read, Value
    <3> QED
      BY <1>1, <1>3, <1>4 DEF instruction_reads_register
  <2> HIDE DEF d, l, Read
  <2> QED
    BY <1>7, <2>1, <2>2 DEF OperandsFrom, ReadsR1R2
<1> QED
  BY <1>8, <1>9

\* Completing EX turns a latched instruction into an executed one, with the same
\* operands and the same successor.
LEMMA ExecutedOperands ==
  ASSUME NEW reg \in PipelineRegister, reg.valid, IsLatched(reg), NEW regs,
         OperandsFrom(reg, regs)
  PROVE  LET c == complete_ex_stage(reg)
         IN  IsExecuted(c) /\ OperandsFrom(c, regs) /\ NextPC(c) = NextPC(reg)
<1> DEFINE c == complete_ex_stage(reg)
<1>1. /\ c.valid = reg.valid /\ c.pc = reg.pc /\ c.rawInstruction = reg.rawInstruction
      /\ c.opcode = reg.opcode /\ c.r1 = reg.r1 /\ c.r2 = reg.r2 /\ c.r3 = reg.r3
      /\ c.immediate = reg.immediate /\ c.operand1 = reg.operand1 /\ c.operand2 = reg.operand2
  BY CompleteExFacts
<1>2. IsExecuted(c)
  <2>1. Decoded(c) = Decoded(reg)
    <3> HIDE DEF c
    <3> QED
      BY <1>1, DecodedDepends
  <2>2. WithOperands(c) = reg
    <3> HIDE DEF c
    <3> QED
      BY <1>1, <2>1 DEF IsLatched, WithOperands
  <2> QED
    BY <2>2 DEF IsExecuted
<1>3. OperandsFrom(c, regs)
  <2> HIDE DEF c
  <2> QED
    BY <1>1 DEF OperandsFrom
<1>4. NextPC(c) = NextPC(reg)
  <2>1. reg.opcode \in {OPCODE_JEQ, OPCODE_JMP} => branch_target(c) = branch_target(reg)
    BY CompleteExTarget
  <2> HIDE DEF c
  <2> QED
    BY <1>1, <2>1 DEF NextPC, branch_taken
<1> QED
  BY <1>2, <1>3, <1>4

-----------------------------------------------------------------------------
(* Fetched instructions.                                                   *)

\* No step changes what can be fetched.
LEMMA FetchFrame ==
  ASSUME TypeOK, [Next]_vars
  PROVE  /\ instructionCount' = instructionCount
         /\ \A a \in Nat : memory_fetch_instruction(memory', a) = memory_fetch_instruction(memory, a)
<1>1. \A a \in 0 .. INSTRUCTION_MEMORY_SIZE - 1 : memory'[a] = memory[a]
  <2>1. CASE TickMEM
    <3> DEFINE reg == slot["MEM"].reg
    <3>1. reg \in PipelineRegister
      BY SlotType DEF Stage
    <3>2. reg.address \in Int32 /\ reg.memoryData \in Int32
      BY <3>1 DEF PipelineRegister
    <3>3. reg.address \in Int
      BY <3>2, Int32Facts
    <3>4. \A a \in 0 .. INSTRUCTION_MEMORY_SIZE - 1 :
            writeMemory(memory, reg.address, reg.memoryData)[a] = memory[a]
      BY <3>2, <3>3, WriteMemoryType DEF TypeOK
    <3> QED
      BY <2>1, <3>4 DEF TickMEM
  <2>2. CASE ~ TickMEM
    BY <2>2 DEF Next, StartCycle, fetch_into_if, TickWB, TickEX, TickID, TickIF, Transfer,
                Finish, Terminated, vars, cpuVars
  <2> QED
    BY <2>1, <2>2
<1>2. ASSUME NEW a \in Nat
      PROVE  memory_fetch_instruction(memory', a) = memory_fetch_instruction(memory, a)
  BY <1>1, MemoryAssumption DEF memory_fetch_instruction, is_instruction_address
<1>3. instructionCount' = instructionCount
  BY DEF Next, StartCycle, TickWB, TickMEM, TickEX, TickID, TickIF, Transfer,
         Finish, Terminated, vars, cpuVars
<1> QED
  BY <1>2, <1>3

\* The loaded words stay valid.
LEMMA WordsStayValid == TypeOK /\ WordsValid /\ [Next]_vars => WordsValid'
<1> SUFFICES ASSUME TypeOK, WordsValid, [Next]_vars PROVE WordsValid'
  OBVIOUS
<1>1. ProgramAddress' = ProgramAddress
  BY FetchFrame DEF ProgramAddress
<1>2. ASSUME NEW a \in ProgramAddress
      PROVE  DecodeFields(memory_fetch_instruction(memory', a)).valid
  <2>1. a \in Nat
    BY DEF ProgramAddress, TypeOK
  <2> QED
    BY <2>1, FetchFrame DEF WordsValid
<1> QED
  BY <1>1, <1>2 DEF WordsValid

\* An instruction that was fetched from its address still is, wherever it moves.
LEMMA StaysFetched ==
  ASSUME TypeOK, [Next]_vars, NEW k \in Stage, NEW from \in Stage, FetchedFrom(slot[from].reg),
         slot'[k].reg.pc = slot[from].reg.pc,
         slot'[k].reg.rawInstruction = slot[from].reg.rawInstruction
  PROVE  FetchedFrom(slot[k].reg)'
<1>1. slot[from].reg.pc \in Nat
  BY SlotType DEF PipelineRegister
<1> QED
  BY <1>1, FetchFrame DEF FetchedFrom

\* Decoding such an instruction succeeds.
LEMMA FetchedDecodes ==
  ASSUME TypeOK, WordsValid, NEW reg \in PipelineRegister, reg.valid, FetchedFrom(reg)
  PROVE  Decoded(reg).valid
<1>1. reg.pc \in ProgramAddress
  BY DEF FetchedFrom, ProgramAddress, PipelineRegister, TypeOK
<1> QED
  BY <1>1 DEF WordsValid, FetchedFrom, Decoded

\* All slots at once: a step that only moves instructions on keeps them fetched.
LEMMA SlotsStayFetched ==
  ASSUME TypeOK, [Next]_vars, SlotsFetched,
         \A k \in {"IF", "ID", "EX", "MEM"} : slot'[k].reg.valid =>
           \E from \in {"IF", "ID", "EX", "MEM"} :
             /\ slot[from].reg.valid
             /\ slot'[k].reg.pc = slot[from].reg.pc
             /\ slot'[k].reg.rawInstruction = slot[from].reg.rawInstruction
  PROVE  SlotsFetched'
<1> SUFFICES ASSUME NEW k \in {"IF", "ID", "EX", "MEM"}, slot'[k].reg.valid
             PROVE  FetchedFrom(slot[k].reg)'
  BY DEF SlotsFetched, IsEmpty
<1>1. PICK from \in {"IF", "ID", "EX", "MEM"} :
        /\ slot[from].reg.valid
        /\ slot'[k].reg.pc = slot[from].reg.pc
        /\ slot'[k].reg.rawInstruction = slot[from].reg.rawInstruction
  OBVIOUS
<1>2. FetchedFrom(slot[from].reg)
  BY <1>1 DEF SlotsFetched, IsEmpty
<1> QED
  BY <1>1, <1>2, StaysFetched DEF Stage

-----------------------------------------------------------------------------
(* The invariant in the initial state and under each action.               *)

\* A fetch from a freshly loaded memory gives the words of the program.
LEMMA LoadedWords ==
  ASSUME Init
  PROVE  \E program \in Programs :
           \A a \in ProgramAddress :
             /\ a + 1 \in 1 .. Len(program)
             /\ memory_fetch_instruction(memory, a) = program[a + 1]
<1>1. PICK program \in Programs : memory = LoadedMemory(program) /\ instructionCount = Len(program)
  BY DEF Init
<1>2. /\ program \in Seq(RawWord) /\ Len(program) \in Nat
      /\ Len(program) <= INSTRUCTION_MEMORY_SIZE
  BY ProgramsAssumption
<1>3. ASSUME NEW a \in ProgramAddress
      PROVE  /\ a + 1 \in 1 .. Len(program)
             /\ memory_fetch_instruction(memory, a) = program[a + 1]
  <2>1. a \in Nat /\ a < Len(program) /\ a + 1 \in 1 .. Len(program)
    BY <1>1, <1>2 DEF ProgramAddress
  <2>2. a \in Address /\ is_instruction_address(a)
    BY <1>2, <2>1, MemoryAssumption DEF Address, is_instruction_address
  <2>3. memory_fetch_instruction(memory, a) = ToUint32(ToInt32(program[a + 1]))
    BY <1>1, <2>1, <2>2 DEF memory_fetch_instruction, LoadedMemory
  <2>4. program[a + 1] \in RawWord
    BY <1>2, <2>1
  <2> QED
    BY <2>1, <2>3, <2>4, WordRoundTrip
<1> QED
  BY <1>3

\* A freshly loaded program has decodable words only, and nothing is under way.
LEMMA InitRefinementInvariant == Init => RefinementInvariant
<1> SUFFICES ASSUME Init PROVE RefinementInvariant
  OBVIOUS
<1>1. PICK program \in Programs :
        \A a \in ProgramAddress :
          /\ a + 1 \in 1 .. Len(program)
          /\ memory_fetch_instruction(memory, a) = program[a + 1]
  BY LoadedWords
<1>2. \A a \in 1 .. Len(program) : DecodeFields(program[a]).valid
  BY ProgramsAssumption
<1>3. ASSUME NEW a \in ProgramAddress
      PROVE  DecodeFields(memory_fetch_instruction(memory, a)).valid
  BY <1>1, <1>2
<1>4. \A k \in Stage : IsEmpty(slot[k])
  BY DEF Init, IsEmpty, EmptySlot, ZeroRegister
<1>5. /\ IsEmpty(slot["IF"]) /\ IsEmpty(slot["ID"]) /\ IsEmpty(slot["EX"])
      /\ IsEmpty(slot["MEM"]) /\ IsEmpty(slot["WB"])
  BY <1>4 DEF Stage
<1>6. Contents
  BY <1>5 DEF Contents, SlotsFetched, InIDHolds, InEXHolds, InMEMHolds, WrittenBack,
              LoadDistance, IsDone, IsEmpty
<1>7. Flow
  BY <1>5 DEF Flow
<1> QED
  BY <1>3, <1>6, <1>7 DEF RefinementInvariant, WordsValid

\* The contents of ID, EX, MEM and WB under a step that leaves these stages and the
\* register file alone.
LEMMA ContentsFrame ==
  ASSUME Contents, registers' = registers,
         slot'["ID"] = slot["ID"], slot'["EX"] = slot["EX"],
         slot'["MEM"] = slot["MEM"], slot'["WB"] = slot["WB"], SlotsFetched'
  PROVE  /\ Contents'
         /\ RegsAfterWB' = RegsAfterWB /\ RegsAfterMEM' = RegsAfterMEM
<1>1. /\ RegsAfterWB' = RegsAfterWB
      /\ RegsAfterMEM' = RegsAfterMEM
      /\ RegsAfterEX' = RegsAfterEX
  BY DEF RegsAfterWB, RegsAfterMEM, RegsAfterEX
<1> QED
  BY <1>1 DEF Contents, InIDHolds, InEXHolds, InMEMHolds, WrittenBack, LoadDistance,
              IsDone, IsEmpty

\* A fetch takes the word at PC, which then follows the instructions in the pipeline.
LEMMA StartCycleRefinement ==
  ASSUME IInv, RefinementInvariant, StartCycle PROVE Contents' /\ Flow' /\ FrontEX' = FrontEX
<1>0. TypeOK /\ Contents /\ Flow /\ [Next]_vars
  BY DEF IInv, RefinementInvariant, Next
<1>1. /\ slot'["ID"] = slot["ID"] /\ slot'["EX"] = slot["EX"]
      /\ slot'["MEM"] = slot["MEM"] /\ slot'["WB"] = slot["WB"]
      /\ registers' = registers /\ memory' = memory /\ instructionCount' = instructionCount
  BY <1>0 DEF StartCycle, fetch_into_if, TypeOK, Stage
<1>2. CASE can_fetch_this_cycle(cycle + 1)
  <2>1. /\ PC < instructionCount /\ IsEmpty(slot["IF"])
        /\ slot'["IF"] = SlotWith(FetchedRegister, IF_CYCLES) /\ PC' = PC + 1
    BY <1>0, <1>2 DEF StartCycle, fetch_into_if, can_fetch_this_cycle, TypeOK, Stage
  <2>2. /\ slot'["IF"].reg.valid /\ slot'["IF"].reg.pc = PC
        /\ slot'["IF"].reg.rawInstruction = memory_fetch_instruction(memory, PC)
    <3>1. slot'["IF"].reg = FetchedRegister
      BY <2>1 DEF SlotWith
    <3>2. /\ FetchedRegister.valid /\ FetchedRegister.pc = PC
          /\ FetchedRegister.rawInstruction = memory_fetch_instruction(memory, PC)
      BY DEF FetchedRegister, ZeroRegister
    <3> QED
      BY <3>1, <3>2
  <2>3. FetchedFrom(slot["IF"].reg)'
    BY <1>1, <2>1, <2>2 DEF FetchedFrom
  <2>4. SlotsFetched'
    BY <1>0, <1>1, <2>3 DEF SlotsFetched, FetchedFrom, Contents, IsEmpty
  <2>5. FrontIF' = FrontIF /\ FrontID' = FrontID /\ FrontEX' = FrontEX
    BY <1>1, <2>1, <2>2 DEF FrontIF, FrontID, FrontEX, IsEmpty
  <2> QED
    BY <1>0, <1>1, <2>1, <2>2, <2>4, <2>5, ContentsFrame DEF Flow, IsEmpty
<1>3. CASE ~ can_fetch_this_cycle(cycle + 1)
  <2>1. slot' = slot /\ PC' = PC
    BY <1>3 DEF StartCycle
  <2>2. SlotsFetched' /\ Flow' /\ FrontEX' = FrontEX
    BY <1>0, <1>1, <2>1 DEF SlotsFetched, FetchedFrom, Contents, IsEmpty, Flow, FrontIF, FrontID, FrontEX
  <2> QED
    BY <1>0, <1>1, <2>2, ContentsFrame
<1> QED
  BY <1>2, <1>3

\* WB writes what the view of the register file after WB already showed.
LEMMA TickWBRefinement ==
  ASSUME IInv, RefinementInvariant, TickWB PROVE Contents' /\ Flow' /\ RegsAfterWB' = RegsAfterWB
<1>0. TypeOK /\ Contents /\ Flow /\ [Next]_vars
  BY DEF IInv, RefinementInvariant, Next
<1> DEFINE reg == slot["WB"].reg
<1>1. /\ slot'["IF"] = slot["IF"] /\ slot'["ID"] = slot["ID"]
      /\ slot'["EX"] = slot["EX"] /\ slot'["MEM"] = slot["MEM"]
      /\ slot'["WB"] = Ticked("WB", reg) /\ PC' = PC
      /\ registers' = IF Completes("WB") THEN complete_wb_stage(registers, reg) ELSE registers
  BY <1>0 DEF TickWB, TypeOK, Stage
<1>2. reg \in PipelineRegister /\ registers \in [Register -> Int32]
  BY <1>0, SlotType DEF Stage, TypeOK
<1>3. /\ slot'["WB"].reg = reg
      /\ ~ Completes("WB") => slot'["WB"].completed = slot["WB"].completed
  BY <1>0, <1>1, <1>2, TickedFacts DEF Stage
<1>4. RegsAfterWB' = complete_wb_stage(registers', reg)
  BY <1>3 DEF RegsAfterWB
<1>5. /\ RegsAfterWB' = RegsAfterWB
      /\ Completes("WB") => registers' = RegsAfterWB
  BY <1>1, <1>2, <1>4, WbTwice DEF RegsAfterWB
<1>6. RegsAfterMEM' = RegsAfterMEM /\ RegsAfterEX' = RegsAfterEX
  BY <1>1, <1>5 DEF RegsAfterMEM, RegsAfterEX
<1>7. WrittenBack'
  BY <1>0, <1>1, <1>3, <1>5 DEF Contents, WrittenBack, IsDone
<1>8. SlotsFetched'
  BY <1>0, <1>1, SlotsStayFetched DEF Contents
<1>9. InIDHolds' /\ InEXHolds' /\ InMEMHolds' /\ LoadDistance'
  BY <1>0, <1>1, <1>5, <1>6
     DEF Contents, InIDHolds, InEXHolds, InMEMHolds, LoadDistance, IsDone, IsEmpty
<1>10. Flow'
  BY <1>0, <1>1 DEF Flow, FrontIF, FrontID, FrontEX, IsEmpty
<1> QED
  BY <1>5, <1>7, <1>8, <1>9, <1>10 DEF Contents

\* What the tick of MEM finds: only in even cycles an instruction, which then
\* completes, with WB empty and ID not done.
LEMMA AtTickMEM ==
  ASSUME IInv, TickMEM, ~ IsEmpty(slot["MEM"])
  PROVE  Completes("MEM") /\ ~ slot["MEM"].completed /\ IsEmpty(slot["WB"]) /\ ~ IsDone(slot["ID"])
<1>1. InCycle /\ ~ AfterMEM /\ ~ AfterID
  BY DEF TickMEM, InCycle, Stage, AfterMEM, AfterID
<1>2. ~ OddCycle
  BY <1>1 DEF IInv, LockStep, DuringOdd
<1> QED
  BY <1>1, <1>2
     DEF IInv, LockStep, DuringEven, Running, Completes, Ticks, IsDone, IsEmpty

\* MEM changes at most what a load is about to write, which the instruction in EX
\* does not read.
LEMMA TickMEMRefinement ==
  ASSUME IInv, RefinementInvariant, TickMEM PROVE Contents' /\ Flow'
<1>0. TypeOK /\ Contents /\ Flow /\ [Next]_vars
  BY DEF IInv, RefinementInvariant, Next
<1> DEFINE reg == slot["MEM"].reg
           c   == complete_mem_stage(reg)
<1>1. /\ slot'["IF"] = slot["IF"] /\ slot'["ID"] = slot["ID"]
      /\ slot'["EX"] = slot["EX"] /\ slot'["WB"] = slot["WB"]
      /\ slot'["MEM"] = Ticked("MEM", c)
      /\ PC' = PC /\ registers' = registers
  BY <1>0 DEF TickMEM, TypeOK, Stage
<1>2. /\ reg \in PipelineRegister /\ c \in PipelineRegister
      /\ c.valid = reg.valid /\ c.opcode = reg.opcode /\ c.r1 = reg.r1
      /\ c.pc = reg.pc /\ c.rawInstruction = reg.rawInstruction
      /\ reg.opcode # OPCODE_MOVR => c = reg
  BY <1>0, SlotType, CompleteMemFacts DEF Stage, complete_mem_stage
<1> HIDE DEF c
<1>3. CASE IsEmpty(slot["MEM"])
  <2>1. slot'["MEM"] = slot["MEM"]
    BY <1>1, <1>3 DEF Ticked, Completes, Ticks
  <2>2. SlotsFetched'
    BY <1>0, <1>1, <2>1, SlotsStayFetched DEF Contents
  <2> QED
    BY <1>0, <1>1, <2>1, <2>2, ContentsFrame DEF Flow, FrontIF, FrontID, FrontEX, IsEmpty
<1>4. CASE ~ IsEmpty(slot["MEM"])
  <2>1. Completes("MEM") /\ ~ IsDone(slot["ID"])
    BY <1>4, AtTickMEM
  <2>2. slot'["MEM"].reg = c /\ slot'["MEM"].completed
    BY <1>0, <1>1, <1>2, <2>1, TickedFacts DEF Stage
  <2>3. SlotsFetched'
    BY <1>0, <1>1, <1>2, <2>2, SlotsStayFetched DEF Contents
  <2>4. RegsAfterWB' = RegsAfterWB
    BY <1>1 DEF RegsAfterWB
  <2>5. OperandsFrom(slot["EX"].reg, RegsAfterMEM) /\ ~ IsEmpty(slot["EX"]) =>
          OperandsFrom(slot["EX"].reg, RegsAfterMEM')
    <3> DEFINE ex == slot["EX"].reg
    <3> SUFFICES ASSUME OperandsFrom(ex, RegsAfterMEM), ex.valid
                 PROVE  OperandsFrom(ex, RegsAfterMEM')
      BY DEF IsEmpty
    <3>1. ex \in PipelineRegister
      BY <1>0, SlotType DEF Stage
    <3>2. RegsAfterWB \in [Register -> Int32]
      BY <1>0, RegsType
    <3>3. RegsAfterMEM' = complete_wb_stage(RegsAfterWB, c)
      BY <2>2, <2>4 DEF RegsAfterMEM
    <3>4. destination_register(c) = destination_register(reg)
      BY <1>2 DEF destination_register, instruction_writes_register
    <3>5. reg.opcode = OPCODE_MOVR =>
            ~ instruction_reads_register(ex, destination_register(reg))
      BY <1>0, <1>4 DEF Contents, LoadDistance, IsEmpty
    <3>6. ASSUME NEW r \in Register, instruction_reads_register(ex, r)
          PROVE  readRegister(RegsAfterMEM', r) = readRegister(RegsAfterMEM, r)
      <4>1. readRegister(RegsAfterMEM', r) =
              IF r # 0 /\ destination_register(c) = r THEN Carried(c)
                                                      ELSE readRegister(RegsAfterWB, r)
        BY <1>2, <3>2, <3>3, WbReads
      <4>2. readRegister(RegsAfterMEM, r) =
              IF r # 0 /\ destination_register(reg) = r THEN Carried(reg)
                                                        ELSE readRegister(RegsAfterWB, r)
        BY <1>2, <3>2, WbReads DEF RegsAfterMEM
      <4> QED
        BY <1>2, <3>4, <3>5, <3>6, <4>1, <4>2
    <3> QED
      BY <3>1, <3>6, OperandsSame
  <2>6. InIDHolds' /\ InEXHolds' /\ InMEMHolds' /\ WrittenBack'
    BY <1>0, <1>1, <2>1, <2>2, <2>4, <2>5
       DEF Contents, InIDHolds, InEXHolds, InMEMHolds, WrittenBack, IsDone, IsEmpty
  <2>7. LoadDistance'
    BY <1>0, <1>1, <1>2, <2>2
       DEF Contents, LoadDistance, IsEmpty, destination_register, instruction_writes_register
  <2>8. Flow'
    BY <1>0, <1>1, <2>2 DEF Flow, FrontIF, FrontID, FrontEX, IsEmpty
  <2> QED
    BY <2>3, <2>6, <2>7, <2>8 DEF Contents
<1> QED
  BY <1>3, <1>4

\* What the completion of EX finds: it happens in odd cycles, with MEM empty and ID
\* not done.
LEMMA AtTickEX ==
  ASSUME IInv, TickEX
  PROVE  /\ ~ IsDone(slot["ID"])
         /\ Completes("EX") => IsEmpty(slot["MEM"])
<1>1. InCycle /\ ~ AfterEX /\ ~ AfterID
  BY DEF TickEX, InCycle, Stage, AfterEX, AfterID
<1>2. CASE OddCycle
  BY <1>1, <1>2 DEF IInv, LockStep, DuringOdd, Running, IsDone, IsEmpty
<1>3. CASE ~ OddCycle
  BY <1>1, <1>3 DEF IInv, LockStep, DuringEven, Running, IsDone, IsEmpty, Completes, Ticks
<1> QED
  BY <1>2, <1>3

\* Completing EX executes the instruction on its operands; what is left before it
\* starts with its successor, also when a taken branch has flushed IF and ID.
LEMMA TickEXRefinement ==
  ASSUME IInv, RefinementInvariant, TickEX
  PROVE  Contents' /\ Flow' /\ FrontEX' = FrontEX
<1>0. TypeOK /\ Contents /\ Flow /\ [Next]_vars
  BY DEF IInv, RefinementInvariant, Next
<1> DEFINE reg   == slot["EX"].reg
           c     == complete_ex_stage(reg)
           taken == Completes("EX") /\ branch_taken(reg)
<1>1. /\ slot'["MEM"] = slot["MEM"] /\ slot'["WB"] = slot["WB"]
      /\ slot'["EX"] = Ticked("EX", c) /\ registers' = registers
  BY <1>0 DEF TickEX, TypeOK, Stage, flushPipeline
<1>2. ~ taken => slot'["IF"] = slot["IF"] /\ slot'["ID"] = slot["ID"] /\ PC' = PC
  BY <1>0 DEF TickEX, TypeOK, Stage
<1>3. taken => IsEmpty(slot'["IF"]) /\ IsEmpty(slot'["ID"]) /\ PC' = branch_target(reg)
  BY <1>0 DEF TickEX, TypeOK, Stage, flushPipeline, IsEmpty, EmptySlot, ZeroRegister
<1>4. /\ reg \in PipelineRegister /\ c \in PipelineRegister
      /\ c.valid = reg.valid /\ c.opcode = reg.opcode
      /\ c.pc = reg.pc /\ c.rawInstruction = reg.rawInstruction
  BY <1>0, SlotType, CompleteExFacts DEF Stage
<1> HIDE DEF c
<1>5. /\ Completes("EX") => slot'["EX"].reg = c /\ slot'["EX"].completed
      /\ ~ Completes("EX") =>
           slot'["EX"].reg = reg /\ slot'["EX"].completed = slot["EX"].completed
  BY <1>0, <1>1, <1>4, TickedFacts DEF Stage
<1>6. SlotsFetched'
  BY <1>0, <1>1, <1>2, <1>3, <1>4, <1>5, SlotsStayFetched DEF Contents, IsEmpty
<1>7. RegsAfterWB' = RegsAfterWB /\ RegsAfterMEM' = RegsAfterMEM
  BY <1>1 DEF RegsAfterWB, RegsAfterMEM
<1>8. InMEMHolds' /\ WrittenBack'
  BY <1>0, <1>1, <1>7 DEF Contents, InMEMHolds, WrittenBack, IsDone, IsEmpty
<1>9. InIDHolds'
  <2>1. ~ IsDone(slot'["ID"])
    BY <1>2, <1>3, AtTickEX DEF IsDone, IsEmpty
  <2> QED
    BY <2>1 DEF InIDHolds
<1>10. CASE Completes("EX")
  <2>1. reg.valid /\ ~ slot["EX"].completed /\ IsEmpty(slot["MEM"])
    BY <1>10, AtTickEX DEF Completes, Ticks, IsEmpty
  <2>2. IsLatched(reg) /\ OperandsFrom(reg, RegsAfterMEM) /\ FrontID = reg.pc + 1
    BY <1>0, <2>1 DEF Contents, InEXHolds, Flow, IsEmpty
  <2>3. IsExecuted(c) /\ OperandsFrom(c, RegsAfterMEM) /\ NextPC(c) = NextPC(reg)
    BY <1>4, <2>1, <2>2, ExecutedOperands DEF c
  <2>4. InEXHolds' /\ LoadDistance'
    BY <1>1, <1>5, <1>7, <1>10, <2>1, <2>3 DEF InEXHolds, LoadDistance, IsEmpty
  <2>5. FrontID' = NextPC(reg)
    <3>1. CASE taken
      BY <1>3, <3>1 DEF FrontID, FrontIF, NextPC
    <3>2. CASE ~ taken
      <4>1. FrontID' = FrontID
        BY <1>2, <3>2 DEF FrontID, FrontIF
      <4> QED
        BY <1>10, <2>2, <3>2, <4>1 DEF NextPC
    <3> QED
      BY <3>1, <3>2
  <2>6. FrontEX' = FrontEX
    BY <1>4, <1>5, <1>10, <2>1 DEF FrontEX, IsEmpty
  <2>7. Flow'
    <3>1. /\ ~ IsEmpty(slot'["IF"]) => PC' = slot'["IF"].reg.pc + 1
          /\ ~ IsEmpty(slot'["ID"]) => FrontIF' = slot'["ID"].reg.pc + 1
      BY <1>0, <1>2, <1>3 DEF Flow, FrontIF
    <3>2. ~ IsEmpty(slot'["EX"]) /\ slot'["EX"].completed => FrontID' = NextPC(slot'["EX"].reg)
      BY <1>5, <1>10, <2>3, <2>5
    <3> QED
      BY <1>1, <1>5, <1>10, <2>1, <3>1, <3>2 DEF Flow, IsEmpty
  <2> QED
    BY <1>6, <1>8, <1>9, <2>4, <2>6, <2>7 DEF Contents
<1>11. CASE ~ Completes("EX")
  <2>1. ~ taken
    BY <1>11
  <2>2. InEXHolds' /\ LoadDistance'
    BY <1>0, <1>1, <1>5, <1>7, <1>11 DEF Contents, InEXHolds, LoadDistance, IsEmpty
  <2>3. FrontIF' = FrontIF /\ FrontID' = FrontID /\ FrontEX' = FrontEX
    BY <1>2, <1>5, <1>11, <2>1 DEF FrontIF, FrontID, FrontEX, IsEmpty
  <2>4. Flow'
    BY <1>0, <1>1, <1>2, <1>5, <1>11, <2>1, <2>3 DEF Flow, IsEmpty
  <2> QED
    BY <1>6, <1>8, <1>9, <2>2, <2>3, <2>4 DEF Contents
<1> QED
  BY <1>10, <1>11

\* What the completion of ID finds: it happens in odd cycles, with MEM empty, EX done
\* and no load in EX that the instruction waits for.
LEMMA AtTickID ==
  ASSUME IInv, TickID, Completes("ID")
  PROVE  /\ slot["ID"].reg.valid /\ IsEmpty(slot["MEM"])
         /\ ~ IsEmpty(slot["EX"]) => slot["EX"].completed
         /\ ~ Hazard /\ ~ slot["ID"].completed
<1>1. InCycle /\ AfterEX /\ ~ AfterID
  BY DEF TickID, InCycle, Stage, AfterEX, AfterID
<1>2. /\ ~ IsEmpty(slot["ID"]) /\ ~ slot["ID"].completed /\ ~ stalled
      /\ slot["ID"].cycles_left <= 1
  BY DEF Completes, Ticks
<1>3. OddCycle
  BY <1>1, <1>2 DEF IInv, LockStep, DuringEven, Running
<1> QED
  BY <1>1, <1>2, <1>3 DEF IInv, LockStep, DuringOdd, StallCurrent, IsEmpty

\* Completing ID latches what the instructions ahead will leave.
LEMMA TickIDRefinement ==
  ASSUME IInv, RefinementInvariant, TickID
  PROVE  Contents' /\ Flow' /\ FrontEX' = FrontEX
<1>0. TypeOK /\ WordsValid /\ Contents /\ Flow /\ [Next]_vars
  BY DEF IInv, RefinementInvariant, Next
<1> DEFINE reg == slot["ID"].reg
           d   == Decoded(reg)
           l   == latch_decode_operands(reg)
           ex  == slot["EX"].reg
<1>1. /\ slot'["IF"] = slot["IF"] /\ slot'["EX"] = slot["EX"]
      /\ slot'["MEM"] = slot["MEM"] /\ slot'["WB"] = slot["WB"]
      /\ slot'["ID"] = Ticked("ID", l) /\ registers' = registers /\ PC' = PC
  BY <1>0 DEF TickID, TypeOK, Stage, cpuVars
<1>2. /\ reg \in PipelineRegister /\ d \in PipelineRegister /\ l \in PipelineRegister
      /\ l.valid = d.valid /\ l.pc = d.pc /\ l.rawInstruction = d.rawInstruction
  BY <1>0, SlotType, LatchFacts, DecodedType DEF Stage
<1>3. d.pc = reg.pc /\ d.rawInstruction = reg.rawInstruction
  BY DEF Decoded
<1>4. reg.valid => d.valid
  BY <1>0, <1>2, FetchedDecodes DEF Contents, SlotsFetched, IsEmpty
<1>5. d.valid => reg.valid
  BY DEF Decoded
<1>6. ASSUME Completes("ID") PROVE IsLatched(l) /\ OperandsFrom(l, RegsAfterEX)
  <2>1. /\ reg.valid /\ IsEmpty(slot["MEM"])
        /\ ~ IsEmpty(slot["EX"]) => slot["EX"].completed
        /\ ~ Hazard /\ ~ slot["ID"].completed
    BY <1>6, AtTickID
  <2>2. d.r1 \in Nat /\ d.r2 \in Nat /\ d.r3 \in Nat
    BY <1>2, LayoutAssumption DEF PipelineRegister, Register
  <2>3. ASSUME NEW r, instruction_reads_register(d, r) PROVE r > 0
    <3>1. r # 0 /\ r \in {d.r1, d.r2, d.r3}
      BY <2>3 DEF instruction_reads_register
    <3> HIDE DEF d
    <3> QED
      BY <2>2, <3>1
  <2>4. ex.opcode = OPCODE_MOVR => ~ instruction_reads_register(d, destination_register(ex))
    <3>1. CASE IsEmpty(slot["EX"])
      <4>1. destination_register(ex) = -1
        BY <3>1 DEF destination_register, instruction_writes_register, IsEmpty
      <4> QED
        BY <2>3, <4>1
    <3>2. CASE ~ IsEmpty(slot["EX"])
      BY <1>4, <2>1, <2>3, <3>2 DEF Hazard, evaluate_id_hazard, IsEmpty
    <3> QED
      BY <3>1, <3>2
  <2> QED
    BY <1>0, <1>2, <1>4, <2>1, <2>4, LatchedOperands
<1> HIDE DEF d, l
<1>7. /\ Completes("ID") => slot'["ID"].reg = l
      /\ ~ Completes("ID") =>
           slot'["ID"].reg = reg /\ slot'["ID"].completed = slot["ID"].completed
  BY <1>0, <1>1, <1>2, TickedFacts DEF Stage
<1>8. /\ slot'["ID"].reg.valid <=> reg.valid
      /\ slot'["ID"].reg.pc = reg.pc /\ slot'["ID"].reg.rawInstruction = reg.rawInstruction
  BY <1>2, <1>3, <1>4, <1>5, <1>7
<1>9. SlotsFetched'
  BY <1>0, <1>1, <1>8, SlotsStayFetched DEF Contents
<1>10. /\ RegsAfterWB' = RegsAfterWB /\ RegsAfterMEM' = RegsAfterMEM
       /\ RegsAfterEX' = RegsAfterEX
  BY <1>1 DEF RegsAfterWB, RegsAfterMEM, RegsAfterEX
<1>11. InIDHolds'
  BY <1>0, <1>6, <1>7, <1>10 DEF Contents, InIDHolds, IsDone
<1>12. InEXHolds' /\ InMEMHolds' /\ WrittenBack' /\ LoadDistance'
  BY <1>0, <1>1, <1>10
     DEF Contents, InEXHolds, InMEMHolds, WrittenBack, LoadDistance, IsDone, IsEmpty
<1>13. FrontIF' = FrontIF /\ FrontID' = FrontID /\ FrontEX' = FrontEX
  BY <1>1, <1>8 DEF FrontIF, FrontID, FrontEX, IsEmpty
<1>14. Flow'
  BY <1>0, <1>1, <1>8, <1>13 DEF Flow, IsEmpty
<1> QED
  BY <1>9, <1>11, <1>12, <1>13, <1>14 DEF Contents

\* The tick of IF touches no instruction.
LEMMA TickIFRefinement ==
  ASSUME IInv, RefinementInvariant, TickIF
  PROVE  Contents' /\ Flow' /\ FrontEX' = FrontEX
<1>0. TypeOK /\ Contents /\ Flow /\ [Next]_vars
  BY DEF IInv, RefinementInvariant, Next
<1>1. /\ slot'["ID"] = slot["ID"] /\ slot'["EX"] = slot["EX"]
      /\ slot'["MEM"] = slot["MEM"] /\ slot'["WB"] = slot["WB"]
      /\ slot'["IF"] = Ticked("IF", slot["IF"].reg) /\ registers' = registers /\ PC' = PC
  BY <1>0 DEF TickIF, TypeOK, Stage, cpuVars
<1>2. slot'["IF"].reg = slot["IF"].reg
  BY <1>0, <1>1, SlotType, TickedFacts DEF Stage
<1>3. SlotsFetched'
  BY <1>0, <1>1, <1>2, SlotsStayFetched DEF Contents
<1>4. FrontIF' = FrontIF /\ FrontID' = FrontID /\ FrontEX' = FrontEX
  BY <1>1, <1>2 DEF FrontIF, FrontID, FrontEX, IsEmpty
<1>5. Flow'
  BY <1>0, <1>1, <1>2, <1>4 DEF Flow, IsEmpty
<1> QED
  BY <1>0, <1>1, <1>3, <1>4, <1>5, ContentsFrame

\* What transfer_completed_stages does after an odd cycle: all stages move on,
\* unless a stall keeps ID and with it IF.
LEMMA TransferOdd ==
  ASSUME IInv, Transfer, OddCycle
  PROVE  /\ IsEmpty(slot["MEM"]) /\ IsEmpty(slot'["WB"])
         /\ ~ IsEmpty(slot["WB"]) => slot["WB"].completed
         /\ ~ IsEmpty(slot["EX"]) =>
              slot["EX"].completed /\ slot'["MEM"].reg = slot["EX"].reg /\ ~ slot'["MEM"].completed
         /\ IsEmpty(slot["EX"]) => IsEmpty(slot'["MEM"])
         /\ LeavesID =>
              IsDone(slot["ID"]) /\ slot'["EX"].reg = slot["ID"].reg /\ ~ slot'["EX"].completed
         /\ ~ LeavesID => IsEmpty(slot'["EX"])
         /\ LeavesIF =>
              /\ ~ IsEmpty(slot["IF"]) /\ (IsEmpty(slot["ID"]) \/ LeavesID)
              /\ slot'["ID"].reg = slot["IF"].reg /\ IsEmpty(slot'["IF"])
         /\ ~ LeavesIF => slot'["IF"] = slot["IF"]
         /\ ~ LeavesIF /\ LeavesID => IsEmpty(slot'["ID"])
         /\ ~ LeavesIF /\ ~ LeavesID => slot'["ID"] = slot["ID"]
         /\ ~ IsEmpty(slot["IF"]) /\ IsEmpty(slot["ID"]) => LeavesIF
         /\ ~ IsDone(slot'["ID"])
<1>0. TypeOK /\ LockStep
  BY DEF IInv
<1>1. InCycle /\ AfterWB /\ AfterMEM /\ AfterEX /\ AfterID /\ AfterIF
  BY DEF Transfer, InCycle, Stage, AfterWB, AfterMEM, AfterEX, AfterID, AfterIF
<1>2. /\ slot'["WB"]  = Moved("WB", LeavesMEM, "MEM", WB_CYCLES, LeavesWB)
      /\ slot'["MEM"] = Moved("MEM", LeavesEX, "EX", MEM_CYCLES, LeavesMEM)
      /\ slot'["EX"]  = Moved("EX", LeavesID, "ID", EX_CYCLES, LeavesEX)
      /\ slot'["ID"]  = Moved("ID", LeavesIF, "IF", ID_CYCLES, LeavesID)
      /\ slot'["IF"]  = IF LeavesIF THEN EmptySlot ELSE slot["IF"]
  BY <1>0 DEF Transfer, TypeOK, Stage
<1>3. /\ IsEmpty(slot["MEM"])
      /\ ~ IsEmpty(slot["WB"]) => slot["WB"].completed
      /\ ~ IsEmpty(slot["EX"]) => slot["EX"].completed
      /\ ~ IsEmpty(slot["ID"]) => IF stalled THEN Running("ID", 2) ELSE slot["ID"].completed
      /\ ~ IsEmpty(slot["IF"]) => slot["IF"].completed
  BY <1>0, <1>1 DEF LockStep, DuringOdd
<1>4. /\ ~ LeavesMEM
      /\ LeavesEX <=> ~ IsEmpty(slot["EX"])
      /\ LeavesWB <=> ~ IsEmpty(slot["WB"])
      /\ LeavesID => IsDone(slot["ID"])
      /\ LeavesIF => ~ IsEmpty(slot["IF"]) /\ (IsEmpty(slot["ID"]) \/ LeavesID)
      /\ ~ IsEmpty(slot["IF"]) /\ IsEmpty(slot["ID"]) => LeavesIF
  BY <1>3 DEF LeavesMEM, LeavesEX, LeavesWB, LeavesID, LeavesIF, IsDone, IsEmpty
<1>5. IsEmpty(slot'["WB"])
  BY <1>2, <1>4, MovedFacts DEF IsEmpty
<1>6. /\ ~ IsEmpty(slot["EX"]) => slot'["MEM"].reg = slot["EX"].reg /\ ~ slot'["MEM"].completed
      /\ IsEmpty(slot["EX"]) => IsEmpty(slot'["MEM"])
  BY <1>2, <1>3, <1>4, MovedFacts DEF IsEmpty
<1>7. /\ LeavesID => slot'["EX"].reg = slot["ID"].reg /\ ~ slot'["EX"].completed
      /\ ~ LeavesID => IsEmpty(slot'["EX"])
  BY <1>2, <1>4, MovedFacts DEF IsEmpty
<1>8. /\ LeavesIF => slot'["ID"].reg = slot["IF"].reg /\ ~ slot'["ID"].completed
      /\ ~ LeavesIF /\ LeavesID => IsEmpty(slot'["ID"])
      /\ ~ LeavesIF /\ ~ LeavesID => slot'["ID"] = slot["ID"]
  BY <1>2, MovedFacts DEF IsEmpty
<1>9. /\ LeavesIF => IsEmpty(slot'["IF"])
      /\ ~ LeavesIF => slot'["IF"] = slot["IF"]
  BY <1>2 DEF IsEmpty, EmptySlot, ZeroRegister
<1>10. ~ IsDone(slot'["ID"])
  <2>1. IsDone(slot["ID"]) => LeavesID
    BY <1>4 DEF LeavesID, IsDone, IsEmpty
  <2> QED
    BY <1>8, <2>1 DEF IsDone, IsEmpty
<1> QED
  BY <1>3, <1>4, <1>5, <1>6, <1>7, <1>8, <1>9, <1>10

\* What it does after an even cycle: only MEM moves.
LEMMA TransferEven ==
  ASSUME IInv, Transfer, ~ OddCycle
  PROVE  /\ slot'["IF"] = slot["IF"] /\ slot'["ID"] = slot["ID"] /\ slot'["EX"] = slot["EX"]
         /\ IsEmpty(slot["WB"]) /\ IsEmpty(slot'["MEM"])
         /\ ~ IsEmpty(slot["MEM"]) =>
              slot["MEM"].completed /\ slot'["WB"].reg = slot["MEM"].reg /\ ~ slot'["WB"].completed
         /\ IsEmpty(slot["MEM"]) => IsEmpty(slot'["WB"])
         /\ ~ IsDone(slot["ID"])
<1>0. TypeOK /\ LockStep
  BY DEF IInv
<1>1. InCycle /\ AfterWB /\ AfterMEM /\ AfterEX /\ AfterID /\ AfterIF
  BY DEF Transfer, InCycle, Stage, AfterWB, AfterMEM, AfterEX, AfterID, AfterIF
<1>2. /\ slot'["WB"]  = Moved("WB", LeavesMEM, "MEM", WB_CYCLES, LeavesWB)
      /\ slot'["MEM"] = Moved("MEM", LeavesEX, "EX", MEM_CYCLES, LeavesMEM)
      /\ slot'["EX"]  = Moved("EX", LeavesID, "ID", EX_CYCLES, LeavesEX)
      /\ slot'["ID"]  = Moved("ID", LeavesIF, "IF", ID_CYCLES, LeavesID)
      /\ slot'["IF"]  = IF LeavesIF THEN EmptySlot ELSE slot["IF"]
  BY <1>0 DEF Transfer, TypeOK, Stage
<1>3. /\ IsEmpty(slot["WB"])
      /\ ~ IsEmpty(slot["MEM"]) => slot["MEM"].completed
      /\ ~ IsEmpty(slot["EX"]) => Running("EX", 1)
      /\ ~ IsEmpty(slot["ID"]) => Running("ID", IF ~ stalled THEN 1 ELSE 2)
      /\ ~ IsEmpty(slot["IF"]) =>
           slot["IF"].completed /\ ~ IsEmpty(slot["ID"]) /\ IsEmpty(slot["EX"])
  BY <1>0, <1>1 DEF LockStep, DuringEven
<1>4. /\ ~ LeavesEX /\ ~ LeavesID /\ ~ LeavesIF
      /\ LeavesMEM <=> ~ IsEmpty(slot["MEM"])
      /\ ~ LeavesWB /\ ~ IsDone(slot["ID"])
  BY <1>3 DEF LeavesEX, LeavesID, LeavesIF, LeavesMEM, LeavesWB, IsDone, IsEmpty, Running
<1>5. slot'["IF"] = slot["IF"] /\ slot'["ID"] = slot["ID"] /\ slot'["EX"] = slot["EX"]
  BY <1>2, <1>4, MovedFacts
<1>6. IsEmpty(slot'["MEM"])
  BY <1>2, <1>4, MovedFacts DEF IsEmpty
<1>7. /\ ~ IsEmpty(slot["MEM"]) => slot'["WB"].reg = slot["MEM"].reg /\ ~ slot'["WB"].completed
      /\ IsEmpty(slot["MEM"]) => IsEmpty(slot'["WB"])
  BY <1>2, <1>3, <1>4, MovedFacts DEF IsEmpty
<1> QED
  BY <1>3, <1>4, <1>5, <1>6, <1>7

\* The transfer hands every instruction on with the register file it saw.
LEMMA TransferRefinement ==
  ASSUME IInv, RefinementInvariant, Transfer
  PROVE  /\ Contents' /\ Flow'
         /\ RegsAfterWB' = IF IsDone(slot["MEM"]) THEN RegsAfterMEM ELSE RegsAfterWB
         /\ ArchPC' = ArchPC
<1>0. TypeOK /\ Contents /\ Flow /\ [Next]_vars
  BY DEF IInv, RefinementInvariant, Next
<1>1. registers' = registers /\ PC' = PC
  BY DEF Transfer, cpuVars
<1>2. CASE OddCycle
  <2>1. /\ IsEmpty(slot["MEM"]) /\ IsEmpty(slot'["WB"])
        /\ ~ IsEmpty(slot["WB"]) => slot["WB"].completed
        /\ ~ IsEmpty(slot["EX"]) =>
             slot["EX"].completed /\ slot'["MEM"].reg = slot["EX"].reg /\ ~ slot'["MEM"].completed
        /\ IsEmpty(slot["EX"]) => IsEmpty(slot'["MEM"])
        /\ LeavesID =>
             IsDone(slot["ID"]) /\ slot'["EX"].reg = slot["ID"].reg /\ ~ slot'["EX"].completed
        /\ ~ LeavesID => IsEmpty(slot'["EX"])
        /\ LeavesIF =>
             /\ ~ IsEmpty(slot["IF"]) /\ (IsEmpty(slot["ID"]) \/ LeavesID)
             /\ slot'["ID"].reg = slot["IF"].reg /\ IsEmpty(slot'["IF"])
        /\ ~ LeavesIF => slot'["IF"] = slot["IF"]
        /\ ~ LeavesIF /\ LeavesID => IsEmpty(slot'["ID"])
        /\ ~ LeavesIF /\ ~ LeavesID => slot'["ID"] = slot["ID"]
        /\ ~ IsEmpty(slot["IF"]) /\ IsEmpty(slot["ID"]) => LeavesIF
        /\ ~ IsDone(slot'["ID"])
    BY <1>2, TransferOdd
  <2>2. SlotsFetched'
    BY <1>0, <2>1, SlotsStayFetched DEF Contents, IsEmpty, IsDone
  <2>3. RegsAfterWB = registers /\ RegsAfterMEM = registers
    BY <1>0, <2>1, WbEmpty DEF Contents, WrittenBack, RegsAfterWB, RegsAfterMEM, IsDone, IsEmpty
  <2>4. RegsAfterWB' = registers
    BY <1>1, <2>1, WbEmpty DEF RegsAfterWB, IsEmpty
  <2>5. RegsAfterMEM' = RegsAfterEX
    <3>1. CASE IsEmpty(slot["EX"])
      BY <2>1, <2>3, <2>4, <3>1, WbEmpty DEF RegsAfterMEM, RegsAfterEX, IsEmpty
    <3>2. CASE ~ IsEmpty(slot["EX"])
      BY <2>1, <2>3, <2>4, <3>2 DEF RegsAfterMEM, RegsAfterEX
    <3> QED
      BY <3>1, <3>2
  <2>6. InIDHolds' /\ WrittenBack'
    BY <2>1 DEF InIDHolds, WrittenBack, IsDone, IsEmpty
  <2>7. InEXHolds'
    BY <1>0, <2>1, <2>5 DEF Contents, InIDHolds, InEXHolds, IsEmpty
  <2>8. InMEMHolds'
    BY <1>0, <2>1, <2>3, <2>4 DEF Contents, InEXHolds, InMEMHolds, IsEmpty
  <2>9. LoadDistance'
    <3>1. LoadUseStalls
      BY DEF IInv, LockStep
    <3> QED
      BY <2>1, <3>1 DEF LoadUseStalls, LoadDistance, IsEmpty
  <2>10. FrontIF' = IF LeavesIF THEN PC ELSE FrontIF
    BY <1>1, <2>1 DEF FrontIF
  <2>11. ~ IsEmpty(slot["IF"]) => FrontIF = slot["IF"].reg.pc
    BY DEF FrontIF
  <2>12. LeavesID => FrontID' = FrontIF
    BY <2>1, <2>10, <2>11 DEF FrontID, IsEmpty
  <2>13. FrontEX' = FrontID
    BY <2>1, <2>10, <2>11 DEF FrontID, FrontEX, IsEmpty, IsDone
  <2>14. Flow'
    <3>1. ~ IsEmpty(slot'["IF"]) => PC' = slot'["IF"].reg.pc + 1
      BY <1>0, <1>1, <2>1 DEF Flow
    <3>2. ~ IsEmpty(slot'["ID"]) => FrontIF' = slot'["ID"].reg.pc + 1
      BY <1>0, <2>1, <2>10 DEF Flow, IsEmpty
    <3>3. ~ IsEmpty(slot'["EX"]) =>
            ~ slot'["EX"].completed /\ FrontID' = slot'["EX"].reg.pc + 1
      BY <1>0, <2>1, <2>12 DEF Flow, IsEmpty, IsDone
    <3>4. ~ IsEmpty(slot'["MEM"]) => FrontEX' = NextPC(slot'["MEM"].reg)
      BY <1>0, <2>1, <2>13 DEF Flow, IsEmpty
    <3> QED
      BY <3>1, <3>2, <3>3, <3>4 DEF Flow
  <2>15. ArchPC' = ArchPC
    BY <2>1, <2>13 DEF ArchPC, FrontID, FrontEX, FrontIF, IsEmpty
  <2> QED
    BY <2>1, <2>2, <2>3, <2>4, <2>6, <2>7, <2>8, <2>9, <2>14, <2>15 DEF Contents, IsDone, IsEmpty
<1>3. CASE ~ OddCycle
  <2>1. /\ slot'["IF"] = slot["IF"] /\ slot'["ID"] = slot["ID"] /\ slot'["EX"] = slot["EX"]
        /\ IsEmpty(slot["WB"]) /\ IsEmpty(slot'["MEM"])
        /\ ~ IsEmpty(slot["MEM"]) =>
             slot["MEM"].completed /\ slot'["WB"].reg = slot["MEM"].reg /\ ~ slot'["WB"].completed
        /\ IsEmpty(slot["MEM"]) => IsEmpty(slot'["WB"])
        /\ ~ IsDone(slot["ID"])
    BY <1>3, TransferEven
  <2>2. SlotsFetched'
    BY <1>0, <2>1, SlotsStayFetched DEF Contents, IsEmpty
  <2>3. RegsAfterWB = registers
    BY <2>1, WbEmpty DEF RegsAfterWB, IsEmpty
  <2>4. /\ RegsAfterWB' = IF IsEmpty(slot["MEM"]) THEN RegsAfterWB ELSE RegsAfterMEM
        /\ RegsAfterMEM' = RegsAfterMEM
    <3>1. RegsAfterMEM' = RegsAfterWB'
      BY <2>1, WbEmpty DEF RegsAfterMEM, IsEmpty
    <3>2. CASE IsEmpty(slot["MEM"])
      <4>1. RegsAfterWB' = registers
        BY <1>1, <2>1, <3>2, WbEmpty DEF RegsAfterWB, IsEmpty
      <4>2. RegsAfterMEM = RegsAfterWB
        BY <3>2, WbEmpty DEF RegsAfterMEM, IsEmpty
      <4> QED
        BY <2>3, <3>1, <4>1, <4>2
    <3>3. CASE ~ IsEmpty(slot["MEM"])
      <4>1. RegsAfterWB' = complete_wb_stage(registers, slot["MEM"].reg)
        BY <1>1, <2>1, <3>3 DEF RegsAfterWB
      <4> QED
        BY <2>3, <3>1, <3>3, <4>1 DEF RegsAfterMEM
    <3> QED
      BY <3>2, <3>3
  <2>5. InIDHolds' /\ InEXHolds' /\ InMEMHolds' /\ LoadDistance'
    BY <1>0, <2>1, <2>4
       DEF Contents, InIDHolds, InEXHolds, InMEMHolds, LoadDistance, IsDone, IsEmpty
  <2>6. WrittenBack'
    BY <2>1 DEF WrittenBack, IsDone, IsEmpty
  <2>7. Flow'
    BY <1>0, <1>1, <2>1 DEF Flow, FrontIF, FrontID, FrontEX, IsEmpty
  <2>8. ArchPC' = ArchPC
    BY <1>1, <2>1 DEF ArchPC, IsEmpty
  <2> QED
    BY <2>1, <2>2, <2>4, <2>5, <2>6, <2>7, <2>8 DEF Contents, IsDone, IsEmpty
<1> QED
  BY <1>2, <1>3

\* Every step keeps the invariant.
LEMMA NextRefinementInvariant ==
  IInv /\ RefinementInvariant /\ [Next]_vars => RefinementInvariant'
<1> SUFFICES ASSUME IInv, RefinementInvariant, [Next]_vars PROVE RefinementInvariant'
  OBVIOUS
<1>1. WordsValid'
  BY WordsStayValid DEF IInv, RefinementInvariant
<1>2. CASE slot' = slot /\ registers' = registers /\ PC' = PC
  <2>1. TypeOK /\ Contents /\ Flow
    BY DEF IInv, RefinementInvariant
  <2>2. SlotsFetched'
    BY <1>2, <2>1, SlotsStayFetched DEF Contents
  <2>3. Contents' /\ Flow'
    BY <1>2, <2>1, <2>2, ContentsFrame DEF Flow, FrontIF, FrontID, FrontEX, IsEmpty
  <2> QED
    BY <1>1, <2>3 DEF RefinementInvariant
<1>3. CASE ~ (slot' = slot /\ registers' = registers /\ PC' = PC)
  <2>1. ~ Finish /\ ~ UNCHANGED vars
    BY <1>3 DEF Finish, vars, cpuVars
  <2>2. Contents' /\ Flow'
    BY <2>1, StartCycleRefinement, TickWBRefinement, TickMEMRefinement, TickEXRefinement,
       TickIDRefinement, TickIFRefinement, TransferRefinement DEF Next, Terminated
  <2> QED
    BY <1>1, <2>2 DEF RefinementInvariant
<1> QED
  BY <1>2, <1>3

-----------------------------------------------------------------------------
(* The operators of the instance ISA are those of this module.             *)

\* The instruction layout.
LEMMA InstanceLayout ==
  /\ ISA!R3_UNIT = R3_UNIT /\ ISA!R2_UNIT = R2_UNIT /\ ISA!R1_UNIT = R1_UNIT
  /\ ISA!OPCODE_UNIT = OPCODE_UNIT /\ ISA!IMM_SPACE = IMM_SPACE /\ ISA!ADDR_SPACE = ADDR_SPACE
  /\ ISA!HALF_WORD = HALF_WORD /\ ISA!WORD_SPACE = WORD_SPACE
  /\ ISA!Register = Register /\ ISA!Int32 = Int32
  BY DEF ISA!R3_UNIT, R3_UNIT, ISA!R2_UNIT, R2_UNIT, ISA!R1_UNIT, R1_UNIT,
         ISA!OPCODE_UNIT, OPCODE_UNIT, ISA!IMM_SPACE, IMM_SPACE, ISA!ADDR_SPACE, ADDR_SPACE,
         ISA!HALF_WORD, HALF_WORD, ISA!WORD_SPACE, WORD_SPACE,
         ISA!Register, Register, ISA!Int32, Int32

\* The opcodes.
LEMMA InstanceOpcodes ==
  /\ ISA!OPCODE_ADD = OPCODE_ADD /\ ISA!OPCODE_SUB = OPCODE_SUB
  /\ ISA!OPCODE_MUL = OPCODE_MUL /\ ISA!OPCODE_MOVI = OPCODE_MOVI
  /\ ISA!OPCODE_JEQ = OPCODE_JEQ /\ ISA!OPCODE_AND = OPCODE_AND
  /\ ISA!OPCODE_ORI = OPCODE_ORI /\ ISA!OPCODE_JMP = OPCODE_JMP
  /\ ISA!OPCODE_LSL = OPCODE_LSL /\ ISA!OPCODE_LSR = OPCODE_LSR
  /\ ISA!OPCODE_MOVR = OPCODE_MOVR /\ ISA!OPCODE_MOVM = OPCODE_MOVM
  /\ \A opcode : ISA!opcode_writes_register(opcode) = opcode_writes_register(opcode)
  BY DEF ISA!OPCODE_ADD, OPCODE_ADD, ISA!OPCODE_SUB, OPCODE_SUB, ISA!OPCODE_MUL, OPCODE_MUL,
         ISA!OPCODE_MOVI, OPCODE_MOVI, ISA!OPCODE_JEQ, OPCODE_JEQ, ISA!OPCODE_AND, OPCODE_AND,
         ISA!OPCODE_ORI, OPCODE_ORI, ISA!OPCODE_JMP, OPCODE_JMP, ISA!OPCODE_LSL, OPCODE_LSL,
         ISA!OPCODE_LSR, OPCODE_LSR, ISA!OPCODE_MOVR, OPCODE_MOVR, ISA!OPCODE_MOVM, OPCODE_MOVM,
         ISA!opcode_writes_register, opcode_writes_register

\* Decoding.
LEMMA InstanceDecode == ASSUME NEW w PROVE ISA!DecodeFields(w) = DecodeFields(w)
  BY InstanceLayout, InstanceOpcodes
     DEF ISA!DecodeFields, DecodeFields, ISA!OpcodeOf, OpcodeOf, ISA!sign_extend, sign_extend,
         ISA!FormatR, FormatR, ISA!FormatI, FormatI, ISA!FormatJ, FormatJ

\* Registers, memory and the cast to int32_t.
LEMMA InstanceStorage ==
  ASSUME NEW regs, NEW mem, NEW a, NEW v
  PROVE  /\ ISA!readRegister(regs, a) = readRegister(regs, a)
         /\ ISA!writeRegister(regs, a, v) = writeRegister(regs, a, v)
         /\ ISA!readMemory(mem, a) = readMemory(mem, a)
         /\ ISA!writeMemory(mem, a, v) = writeMemory(mem, a, v)
         /\ ISA!is_instruction_address(a) = is_instruction_address(a)
         /\ ISA!memory_fetch_instruction(mem, a) = memory_fetch_instruction(mem, a)
         /\ ISA!ToInt32(v) = ToInt32(v)
         /\ ISA!ShiftInRange(v) = ShiftInRange(v)
  BY InstanceLayout
     DEF ISA!readRegister, readRegister, ISA!writeRegister, writeRegister,
         ISA!readMemory, readMemory, ISA!writeMemory, writeMemory,
         ISA!is_data_address, is_data_address,
         ISA!is_instruction_address, is_instruction_address,
         ISA!memory_fetch_instruction, memory_fetch_instruction,
         ISA!ToUint32, ToUint32, ISA!ToInt32, ToInt32, ISA!ShiftInRange, ShiftInRange

\* So a step of the sequential machine, in the terms of this module.
LEMMA IsaStep ==
  LET d == DecodeFields(memory_fetch_instruction(memory, ArchPC))
      Value(r) == readRegister(ArchRegisters, r)
      address == ToInt32(Value(d.r2) + d.immediate)
  IN  /\ ArchPC < instructionCount
      /\ ArchPC' = IF ISA!Taken(d) THEN ISA!Target(d) ELSE ArchPC + 1
      /\ ArchRegisters' = IF opcode_writes_register(d.opcode)
                            THEN writeRegister(ArchRegisters, d.r1, ISA!Result(d))
                            ELSE ArchRegisters
      /\ memory' = IF d.opcode = OPCODE_MOVM
                     THEN writeMemory(memory, address, Value(d.r1)) ELSE memory
      /\ instructionCount' = instructionCount
      => ISA!Step
  BY InstanceOpcodes, InstanceDecode, InstanceStorage
     DEF ISA!Step, ISA!Execute, ISA!EffectiveAddress, ISA!Value

\* Where the sequential machine goes, in the terms of this module.
LEMMA IsaTarget ==
  ASSUME NEW d
  PROVE  LET Value(r) == readRegister(ArchRegisters, r)
         IN  /\ ISA!Target(d) = IF d.opcode = OPCODE_JMP THEN d.address
                                                         ELSE ArchPC + 1 + d.immediate
             /\ ISA!Taken(d) <=>
                  /\ \/ d.opcode = OPCODE_JMP
                     \/ d.opcode = OPCODE_JEQ /\ Value(d.r1) = Value(d.r2)
                  /\ is_instruction_address(ISA!Target(d))
  BY InstanceOpcodes, InstanceStorage DEF ISA!Target, ISA!TargetFrom, ISA!Taken, ISA!Value

\* What it writes to a register.
LEMMA IsaResult ==
  ASSUME NEW d
  PROVE  LET Value(r) == readRegister(ArchRegisters, r)
             address == ToInt32(Value(d.r2) + d.immediate)
         IN  /\ d.opcode = OPCODE_ADD => ISA!Result(d) = ToInt32(Value(d.r2) + Value(d.r3))
             /\ d.opcode = OPCODE_SUB => ISA!Result(d) = ToInt32(Value(d.r2) - Value(d.r3))
             /\ d.opcode = OPCODE_MUL => ISA!Result(d) = ToInt32(Value(d.r2) * Value(d.r3))
             /\ d.opcode = OPCODE_AND => ISA!Result(d) = BitAnd(Value(d.r2), Value(d.r3))
             /\ d.opcode = OPCODE_ORI => ISA!Result(d) = BitXor(Value(d.r2), d.immediate)
             /\ d.opcode = OPCODE_LSL =>
                  ISA!Result(d) = IF ShiftInRange(d.shamt)
                                    THEN ShiftLeft(Value(d.r2), d.shamt) ELSE 0
             /\ d.opcode = OPCODE_LSR =>
                  ISA!Result(d) = IF ShiftInRange(d.shamt)
                                    THEN ShiftRight(Value(d.r2), d.shamt) ELSE 0
             /\ d.opcode = OPCODE_MOVI => ISA!Result(d) = d.immediate
             /\ d.opcode = OPCODE_MOVR => ISA!Result(d) = readMemory(memory, address)
  BY InstanceOpcodes, InstanceStorage
     DEF ISA!Result, ISA!Value, ISA!EffectiveAddress,
         OPCODE_ADD, OPCODE_SUB, OPCODE_MUL, OPCODE_AND, OPCODE_ORI, OPCODE_LSL, OPCODE_LSR,
         OPCODE_MOVI, OPCODE_MOVR

-----------------------------------------------------------------------------
(* The steps of the pipeline as steps of the sequential machine.           *)

\* The fields of an executed instruction.
LEMMA ExecutedFields ==
  ASSUME NEW reg \in PipelineRegister, IsExecuted(reg)
  PROVE  LET d == DecodeFields(reg.rawInstruction)
         IN  /\ reg.opcode = d.opcode /\ reg.r1 = d.r1 /\ reg.r2 = d.r2 /\ reg.r3 = d.r3
             /\ reg.immediate = d.immediate /\ reg.shamt = d.shamt
             /\ reg.aluResult = AluResult(reg.opcode, reg.operand1, reg.operand2,
                                          reg.immediate, reg.shamt, 0)
             /\ reg.opcode \notin {OPCODE_MOVR, OPCODE_MOVM} => reg.address = d.address
             /\ reg.opcode \in {OPCODE_MOVR, OPCODE_MOVM} =>
                  /\ reg.address = ToInt32(reg.operand1 + reg.immediate)
                  /\ reg.memoryData = reg.operand2
<1> DEFINE d == DecodeFields(reg.rawInstruction)
           w == WithOperands(reg)
           Alu(x) == AluResult(x.opcode, x.operand1, x.operand2, x.immediate, x.shamt, x.aluResult)
<1>1. Decoded(reg) \in PipelineRegister
  BY DecodedType
<1>2. /\ w.opcode = d.opcode /\ w.r1 = d.r1 /\ w.r2 = d.r2 /\ w.r3 = d.r3
      /\ w.immediate = d.immediate /\ w.shamt = d.shamt /\ w.address = d.address
      /\ w.operand1 = reg.operand1 /\ w.operand2 = reg.operand2 /\ w.aluResult = 0
      /\ w = [Decoded(reg) EXCEPT !.operand1 = reg.operand1, !.operand2 = reg.operand2]
  BY DEF WithOperands, Decoded
<1>3. w \in PipelineRegister
  <2> HIDE DEF w
  <2> QED
    BY <1>1, <1>2 DEF PipelineRegister
<1>4. reg = complete_ex_stage(w)
  BY DEF IsExecuted
<1> HIDE DEF w, d
<1>5. CASE w.opcode \in {OPCODE_MOVR, OPCODE_MOVM}
  <2>1. reg = [w EXCEPT !.aluResult = Alu(w), !.address = ToInt32(w.operand1 + w.immediate),
                        !.memoryData = w.operand2]
    BY <1>4, <1>5 DEF complete_ex_stage
  <2> HIDE DEF Alu
  <2>2. /\ reg.opcode = w.opcode /\ reg.r1 = w.r1 /\ reg.r2 = w.r2 /\ reg.r3 = w.r3
        /\ reg.immediate = w.immediate /\ reg.shamt = w.shamt /\ reg.aluResult = Alu(w)
        /\ reg.address = ToInt32(w.operand1 + w.immediate) /\ reg.memoryData = w.operand2
    BY <1>3, <2>1 DEF PipelineRegister
  <2> QED
    BY <1>2, <1>5, <2>2 DEF Alu, d
<1>6. CASE w.opcode \notin {OPCODE_MOVR, OPCODE_MOVM}
  <2>1. reg = [w EXCEPT !.aluResult = Alu(w)]
    BY <1>4, <1>6 DEF complete_ex_stage
  <2> HIDE DEF Alu
  <2>2. /\ reg.opcode = w.opcode /\ reg.r1 = w.r1 /\ reg.r2 = w.r2 /\ reg.r3 = w.r3
        /\ reg.immediate = w.immediate /\ reg.shamt = w.shamt /\ reg.aluResult = Alu(w)
        /\ reg.address = w.address
    BY <1>3, <2>1 DEF PipelineRegister
  <2> QED
    BY <1>2, <1>6, <2>2 DEF Alu, d
<1> QED
  BY <1>5, <1>6

\* A jump from within instruction memory goes to its address field.
LEMMA JumpTarget ==
  ASSUME TypeOK, NEW reg \in PipelineRegister, reg.pc < instructionCount, NEW raw \in RawWord,
         reg.address = raw % ADDR_SPACE
  PROVE  jump_target(reg) = reg.address
<1>1. ADDR_SPACE \in Nat \ {0} /\ INSTRUCTION_MEMORY_SIZE <= ADDR_SPACE
  BY UnitsPositive, MemoryAssumption DEF ADDR_SPACE
<1>2. reg.pc \in 0 .. ADDR_SPACE - 1
  BY <1>1, MemoryAssumption DEF PipelineRegister, TypeOK
<1>3. raw \in Int
  BY UnitsPositive DEF RawWord
<1>4. reg.address \in 0 .. ADDR_SPACE - 1
  BY <1>1, <1>3, RemainderRange
<1>5. ASSUME NEW n \in Nat \ {0}, NEW a \in 0 .. n - 1 PROVE a % n = a
  OBVIOUS
<1>6. reg.pc % ADDR_SPACE = reg.pc /\ reg.address % ADDR_SPACE = reg.address
  BY <1>1, <1>2, <1>4, <1>5
<1> QED
  BY <1>2, <1>4, <1>6 DEF jump_target

\* The register file of the sequential machine is the view after WB, or after MEM
\* once the instruction there has completed.
LEMMA ArchRegistersView ==
  IInv /\ RefinementInvariant /\ phase # "done"
    => ArchRegisters = IF IsDone(slot["MEM"]) THEN RegsAfterMEM ELSE RegsAfterWB
<1> SUFFICES ASSUME IInv, RefinementInvariant, phase # "done"
             PROVE  ArchRegisters = IF IsDone(slot["MEM"]) THEN RegsAfterMEM ELSE RegsAfterWB
  OBVIOUS
<1>1. IsEmpty(slot["WB"]) => RegsAfterWB = registers
  BY WbEmpty DEF RegsAfterWB, IsEmpty
<1>2. IsDone(slot["MEM"]) => IsEmpty(slot["WB"])
  BY DEF IInv, LockStep, BeforeOdd, BeforeEven, DuringOdd, DuringEven, IsDone, IsEmpty,
         TypeOK, Phase, InCycle, Stage
<1> QED
  BY <1>1, <1>2
     DEF ArchRegisters, RegsAfterMEM, RegsAfterWB, RefinementInvariant, Contents, WrittenBack,
         IsDone, IsEmpty

\* The next address of an executed instruction with current operands is that of the
\* sequential machine.
LEMMA NextAddress ==
  ASSUME TypeOK, NEW reg \in PipelineRegister, IsExecuted(reg), FetchedFrom(reg),
         OperandsFrom(reg, ArchRegisters), ArchPC = reg.pc
  PROVE  LET d == DecodeFields(memory_fetch_instruction(memory, ArchPC))
         IN  NextPC(reg) = IF ISA!Taken(d) THEN ISA!Target(d) ELSE ArchPC + 1
<1> DEFINE raw == reg.rawInstruction
           d   == DecodeFields(raw)
           Value(r) == readRegister(ArchRegisters, r)
<1>1. raw = memory_fetch_instruction(memory, ArchPC) /\ reg.pc < instructionCount
  BY DEF FetchedFrom
<1>2. raw \in RawWord
  BY DEF PipelineRegister
<1>3. /\ reg.opcode = d.opcode /\ reg.r1 = d.r1 /\ reg.r2 = d.r2 /\ reg.immediate = d.immediate
      /\ reg.opcode \notin {OPCODE_MOVR, OPCODE_MOVM} => reg.address = d.address
  BY ExecutedFields
<1>4. d.opcode = OPCODE_JMP => d.address = raw % ADDR_SPACE
  BY DEF DecodeFields, FormatJ
<1>5. reg.opcode = OPCODE_JMP => jump_target(reg) = d.address
  BY <1>1, <1>2, <1>3, <1>4, JumpTarget DEF OPCODE_JMP, OPCODE_MOVR, OPCODE_MOVM
<1> HIDE DEF d
<1>6. branch_target(reg) = ISA!Target(d)
  BY <1>3, <1>5, IsaTarget DEF branch_target
<1>7. reg.opcode = OPCODE_JEQ => reg.operand1 = Value(d.r1) /\ reg.operand2 = Value(d.r2)
  BY <1>3 DEF OperandsFrom
<1>8. branch_taken(reg) <=> ISA!Taken(d)
  BY <1>3, <1>6, <1>7, IsaTarget DEF branch_taken, is_instruction_address
<1> QED
  BY <1>1, <1>6, <1>8 DEF NextPC, d

\* What an executed instruction with current operands carries out of MEM is the result
\* of the sequential machine.
LEMMA CarriedResult ==
  ASSUME TypeOK, NEW reg \in PipelineRegister, IsExecuted(reg), FetchedFrom(reg),
         OperandsFrom(reg, ArchRegisters), ArchPC = reg.pc, opcode_writes_register(reg.opcode)
  PROVE  LET d == DecodeFields(memory_fetch_instruction(memory, ArchPC))
         IN  Carried(complete_mem_stage(reg)) = ISA!Result(d)
<1> DEFINE d == DecodeFields(reg.rawInstruction)
           Value(r) == readRegister(ArchRegisters, r)
           alu == AluResult(reg.opcode, reg.operand1, reg.operand2, reg.immediate, reg.shamt, 0)
<1>1. reg.rawInstruction = memory_fetch_instruction(memory, ArchPC)
  BY DEF FetchedFrom
<1>2. /\ reg.opcode = d.opcode /\ reg.r1 = d.r1 /\ reg.r2 = d.r2 /\ reg.r3 = d.r3
      /\ reg.immediate = d.immediate /\ reg.shamt = d.shamt /\ reg.aluResult = alu
      /\ reg.opcode = OPCODE_MOVR => reg.address = ToInt32(reg.operand1 + reg.immediate)
  BY ExecutedFields
<1> HIDE DEF d
<1>3. CASE reg.opcode = OPCODE_MOVR
  <2>1. reg.operand1 = Value(d.r2)
    BY <1>2, <1>3 DEF OperandsFrom, ReadsR2
  <2>2. complete_mem_stage(reg) = [reg EXCEPT !.memoryData = readMemory(memory, reg.address)]
    BY <1>3 DEF complete_mem_stage
  <2>3. Carried(complete_mem_stage(reg)) = readMemory(memory, reg.address)
    BY <1>3, <2>2 DEF Carried, PipelineRegister
  <2>4. ISA!Result(d) = readMemory(memory, ToInt32(Value(d.r2) + d.immediate))
    BY <1>2, <1>3, IsaResult
  <2> QED
    BY <1>1, <1>2, <1>3, <2>1, <2>3, <2>4 DEF d
<1>4. CASE reg.opcode # OPCODE_MOVR
  <2>1. Carried(complete_mem_stage(reg)) = alu
    BY <1>2, <1>4 DEF complete_mem_stage, Carried
  <2>2. /\ reg.opcode \in ReadsR2R3 => reg.operand1 = Value(d.r2) /\ reg.operand2 = Value(d.r3)
        /\ reg.opcode \in ReadsR2 => reg.operand1 = Value(d.r2)
        /\ reg.opcode = OPCODE_MOVI => reg.operand2 = d.immediate
    BY <1>2 DEF OperandsFrom
  <2>3. reg.opcode \in {OPCODE_ADD, OPCODE_SUB, OPCODE_MUL, OPCODE_MOVI, OPCODE_AND,
                        OPCODE_ORI, OPCODE_LSL, OPCODE_LSR}
    BY <1>4 DEF opcode_writes_register
  <2>4. CASE reg.opcode \in {OPCODE_ADD, OPCODE_SUB, OPCODE_MUL, OPCODE_AND}
    <3>1. reg.operand1 = Value(d.r2) /\ reg.operand2 = Value(d.r3)
      BY <2>2, <2>4 DEF ReadsR2R3
    <3>2. /\ reg.opcode = OPCODE_ADD => alu = ToInt32(reg.operand1 + reg.operand2)
          /\ reg.opcode = OPCODE_SUB => alu = ToInt32(reg.operand1 - reg.operand2)
          /\ reg.opcode = OPCODE_MUL => alu = ToInt32(reg.operand1 * reg.operand2)
          /\ reg.opcode = OPCODE_AND => alu = BitAnd(reg.operand1, reg.operand2)
      BY DEF AluResult, OPCODE_ADD, OPCODE_SUB, OPCODE_MUL, OPCODE_AND, OPCODE_ORI, OPCODE_LSL,
             OPCODE_LSR, OPCODE_MOVI
    <3> HIDE DEF alu
    <3>3. alu = ISA!Result(d)
      BY <1>2, <2>4, <3>1, <3>2, IsaResult
         DEF OPCODE_ADD, OPCODE_SUB, OPCODE_MUL, OPCODE_AND
    <3> QED
      BY <1>1, <2>1, <3>3 DEF d
  <2>5. CASE reg.opcode \in {OPCODE_ORI, OPCODE_LSL, OPCODE_LSR, OPCODE_MOVI}
    <3>1. /\ reg.opcode # OPCODE_MOVI => reg.operand1 = Value(d.r2)
          /\ reg.opcode = OPCODE_MOVI => reg.operand2 = d.immediate
      BY <2>2, <2>5 DEF ReadsR2
    <3>2. /\ reg.opcode = OPCODE_ORI => alu = BitXor(reg.operand1, reg.immediate)
          /\ reg.opcode = OPCODE_LSL =>
               alu = IF ShiftInRange(reg.shamt) THEN ShiftLeft(reg.operand1, reg.shamt) ELSE 0
          /\ reg.opcode = OPCODE_LSR =>
               alu = IF ShiftInRange(reg.shamt) THEN ShiftRight(reg.operand1, reg.shamt) ELSE 0
          /\ reg.opcode = OPCODE_MOVI => alu = reg.operand2
      BY DEF AluResult, OPCODE_ADD, OPCODE_SUB, OPCODE_MUL, OPCODE_AND, OPCODE_ORI, OPCODE_LSL,
             OPCODE_LSR, OPCODE_MOVI
    <3> HIDE DEF alu
    <3>3. alu = ISA!Result(d)
      BY <1>2, <2>5, <3>1, <3>2, IsaResult DEF OPCODE_ORI, OPCODE_LSL, OPCODE_LSR, OPCODE_MOVI
    <3> QED
      BY <1>1, <2>1, <3>3 DEF d
  <2> QED
    BY <2>3, <2>4, <2>5
<1> QED
  BY <1>3, <1>4

\* The tick that completes MEM is one step of the sequential machine: the instruction
\* at its pc, with its operands, its store, its result and its successor.
LEMMA MEMExecutes ==
  ASSUME IInv, RefinementInvariant, TickMEM, ~ IsEmpty(slot["MEM"]) PROVE ISA!Step
<1> DEFINE reg == slot["MEM"].reg
           c   == complete_mem_stage(reg)
           d   == DecodeFields(memory_fetch_instruction(memory, ArchPC))
           Value(r) == readRegister(ArchRegisters, r)
<1>0. TypeOK /\ Contents /\ Flow
  BY DEF IInv, RefinementInvariant
<1>1. /\ Completes("MEM") /\ ~ slot["MEM"].completed /\ reg.valid
      /\ ~ slot["WB"].reg.valid
  BY AtTickMEM DEF IsEmpty
<1>2. /\ slot'["IF"] = slot["IF"] /\ slot'["ID"] = slot["ID"] /\ slot'["EX"] = slot["EX"]
      /\ slot'["WB"] = slot["WB"] /\ slot'["MEM"] = Ticked("MEM", c) /\ registers' = registers
      /\ PC' = PC /\ instructionCount' = instructionCount
      /\ memory' = IF reg.opcode = OPCODE_MOVM
                     THEN writeMemory(memory, reg.address, reg.memoryData) ELSE memory
  BY <1>0, <1>1 DEF TickMEM, TypeOK, Stage
<1>3. /\ reg \in PipelineRegister /\ c \in PipelineRegister
      /\ c.valid = reg.valid /\ c.opcode = reg.opcode /\ c.r1 = reg.r1
  BY <1>0, SlotType, CompleteMemFacts DEF Stage
<1> HIDE DEF c
<1>4. slot'["MEM"].reg = c /\ slot'["MEM"].completed
  BY <1>0, <1>1, <1>2, <1>3, TickedFacts DEF Stage
<1>5. ArchPC = reg.pc /\ ArchPC' = FrontEX
  BY <1>1, <1>2, <1>4 DEF ArchPC, FrontEX, FrontID, FrontIF, IsEmpty
<1>6. ArchRegisters = registers /\ RegsAfterWB = registers
  BY <1>1, WbEmpty DEF ArchRegisters, RegsAfterWB, IsDone, IsEmpty
<1>7. ArchRegisters' = complete_wb_stage(registers, c)
  BY <1>1, <1>2, <1>3, <1>4 DEF ArchRegisters, IsDone
<1>8. /\ IsExecuted(reg) /\ OperandsFrom(reg, ArchRegisters) /\ FetchedFrom(reg)
      /\ FrontEX = NextPC(reg)
  BY <1>0, <1>1, <1>6 DEF Contents, InMEMHolds, SlotsFetched, Flow, IsEmpty
<1>9. /\ reg.opcode = d.opcode /\ reg.r1 = d.r1 /\ reg.r2 = d.r2 /\ reg.immediate = d.immediate
      /\ reg.opcode = OPCODE_MOVM =>
           /\ reg.address = ToInt32(reg.operand1 + reg.immediate)
           /\ reg.memoryData = reg.operand2
  BY <1>3, <1>5, <1>8, ExecutedFields DEF FetchedFrom
<1> HIDE DEF d
<1>10. ArchPC < instructionCount
  BY <1>5, <1>8 DEF FetchedFrom
<1>11. ArchPC' = IF ISA!Taken(d) THEN ISA!Target(d) ELSE ArchPC + 1
  BY <1>0, <1>3, <1>5, <1>8, NextAddress DEF d
<1>12. ArchRegisters' = IF opcode_writes_register(d.opcode)
                          THEN writeRegister(ArchRegisters, d.r1, ISA!Result(d))
                          ELSE ArchRegisters
  <2>1. opcode_writes_register(d.opcode) => Carried(c) = ISA!Result(d)
    BY <1>0, <1>3, <1>5, <1>8, <1>9, CarriedResult DEF c, d
  <2> QED
    BY <1>1, <1>3, <1>6, <1>7, <1>9, <2>1 DEF complete_wb_stage, instruction_writes_register
<1>13. memory' = IF d.opcode = OPCODE_MOVM
                   THEN writeMemory(memory, ToInt32(Value(d.r2) + d.immediate), Value(d.r1))
                   ELSE memory
  BY <1>2, <1>8, <1>9 DEF OperandsFrom
<1> QED
  BY <1>2, <1>10, <1>11, <1>12, <1>13, IsaStep DEF d

\* A step that leaves the pc and the register file of the sequential machine alone
\* does not show there.
LEMMA IsaStutter ==
  ArchPC' = ArchPC /\ ArchRegisters' = ArchRegisters /\ memory' = memory
    /\ instructionCount' = instructionCount => UNCHANGED ISA!isaVars
  BY DEF ISA!isaVars

\* Every step of the pipeline is a step of the sequential machine or invisible to it.
LEMMA StepMaps ==
  IInv /\ RefinementInvariant /\ [Next]_vars => [ISA!Step]_(ISA!isaVars)
<1> SUFFICES ASSUME IInv, RefinementInvariant, [Next]_vars PROVE [ISA!Step]_(ISA!isaVars)
  OBVIOUS
<1>0. TypeOK /\ LockStep /\ IInv' /\ RefinementInvariant'
  BY NextType, NextLockStep, NextRefinementInvariant DEF IInv
<1> DEFINE View == IF IsDone(slot["MEM"]) THEN RegsAfterMEM ELSE RegsAfterWB
<1>1. phase # "done" => ArchRegisters = View
  BY ArchRegistersView
<1>2. phase' # "done" => ArchRegisters' = View'
  <2>1. (IInv /\ RefinementInvariant /\ phase # "done" => ArchRegisters = View)'
    BY ArchRegistersView, PTL
  <2> QED
    BY <1>0, <2>1
<1>3. CASE StartCycle
  <2>1. /\ slot'["EX"] = slot["EX"] /\ slot'["MEM"] = slot["MEM"] /\ slot'["WB"] = slot["WB"]
        /\ registers' = registers /\ memory' = memory /\ instructionCount' = instructionCount
    BY <1>0, <1>3 DEF StartCycle, fetch_into_if, TypeOK, Stage
  <2>2. ArchPC' = ArchPC /\ ArchRegisters' = ArchRegisters
    BY <1>3, <2>1, StartCycleRefinement
       DEF ArchPC, ArchRegisters, FrontEX, FrontID, FrontIF, IsDone, IsEmpty
  <2> QED
    BY <2>1, <2>2, IsaStutter
<1>4. CASE TickWB
  <2>1. /\ slot'["IF"] = slot["IF"] /\ slot'["ID"] = slot["ID"] /\ slot'["EX"] = slot["EX"]
        /\ slot'["MEM"] = slot["MEM"] /\ PC' = PC
        /\ memory' = memory /\ instructionCount' = instructionCount
        /\ phase # "done" /\ phase' # "done"
    BY <1>0, <1>4 DEF TickWB, TypeOK, Stage
  <2>2. RegsAfterWB' = RegsAfterWB
    BY <1>4, TickWBRefinement
  <2>3. View' = View
    BY <2>1, <2>2 DEF RegsAfterMEM, IsDone
  <2>4. ArchPC' = ArchPC
    BY <2>1 DEF ArchPC, IsEmpty
  <2> QED
    BY <1>1, <1>2, <2>1, <2>3, <2>4, IsaStutter
<1>5. CASE TickMEM
  <2>1. CASE IsEmpty(slot["MEM"])
    <3>1. /\ slot'["IF"] = slot["IF"] /\ slot'["ID"] = slot["ID"] /\ slot'["EX"] = slot["EX"]
          /\ slot'["MEM"] = slot["MEM"] /\ slot'["WB"] = slot["WB"]
          /\ PC' = PC /\ registers' = registers
          /\ memory' = memory /\ instructionCount' = instructionCount
      BY <1>0, <1>5, <2>1 DEF TickMEM, TypeOK, Stage, Ticked, Completes, Ticks
    <3> QED
      BY <3>1, IsaStutter DEF ArchPC, ArchRegisters, IsDone, IsEmpty
  <2>2. CASE ~ IsEmpty(slot["MEM"])
    BY <1>5, <2>2, MEMExecutes
  <2> QED
    BY <2>1, <2>2
<1>6. CASE TickEX \/ TickID \/ TickIF
  <2>1. /\ slot'["MEM"] = slot["MEM"] /\ slot'["WB"] = slot["WB"] /\ registers' = registers
        /\ memory' = memory /\ instructionCount' = instructionCount
    BY <1>0, <1>6 DEF TickEX, TickID, TickIF, TypeOK, Stage, flushPipeline, cpuVars
  <2>2. FrontEX' = FrontEX
    BY <1>6, TickEXRefinement, TickIDRefinement, TickIFRefinement
  <2>3. ArchPC' = ArchPC /\ ArchRegisters' = ArchRegisters
    BY <2>1, <2>2 DEF ArchPC, ArchRegisters, FrontEX, FrontID, FrontIF, IsDone, IsEmpty
  <2> QED
    BY <2>1, <2>3, IsaStutter
<1>7. CASE Transfer
  <2>1. /\ memory' = memory /\ instructionCount' = instructionCount
        /\ phase # "done" /\ phase' # "done"
    BY <1>7 DEF Transfer, cpuVars
  <2>2. RegsAfterWB' = View /\ ArchPC' = ArchPC
    BY <1>7, TransferRefinement
  <2>3. ~ IsDone(slot'["MEM"])
    <3>1. CASE OddCycle
      BY <1>7, <3>1, TransferOdd DEF IsDone, IsEmpty
    <3>2. CASE ~ OddCycle
      BY <1>7, <3>2, TransferEven DEF IsDone, IsEmpty
    <3> QED
      BY <3>1, <3>2
  <2> QED
    BY <1>1, <1>2, <2>1, <2>2, <2>3, IsaStutter
<1>8. CASE Finish \/ UNCHANGED vars
  <2>1. UNCHANGED <<PC, registers, memory, instructionCount, slot>>
    BY <1>8 DEF Finish, vars, cpuVars
  <2> QED
    BY <2>1, IsaStutter DEF ArchPC, ArchRegisters
<1> QED
  BY <1>3, <1>4, <1>5, <1>6, <1>7, <1>8 DEF Next, Terminated

\* The pipeline starts where the sequential machine may start.
LEMMA InitMaps == Init => ISA!Init
<1> SUFFICES ASSUME Init PROVE ISA!Init
  OBVIOUS
<1>1. TypeOK
  BY InitType
<1>2. \A k \in Stage : IsEmpty(slot[k])
  BY DEF Init, IsEmpty, EmptySlot, ZeroRegister
<1>3. /\ IsEmpty(slot["IF"]) /\ IsEmpty(slot["ID"]) /\ IsEmpty(slot["EX"])
      /\ IsEmpty(slot["MEM"]) /\ IsEmpty(slot["WB"])
  BY <1>2 DEF Stage
<1>4. ArchPC = 0 /\ ArchRegisters = [r \in Register |-> 0]
  BY <1>3 DEF Init, ArchPC, ArchRegisters, IsDone, IsEmpty
<1>5. memory \in [Address -> Int32] /\ instructionCount \in 0 .. INSTRUCTION_MEMORY_SIZE
  BY <1>1 DEF TypeOK
<1> QED
  BY <1>4, <1>5, InstanceLayout DEF ISA!Init, ISA!Address, Address

\* The invariant behind the refinement holds in every run.
THEOREM RefinementInvariance == Spec => []RefinementInvariant
<1>1. Init => RefinementInvariant
  BY InitRefinementInvariant
<1>2. IInv /\ RefinementInvariant /\ [Next]_vars => RefinementInvariant'
  BY NextRefinementInvariant
<1> QED
  BY <1>1, <1>2, Invariance, PTL DEF Spec

\* The pipeline executes every program as the sequential machine does: forwarding,
\* load-use stalls, flushes and the order of MEM and WB never show in a register, in
\* memory or in the order of the instructions.
THEOREM PipelineImplementsIsa == Spec => ImplementsIsa
<1>1. Init => ISA!Init
  BY InitMaps
<1>2. IInv /\ RefinementInvariant /\ [Next]_vars => [ISA!Step]_(ISA!isaVars)
  BY StepMaps
<1> QED
  BY <1>1, <1>2, Invariance, RefinementInvariance, PTL DEF Spec, ISA!Spec, ImplementsIsa

=============================================================================
