---------------------------- MODULE ExecuteProofs --------------------------
(***************************************************************************)
(* Execute.c agrees with the engine on every instruction that can reach EX *)
(* there, for every layout, memory and program.  Its branches carry the    *)
(* target as an unsigned word; that it comes back as the engine's target   *)
(* rests on the instruction coming from instruction memory, and that the   *)
(* result of an instruction without an ALU operation is the same on its    *)
(* having been decoded and latched just before: both are the data          *)
(* invariant RefinementInvariant.                                          *)
(***************************************************************************)
EXTENDS ExecuteUnit, RefinementProofs

\* Every shift in the loaded program is by fewer bits than a word has.
ShiftsInRange ==
  \A a \in ProgramAddress :
    LET d == DecodeFields(memory_fetch_instruction(memory, a))
    IN  d.opcode \in {OPCODE_LSL, OPCODE_LSR} => ShiftInRange(d.shamt)

\* It is so when the program is loaded, and no step changes the program.
LEMMA ShiftsStayInRange == Spec => []ShiftsInRange
<1>1. Init => ShiftsInRange
  <2> SUFFICES ASSUME Init PROVE ShiftsInRange
    OBVIOUS
  <2>1. PICK program \in Programs :
          \A a \in ProgramAddress :
            /\ a + 1 \in 1 .. Len(program)
            /\ memory_fetch_instruction(memory, a) = program[a + 1]
    BY LoadedWords
  <2> QED
    BY <2>1, ShiftAmountsAssumption DEF ShiftsInRange
<1>2. TypeOK /\ ShiftsInRange /\ [Next]_vars => ShiftsInRange'
  <2> SUFFICES ASSUME TypeOK, ShiftsInRange, [Next]_vars PROVE ShiftsInRange'
    OBVIOUS
  <2>1. ProgramAddress' = ProgramAddress
    BY FetchFrame DEF ProgramAddress
  <2>2. \A a \in ProgramAddress :
          memory_fetch_instruction(memory', a) = memory_fetch_instruction(memory, a)
    BY FetchFrame DEF ProgramAddress, TypeOK
  <2> QED
    BY <2>1, <2>2 DEF ShiftsInRange
<1> QED
  BY <1>1, <1>2, TypeCorrect, PTL DEF Spec

\* What completes EX was latched just before: its fields are those of the word at
\* its address, and its result is still zero.
LEMMA AboutToExecute ==
  ASSUME IInv, RefinementInvariant, CompletesEX
  PROVE  LET d == DecodeFields(InEX.rawInstruction)
         IN  /\ InEX \in PipelineRegister
             /\ FetchedFrom(InEX)
             /\ InEX.opcode = d.opcode /\ InEX.shamt = d.shamt
             /\ InEX.immediate = d.immediate /\ InEX.address = d.address
             /\ InEX.aluResult = 0
<1> DEFINE d == DecodeFields(InEX.rawInstruction)
           w == Decoded(InEX)
<1>1. ~ IsEmpty(slot["EX"]) /\ ~ slot["EX"].completed
  BY DEF CompletesEX, Completes, Ticks
<1>2. InEX \in PipelineRegister /\ w \in PipelineRegister
  BY SlotType, DecodedType DEF IInv, InEX, Stage
<1>3. FetchedFrom(InEX) /\ IsLatched(InEX)
  BY <1>1 DEF RefinementInvariant, Contents, SlotsFetched, InEXHolds, InEX
<1>4. InEX = [w EXCEPT !.operand1 = InEX.operand1, !.operand2 = InEX.operand2]
  BY <1>3 DEF IsLatched, WithOperands
<1>5. /\ w.opcode = d.opcode /\ w.shamt = d.shamt /\ w.immediate = d.immediate
      /\ w.address = d.address /\ w.aluResult = 0
  BY DEF Decoded
<1> HIDE DEF w, d
<1>6. /\ InEX.opcode = w.opcode /\ InEX.shamt = w.shamt /\ InEX.immediate = w.immediate
      /\ InEX.address = w.address /\ InEX.aluResult = w.aluResult
  BY <1>2, <1>4 DEF PipelineRegister
<1> QED
  BY <1>2, <1>3, <1>5, <1>6 DEF d

\* The two ALUs agree on each opcode but that of ORI.
LEMMA AluAgrees ==
  ASSUME NEW opcode \in OpcodeField, opcode # OPCODE_ORI, NEW a, NEW b, NEW immediate,
         NEW shamt, opcode \in {OPCODE_LSL, OPCODE_LSR} => ShiftInRange(shamt)
  PROVE  alu_result(opcode_alu_operation(opcode), a, b, shamt)
           = AluResult(opcode, a, b, immediate, shamt, 0)
<1>1. /\ opcode = OPCODE_ADD => opcode_alu_operation(opcode) = "ADD"
      /\ opcode = OPCODE_SUB => opcode_alu_operation(opcode) = "SUB"
      /\ opcode = OPCODE_MUL => opcode_alu_operation(opcode) = "MUL"
      /\ opcode = OPCODE_AND => opcode_alu_operation(opcode) = "AND"
      /\ opcode = OPCODE_LSL => opcode_alu_operation(opcode) = "SHIFT_LEFT"
      /\ opcode = OPCODE_LSR => opcode_alu_operation(opcode) = "SHIFT_RIGHT"
      /\ opcode = OPCODE_MOVI => opcode_alu_operation(opcode) = "PASS_B"
  BY DEF opcode_alu_operation, OPCODE_ADD, OPCODE_SUB, OPCODE_MUL, OPCODE_AND, OPCODE_ORI,
         OPCODE_LSL, OPCODE_LSR, OPCODE_MOVI
<1>2. opcode \notin {OPCODE_ADD, OPCODE_SUB, OPCODE_MUL, OPCODE_AND, OPCODE_LSL, OPCODE_LSR,
                     OPCODE_MOVI} => opcode_alu_operation(opcode) = "NONE"
  BY DEF opcode_alu_operation
<1> QED
  BY <1>1, <1>2
     DEF alu_result, AluResult, OPCODE_ADD, OPCODE_SUB, OPCODE_MUL, OPCODE_AND, OPCODE_ORI,
         OPCODE_LSL, OPCODE_LSR, OPCODE_MOVI

\* Both compute the same result and address, and touch nothing else.
THEOREM ResultsAgree == Spec => []ResultAgrees
<1>1. IInv /\ RefinementInvariant /\ ShiftsInRange => ResultAgrees
  <2> SUFFICES ASSUME IInv, RefinementInvariant, ShiftsInRange, CompletesEX,
                      InEX.opcode # OPCODE_ORI
               PROVE  executeStage(InEX) = complete_ex_stage(InEX)
    BY DEF ResultAgrees
  <2> DEFINE d == DecodeFields(InEX.rawInstruction)
  <2>1. /\ InEX \in PipelineRegister /\ FetchedFrom(InEX)
        /\ InEX.opcode = d.opcode /\ InEX.shamt = d.shamt /\ InEX.aluResult = 0
    BY AboutToExecute
  <2>2. InEX.pc \in ProgramAddress
    BY <2>1 DEF FetchedFrom, ProgramAddress, PipelineRegister, TypeOK, IInv
  <2>3. InEX.opcode \in {OPCODE_LSL, OPCODE_LSR} => ShiftInRange(InEX.shamt)
    BY <2>1, <2>2 DEF ShiftsInRange, FetchedFrom
  <2>4. InEX.opcode \in OpcodeField
    BY <2>1 DEF PipelineRegister
  <2>5. Alu(InEX).result = alu_result(opcode_alu_operation(InEX.opcode), InEX.operand1,
                                      InEX.operand2, InEX.shamt)
    BY DEF Alu, executeALU
  <2>6. Alu(InEX).result = AluResult(InEX.opcode, InEX.operand1, InEX.operand2,
                                     InEX.immediate, InEX.shamt, InEX.aluResult)
    BY <2>1, <2>3, <2>4, <2>5, AluAgrees
  <2> QED
    BY <2>6 DEF executeStage, complete_ex_stage
<1> QED
  BY <1>1, Invariance, RefinementInvariance, ShiftsStayInRange, PTL

\* The target of a branch as the engine computes it is small enough to survive the
\* casts of evaluateBranch.
LEMMA TargetSurvives ==
  ASSUME IInv, RefinementInvariant, CompletesEX, InEX.opcode \in {OPCODE_JEQ, OPCODE_JMP}
  PROVE  /\ ToInt32(targetPC(InEX)) = branch_target(InEX)
         /\ branch_target(InEX) >= 0 => targetPC(InEX) = branch_target(InEX)
<1> DEFINE raw == InEX.rawInstruction
           d   == DecodeFields(raw)
<1>1. /\ InEX \in PipelineRegister /\ InEX.pc < instructionCount
      /\ InEX.opcode = d.opcode /\ InEX.immediate = d.immediate /\ InEX.address = d.address
  BY AboutToExecute DEF FetchedFrom
<1>2. raw \in RawWord /\ raw \in Int
  BY <1>1, UnitsPositive DEF PipelineRegister, RawWord
<1>3. InEX.pc \in 0 .. OPCODE_UNIT - 1
  BY <1>1, MemoryAssumption, UnitsPositive DEF PipelineRegister, TypeOK, IInv, ADDR_SPACE
<1>4. OPCODE_UNIT \in Nat \ {0} /\ IMM_SPACE \in Nat /\ IMM_SPACE <= OPCODE_UNIT
  BY UnitsPositive DEF IMM_SPACE
<1>5. CASE InEX.opcode = OPCODE_JEQ
  <2> DEFINE target == InEX.pc + 1 + InEX.immediate
  <2>1. d.immediate = sign_extend(raw, IMM_SPACE)
    BY <1>1, <1>5
       DEF DecodeFields, FormatI, FormatR, OPCODE_ADD, OPCODE_SUB, OPCODE_MUL, OPCODE_AND,
           OPCODE_LSL, OPCODE_LSR, OPCODE_JEQ
  <2>2. InEX.immediate \in -IMM_SPACE .. IMM_SPACE - 1
    BY <1>1, <1>2, <2>1, SignExtendRange
  <2>3. target \in Int32 /\ (target >= 0 => target \in 0 .. HALF_WORD - 1)
    BY <1>3, <1>4, <2>2 DEF Int32, HALF_WORD
  <2>4. targetPC(InEX) = ToUint32(target) /\ branch_target(InEX) = target
    BY <1>5 DEF targetPC, branch_target, OPCODE_JEQ, OPCODE_JMP
  <2> HIDE DEF target
  <2> QED
    BY <2>3, <2>4, CastRoundTrip, SmallWord
<1>6. CASE InEX.opcode = OPCODE_JMP
  <2>1. d.address = raw % ADDR_SPACE
    BY <1>1, <1>6 DEF DecodeFields, FormatJ
  <2>2. jump_target(InEX) = InEX.address
    BY <1>1, <1>2, <2>1, JumpTarget DEF IInv
  <2>3. InEX.address \in 0 .. HALF_WORD - 1 /\ InEX.address \in Int32
    BY <1>1, <1>2, <1>4, <2>1, RemainderRange DEF ADDR_SPACE, Int32, HALF_WORD
  <2>4. targetPC(InEX) = InEX.address /\ branch_target(InEX) = InEX.address
    BY <1>6, <2>2 DEF targetPC, branch_target, OPCODE_JEQ, OPCODE_JMP
  <2> QED
    BY <2>3, <2>4, CastRoundTrip, SmallWord
<1> QED
  BY <1>5, <1>6

\* A branch goes the same way in both.
THEOREM BranchesAgree == Spec => []BranchAgrees
<1>1. IInv /\ RefinementInvariant => BranchAgrees
  <2> SUFFICES ASSUME IInv, RefinementInvariant, CompletesEX
               PROVE  /\ branch_taken(InEX) <=>
                           /\ evaluateBranch(InEX)
                           /\ is_instruction_address(ToInt32(targetPC(InEX)))
                      /\ branch_taken(InEX) => targetPC(InEX) = branch_target(InEX)
    BY DEF BranchAgrees
  <2>1. CASE InEX.opcode \in {OPCODE_JEQ, OPCODE_JMP}
    BY <2>1, TargetSurvives DEF branch_taken, evaluateBranch, is_instruction_address
  <2>2. CASE InEX.opcode \notin {OPCODE_JEQ, OPCODE_JMP}
    BY <2>2 DEF branch_taken, evaluateBranch
  <2> QED
    BY <2>1, <2>2
<1> QED
  BY <1>1, Invariance, RefinementInvariance, PTL

\* A value that has wrapped is no int32_t.
LEMMA CastKeeps ==
  ASSUME NEW v \in Int32 PROVE ToInt32(v) = v
<1>1. ASSUME NEW h \in Nat \ {0}, NEW x \in -h .. h - 1 PROVE ((x + h) % (2 * h)) - h = x
  OBVIOUS
<1> QED
  BY <1>1, UnitsPositive DEF ToInt32, Int32, WORD_SPACE

\* What the cast makes of a sum or a difference of two int32_t.
LEMMA CastOnce ==
  ASSUME NEW t \in -WORD_SPACE .. WORD_SPACE - 1
  PROVE  ToInt32(t) = IF t >= HALF_WORD THEN t - WORD_SPACE
                      ELSE IF t < -HALF_WORD THEN t + WORD_SPACE ELSE t
<1>1. ASSUME NEW h \in Nat \ {0}, NEW x \in -(2 * h) .. 2 * h - 1
      PROVE  ((x + h) % (2 * h)) - h =
               IF x >= h THEN x - 2 * h ELSE IF x < -h THEN x + 2 * h ELSE x
  OBVIOUS
<1> QED
  BY <1>1, UnitsPositive DEF ToInt32, WORD_SPACE

\* A sum that leaves int32_t wraps to the other sign, or to zero.
LEMMA SumFlagged ==
  ASSUME NEW a \in Int32, NEW b \in Int32, a + b \notin Int32,
         ~ add_overflow(a, b, ToInt32(a + b))
  PROVE  a = -HALF_WORD /\ b = -HALF_WORD
<1>1. /\ HALF_WORD \in Nat \ {0} /\ WORD_SPACE = 2 * HALF_WORD
      /\ a \in Int /\ -HALF_WORD <= a /\ a < HALF_WORD
      /\ b \in Int /\ -HALF_WORD <= b /\ b < HALF_WORD
  BY UnitsPositive DEF Int32, WORD_SPACE
<1>2. a + b >= HALF_WORD \/ a + b < -HALF_WORD
  BY <1>1 DEF Int32
<1>3. ToInt32(a + b) = IF a + b >= HALF_WORD THEN a + b - WORD_SPACE ELSE a + b + WORD_SPACE
  BY <1>1, <1>2, CastOnce
<1> QED
  BY <1>1, <1>2, <1>3 DEF add_overflow

\* So does a difference, or to the smallest number.
LEMMA DifferenceFlagged ==
  ASSUME NEW a \in Int32, NEW b \in Int32, a - b \notin Int32,
         ~ sub_overflow(a, b, ToInt32(a - b))
  PROVE  a = 0 /\ b = -HALF_WORD
<1>1. /\ HALF_WORD \in Nat \ {0} /\ WORD_SPACE = 2 * HALF_WORD
      /\ a \in Int /\ -HALF_WORD <= a /\ a < HALF_WORD
      /\ b \in Int /\ -HALF_WORD <= b /\ b < HALF_WORD
  BY UnitsPositive DEF Int32, WORD_SPACE
<1>2. a - b >= HALF_WORD \/ a - b < -HALF_WORD
  BY <1>1 DEF Int32
<1>3. ToInt32(a - b) = IF a - b >= HALF_WORD THEN a - b - WORD_SPACE ELSE a - b + WORD_SPACE
  BY <1>1, <1>2, CastOnce
<1> QED
  BY <1>1, <1>2, <1>3 DEF sub_overflow

\* The overflow flag is never raised in vain, and is missing in two cases only.
THEOREM OverflowsAreFlagged == Spec => []OverflowFlagged
<1>1. TypeOK => OverflowFlagged
  <2> SUFFICES ASSUME TypeOK, InEX.opcode \in {OPCODE_ADD, OPCODE_SUB}
               PROVE  /\ Alu(InEX).overflow =>
                           /\ TrueResult(InEX) \notin Int32
                           /\ Alu(InEX).negative <=> TrueResult(InEX) > 0
                      /\ ~ Alu(InEX).overflow =>
                           TrueResult(InEX) \in Int32 \/ EscapesNotice(InEX)
    BY DEF OverflowFlagged
  <2> DEFINE op     == opcode_alu_operation(InEX.opcode)
             a      == InEX.operand1
             b      == InEX.operand2
             result == alu_result(op, a, b, InEX.shamt)
             true   == TrueResult(InEX)
  <2>1. a \in Int32 /\ b \in Int32 /\ a \in Int /\ b \in Int
    BY SlotType, Int32Facts DEF PipelineRegister, InEX, Stage
  <2>2. \/ op = "ADD" /\ InEX.opcode = OPCODE_ADD
        \/ op = "SUB" /\ InEX.opcode = OPCODE_SUB /\ InEX.opcode # OPCODE_ADD
    BY DEF opcode_alu_operation, OPCODE_ADD, OPCODE_SUB, OPCODE_MUL, OPCODE_AND, OPCODE_ORI,
           OPCODE_LSL, OPCODE_LSR, OPCODE_MOVI
  <2>3. /\ op = "ADD" => result = ToInt32(a + b) /\ true = a + b
        /\ op = "SUB" => result = ToInt32(a - b) /\ true = a - b
    BY <2>2 DEF alu_result, TrueResult
  <2>4. /\ Alu(InEX).negative <=> result < 0
        /\ Alu(InEX).overflow <=> \/ op = "ADD" /\ add_overflow(a, b, result)
                                  \/ op = "SUB" /\ sub_overflow(a, b, result)
    BY DEF Alu, executeALU
  <2>5. true \in Int /\ result = ToInt32(true) /\ result \in Int
    BY <2>1, <2>2, <2>3, ToInt32Type, Int32Facts
  <2> HIDE DEF op, result, true
  <2>6. ASSUME Alu(InEX).overflow PROVE true \notin Int32 /\ (Alu(InEX).negative <=> true > 0)
    <3>1. \/ true > 0 /\ result < 0
          \/ true < 0 /\ result > 0
      BY <2>1, <2>3, <2>4, <2>5, <2>6 DEF add_overflow, sub_overflow
    <3>2. true \notin Int32
      BY <2>5, <3>1, CastKeeps
    <3> QED
      BY <2>4, <2>5, <3>1, <3>2
  <2>7. ASSUME ~ Alu(InEX).overflow, true \notin Int32 PROVE EscapesNotice(InEX)
    <3>1. CASE op = "ADD"
      BY <2>1, <2>2, <2>3, <2>4, <2>7, <3>1, SumFlagged DEF EscapesNotice
    <3>2. CASE op = "SUB"
      BY <2>1, <2>2, <2>3, <2>4, <2>7, <3>2, DifferenceFlagged DEF EscapesNotice
    <3> QED
      BY <2>2, <3>1, <3>2
  <2> QED
    BY <2>6, <2>7 DEF true
<1> QED
  BY <1>1, TypeCorrect, PTL

=============================================================================
