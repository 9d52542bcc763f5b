--------------------------- MODULE SimulatorProofs --------------------------
(***************************************************************************)
(* The parser and the engine together: what the parser leaves in the CPU   *)
(* is what the engine's model starts from, whatever the file holds, and    *)
(* the engine then executes it as the sequential machine would.  The two   *)
(* halves are the theorems of ParserProofs and TimingProofs, cited for     *)
(* the instances Parse and Engine; what is new here is the step from one   *)
(* to the other, and that a file in scope is executed as it is written.    *)
(***************************************************************************)
EXTENDS SimulatorProps, CpuProofs

-----------------------------------------------------------------------------
(* The operators of the instances are those of this module.                *)

\* The instruction layout.
LEMMA ParserLayout ==
  /\ Parse!R3_UNIT = R3_UNIT /\ Parse!R2_UNIT = R2_UNIT /\ Parse!R1_UNIT = R1_UNIT
  /\ Parse!OPCODE_UNIT = OPCODE_UNIT /\ Parse!IMM_SPACE = IMM_SPACE
  /\ Parse!ADDR_SPACE = ADDR_SPACE /\ Parse!HALF_WORD = HALF_WORD
  /\ Parse!WORD_SPACE = WORD_SPACE /\ Parse!Register = Register /\ Parse!Int32 = Int32
  /\ Parse!Address = Address
  BY DEF Parse!R3_UNIT, R3_UNIT, Parse!R2_UNIT, R2_UNIT, Parse!R1_UNIT, R1_UNIT,
         Parse!OPCODE_UNIT, OPCODE_UNIT, Parse!IMM_SPACE, IMM_SPACE,
         Parse!ADDR_SPACE, ADDR_SPACE, Parse!HALF_WORD, HALF_WORD,
         Parse!WORD_SPACE, WORD_SPACE, Parse!Register, Register, Parse!Int32, Int32,
         Parse!Address, Address

\* The same for the engine.
LEMMA EngineLayout ==
  /\ Engine!R3_UNIT = R3_UNIT /\ Engine!R2_UNIT = R2_UNIT /\ Engine!R1_UNIT = R1_UNIT
  /\ Engine!OPCODE_UNIT = OPCODE_UNIT /\ Engine!IMM_SPACE = IMM_SPACE
  /\ Engine!ADDR_SPACE = ADDR_SPACE /\ Engine!HALF_WORD = HALF_WORD
  /\ Engine!WORD_SPACE = WORD_SPACE /\ Engine!Register = Register /\ Engine!Int32 = Int32
  /\ Engine!Address = Address
  BY DEF Engine!R3_UNIT, R3_UNIT, Engine!R2_UNIT, R2_UNIT, Engine!R1_UNIT, R1_UNIT,
         Engine!OPCODE_UNIT, OPCODE_UNIT, Engine!IMM_SPACE, IMM_SPACE,
         Engine!ADDR_SPACE, ADDR_SPACE, Engine!HALF_WORD, HALF_WORD,
         Engine!WORD_SPACE, WORD_SPACE, Engine!Register, Register, Engine!Int32, Int32,
         Engine!Address, Address

\* Fetching and decoding.
LEMMA ParserDecode ==
  ASSUME NEW w, NEW mem, NEW a
  PROVE  /\ Parse!DecodeFields(w) = DecodeFields(w)
         /\ Parse!memory_fetch_instruction(mem, a) = memory_fetch_instruction(mem, a)
<1>1. Parse!DecodeFields(w) = DecodeFields(w)
  BY ParserLayout
     DEF Parse!DecodeFields, DecodeFields, Parse!OpcodeOf, OpcodeOf,
         Parse!sign_extend, sign_extend,
         Parse!FormatR, FormatR, Parse!FormatI, FormatI, Parse!FormatJ, FormatJ,
         Parse!OPCODE_ADD, OPCODE_ADD, Parse!OPCODE_SUB, OPCODE_SUB,
         Parse!OPCODE_MUL, OPCODE_MUL, Parse!OPCODE_MOVI, OPCODE_MOVI,
         Parse!OPCODE_JEQ, OPCODE_JEQ, Parse!OPCODE_AND, OPCODE_AND,
         Parse!OPCODE_ORI, OPCODE_ORI, Parse!OPCODE_JMP, OPCODE_JMP,
         Parse!OPCODE_LSL, OPCODE_LSL, Parse!OPCODE_LSR, OPCODE_LSR,
         Parse!OPCODE_MOVR, OPCODE_MOVR, Parse!OPCODE_MOVM, OPCODE_MOVM
<1>2. Parse!memory_fetch_instruction(mem, a) = memory_fetch_instruction(mem, a)
  BY ParserLayout
     DEF Parse!memory_fetch_instruction, memory_fetch_instruction,
         Parse!is_instruction_address, is_instruction_address, Parse!ToUint32, ToUint32
<1> QED
  BY <1>1, <1>2

\* The same for the engine.
LEMMA EngineDecode ==
  ASSUME NEW w, NEW mem, NEW a
  PROVE  /\ Engine!DecodeFields(w) = DecodeFields(w)
         /\ Engine!memory_fetch_instruction(mem, a) = memory_fetch_instruction(mem, a)
<1>1. Engine!DecodeFields(w) = DecodeFields(w)
  BY EngineLayout
     DEF Engine!DecodeFields, DecodeFields, Engine!OpcodeOf, OpcodeOf,
         Engine!sign_extend, sign_extend,
         Engine!FormatR, FormatR, Engine!FormatI, FormatI, Engine!FormatJ, FormatJ,
         Engine!OPCODE_ADD, OPCODE_ADD, Engine!OPCODE_SUB, OPCODE_SUB,
         Engine!OPCODE_MUL, OPCODE_MUL, Engine!OPCODE_MOVI, OPCODE_MOVI,
         Engine!OPCODE_JEQ, OPCODE_JEQ, Engine!OPCODE_AND, OPCODE_AND,
         Engine!OPCODE_ORI, OPCODE_ORI, Engine!OPCODE_JMP, OPCODE_JMP,
         Engine!OPCODE_LSL, OPCODE_LSL, Engine!OPCODE_LSR, OPCODE_LSR,
         Engine!OPCODE_MOVR, OPCODE_MOVR, Engine!OPCODE_MOVM, OPCODE_MOVM
<1>2. Engine!memory_fetch_instruction(mem, a) = memory_fetch_instruction(mem, a)
  BY EngineLayout
     DEF Engine!memory_fetch_instruction, memory_fetch_instruction,
         Engine!is_instruction_address, is_instruction_address, Engine!ToUint32, ToUint32
<1> QED
  BY <1>1, <1>2

-----------------------------------------------------------------------------
(* What is known of the two halves.                                        *)

\* The parser starts in its invariant and keeps it.
LEMMA ParserSteps ==
  /\ Parse!Init => Parse!ParserInvariant
  /\ Parse!ParserInvariant /\ [Parse!Next]_(Parse!parserVars) => Parse!ParserInvariant'
  BY Parse!ParserInit, Parse!ParserNext, ParserLayout, LayoutAssumption, MemoryAssumption,
     WordAssumption, SimulatorAssumption, BitOperatorsAssumption

\* The engine keeps its types, its lock step and the invariant of its refinement.
LEMMA EngineSteps ==
  /\ Engine!TypeOK /\ [Engine!Next]_(Engine!vars) => Engine!TypeOK'
  /\ Engine!TypeOK /\ Engine!LockStep /\ [Engine!Next]_(Engine!vars) => Engine!LockStep'
  /\ Engine!IInv /\ Engine!RefinementInvariant /\ [Engine!Next]_(Engine!vars)
       => Engine!RefinementInvariant'
  BY Engine!NextType, Engine!NextLockStep, Engine!NextRefinementInvariant, EngineLayout,
     LayoutAssumption, MemoryAssumption, WordAssumption, SimulatorAssumption,
     BitOperatorsAssumption

\* Each step of the engine is one of the sequential machine or invisible to it.
LEMMA EngineRefines ==
  Engine!IInv /\ Engine!RefinementInvariant /\ [Engine!Next]_(Engine!vars)
    => [Engine!ISA!Step]_(Engine!ISA!isaVars)
  BY Engine!StepMaps, EngineLayout, LayoutAssumption, MemoryAssumption, WordAssumption,
     SimulatorAssumption, BitOperatorsAssumption

-----------------------------------------------------------------------------
(* The inductive invariant.                                                *)

Loading == calling \in {"cpu_reset", "parse_assembly_file"}

\* Until the engine is called everything it works on is as reset leaves it, but for
\* what the parser does.
LoadingHolds ==
  Loading =>
    /\ Parse!ParserInvariant
    /\ PC = 0
    /\ registers = [r \in Register |-> 0]
    /\ ResetEngine(slot, cycle, wait_for_taken_branch_mem, phase)
    /\ stalled = FALSE /\ fetched = FALSE /\ mem_active = FALSE
    /\ calling = "cpu_reset" =>
         memory = [a \in Address |-> 0] /\ instructionCount = 0

\* WB holds, like the stages before it, what was fetched.
WBFetched ==
  ~ Engine!IsEmpty(slot["WB"]) => Engine!FetchedFrom(slot["WB"].reg)

\* From then on the engine's own invariants hold, and the count it goes by is that
\* of the words stored.
RunningHolds ==
  Running =>
    /\ Engine!IInv
    /\ Engine!RefinementInvariant
    /\ WBFetched
    /\ instructionCount = instruction_address
    /\ phase \notin {"start", "done"} => cycle > 0

SimulatorInvariant ==
  /\ Loading \/ Running
  /\ LoadingHolds
  /\ RunningHolds
  /\ EngineFindsProgram

-----------------------------------------------------------------------------
(* The engine's memory under its steps.                                    *)

\* The engine changes neither the count nor a word that can be fetched.
LEMMA EngineFrame ==
  Engine!TypeOK /\ [Engine!Next]_(Engine!vars) =>
    /\ instructionCount' = instructionCount
    /\ \A a \in Nat :
         memory_fetch_instruction(memory', a) = memory_fetch_instruction(memory, a)
<1> SUFFICES ASSUME Engine!TypeOK, [Engine!Next]_(Engine!vars)
             PROVE  /\ instructionCount' = instructionCount
                    /\ \A a \in Nat : memory_fetch_instruction(memory', a) =
                                      memory_fetch_instruction(memory, a)
  OBVIOUS
<1>1. /\ instructionCount' = instructionCount
      /\ \A a \in Nat : Engine!memory_fetch_instruction(memory', a) =
                        Engine!memory_fetch_instruction(memory, a)
  BY Engine!FetchFrame, EngineLayout, LayoutAssumption, MemoryAssumption, WordAssumption,
     SimulatorAssumption, BitOperatorsAssumption
<1> QED
  BY <1>1, EngineDecode

\* Whatever enters WB comes from MEM, and there it is what was fetched.
LEMMA WBStaysFetched ==
  Engine!TypeOK /\ Engine!SlotsFetched /\ WBFetched /\ Engine!Next => WBFetched'
<1> SUFFICES ASSUME Engine!TypeOK, Engine!SlotsFetched, WBFetched, Engine!Next,
                    slot'["WB"].reg.valid
             PROVE  Engine!FetchedFrom(slot["WB"].reg)'
  BY DEF WBFetched, Engine!IsEmpty
<1>1. /\ slot \in [Engine!Stage -> Engine!StageSlot]
      /\ slot["WB"].reg.pc \in Nat /\ slot["MEM"].reg.pc \in Nat
  <2>1. slot \in [Engine!Stage -> Engine!StageSlot]
    BY DEF Engine!TypeOK
  <2>2. slot["WB"].reg \in Engine!PipelineRegister /\ slot["MEM"].reg \in Engine!PipelineRegister
    BY <2>1 DEF Engine!Stage, Engine!StageSlot
  <2> QED
    BY <2>1, <2>2 DEF Engine!PipelineRegister
<1>2. \/ slot'["WB"].reg = slot["WB"].reg
      \/ slot["MEM"].reg.valid /\ slot'["WB"].reg = slot["MEM"].reg
  <2>1. CASE Engine!Transfer
    <3>1. slot'["WB"] = Engine!Moved("WB", Engine!LeavesMEM, "MEM", Engine!WB_CYCLES, Engine!LeavesWB)
      BY <1>1, <2>1 DEF Engine!Transfer, Engine!Stage
    <3>2. CASE Engine!LeavesMEM
      BY <3>1, <3>2 DEF Engine!Moved, Engine!SlotWith, Engine!LeavesMEM, Engine!IsDone
    <3>3. CASE ~ Engine!LeavesMEM /\ Engine!LeavesWB
      BY <3>1, <3>3 DEF Engine!Moved, Engine!EmptySlot, Engine!ZeroRegister
    <3>4. CASE ~ Engine!LeavesMEM /\ ~ Engine!LeavesWB
      BY <3>1, <3>4 DEF Engine!Moved
    <3> QED
      BY <3>2, <3>3, <3>4
  <2>2. CASE Engine!TickWB
    <3>1. slot'["WB"] = Engine!Ticked("WB", slot["WB"].reg)
      BY <1>1, <2>2 DEF Engine!TickWB, Engine!Stage
    <3> QED
      BY <1>1, <3>1 DEF Engine!Ticked, Engine!Stage, Engine!StageSlot
  <2>3. CASE ~ Engine!Transfer /\ ~ Engine!TickWB
    <3>1. slot'["WB"] = slot["WB"]
      BY <1>1, <2>3
         DEF Engine!Next, Engine!StartCycle, Engine!fetch_into_if, Engine!TickMEM, Engine!TickEX,
             Engine!TickID, Engine!TickIF, Engine!Finish, Engine!Terminated, Engine!vars,
             Engine!flushPipeline, Engine!Stage
    <3> QED
      BY <3>1
  <2> QED
    BY <2>1, <2>2, <2>3
<1>3. \/ Engine!FetchedFrom(slot["WB"].reg) /\ slot'["WB"].reg = slot["WB"].reg
      \/ Engine!FetchedFrom(slot["MEM"].reg) /\ slot'["WB"].reg = slot["MEM"].reg
  BY <1>2 DEF WBFetched, Engine!SlotsFetched, Engine!IsEmpty
<1>4. /\ instructionCount' = instructionCount
      /\ \A a \in Nat : Engine!memory_fetch_instruction(memory', a) =
                        Engine!memory_fetch_instruction(memory, a)
  BY EngineFrame, EngineDecode
<1> QED
  BY <1>1, <1>3, <1>4 DEF Engine!FetchedFrom

-----------------------------------------------------------------------------
(* The initial state and the steps.                                        *)

\* The program starts in the invariant.
LEMMA SimulatorInit == Init => SimulatorInvariant
<1> SUFFICES ASSUME Init PROVE SimulatorInvariant
  OBVIOUS
<1>1. Parse!ParserInvariant
  <2>1. Parse!Init
    BY ParserLayout DEF Init, ResetCpu, Parse!Init
  <2> QED
    BY <2>1, ParserSteps
<1>2. calling = "cpu_reset"
  BY DEF Init
<1> QED
  BY <1>1, <1>2
     DEF Init, ResetCpu, SimulatorInvariant, Loading, Running, LoadingHolds, RunningHolds,
         EngineFindsProgram

\* The parser writes nothing but its own part of the CPU.
LEMMA LoadStep == SimulatorInvariant /\ Load => SimulatorInvariant'
<1> SUFFICES ASSUME SimulatorInvariant, Load PROVE SimulatorInvariant'
  OBVIOUS
<1>1. calling = "parse_assembly_file" /\ calling' = calling
  BY DEF Load
<1>2. Parse!ParserInvariant'
  BY <1>1, ParserSteps DEF SimulatorInvariant, LoadingHolds, Loading, Load, Parse!Next
<1> QED
  BY <1>1, <1>2
     DEF Load, engineVars, SimulatorInvariant, Loading, Running, LoadingHolds, RunningHolds,
         EngineFindsProgram, ResetEngine

\* The reset finds everything as it leaves it.
LEMMA ResetStep == SimulatorInvariant /\ Reset => SimulatorInvariant'
<1> SUFFICES ASSUME SimulatorInvariant, Reset PROVE SimulatorInvariant'
  OBVIOUS
<1>1. calling = "cpu_reset" /\ calling' = "parse_assembly_file"
  BY DEF Reset
<1>2. UNCHANGED Parse!parserVars
  BY <1>1
     DEF Reset, ResetCpu, parseVars, SimulatorInvariant, LoadingHolds, Loading,
         Parse!parserVars, Parse!fileVars
<1>3. Parse!ParserInvariant'
  BY <1>1, <1>2, ParserSteps DEF SimulatorInvariant, LoadingHolds, Loading
<1> QED
  BY <1>1, <1>3
     DEF Reset, ResetCpu, engineVars, SimulatorInvariant, Loading, Running, LoadingHolds,
         RunningHolds, EngineFindsProgram, ResetEngine

-----------------------------------------------------------------------------
(* From the parser to the engine.                                          *)

\* What the parser has left when it has returned.
LEMMA ParserLeaves ==
  ASSUME Parse!ParserInvariant, parsing = "done"
  PROVE  /\ memory \in [Address -> Int32]
         /\ instruction_address \in 0 .. INSTRUCTION_MEMORY_SIZE
         /\ instructionCount = instruction_address
         /\ ~ readable => instruction_address = 0
         /\ \A a \in 0 .. instruction_address - 1 :
              DecodeFields(memory_fetch_instruction(memory, a)).valid
         /\ \A a \in Address : a >= instruction_address => memory[a] = 0
<1>1. Parse!TypeOK /\ Parse!StoredIsValid /\ Parse!Progress
  BY DEF Parse!ParserInvariant
<1>2. /\ memory \in [Address -> Int32]
      /\ instruction_address \in 0 .. INSTRUCTION_MEMORY_SIZE
  BY <1>1, ParserLayout DEF Parse!TypeOK
<1>3. /\ instructionCount = instruction_address
      /\ ~ readable => instruction_address = 0
  BY <1>1 DEF Parse!StoredIsValid, Parse!Progress, Parse!TypeOK
<1>4. ASSUME NEW a \in 0 .. instruction_address - 1
      PROVE  DecodeFields(memory_fetch_instruction(memory, a)).valid
  <2>1. a + 1 \in 1 .. instruction_address /\ (a + 1) - 1 = a
    BY <1>2, MemoryAssumption
  <2>2. Parse!Stored[a + 1].valid
    BY <1>1, <2>1 DEF Parse!StoredIsValid
  <2>3. Parse!Stored[a + 1] =
          Parse!DecodeFields(Parse!memory_fetch_instruction(memory, a))
    BY <2>1 DEF Parse!Stored
  <2> QED
    BY <2>2, <2>3, ParserDecode
<1>5. \A a \in Address : a >= instruction_address => memory[a] = 0
  BY <1>1, ParserLayout DEF Parse!StoredIsValid
<1> QED
  BY <1>2, <1>3, <1>4, <1>5

\* A CPU as the parser leaves it and empty stages are where the engine may start.
LEMMA EngineStarts ==
  /\ PC = 0 /\ registers = [r \in Register |-> 0]
  /\ memory \in [Address -> Int32]
  /\ instructionCount \in 0 .. INSTRUCTION_MEMORY_SIZE
  /\ \A a \in 0 .. instructionCount - 1 :
       DecodeFields(memory_fetch_instruction(memory, a)).valid
  /\ ResetEngine(slot, cycle, wait_for_taken_branch_mem, phase)
  /\ stalled = FALSE /\ fetched = FALSE /\ mem_active = FALSE
  => Engine!IInv /\ Engine!RefinementInvariant /\ WBFetched
<1> SUFFICES ASSUME
       PC = 0, registers = [r \in Register |-> 0],
       memory \in [Address -> Int32],
       instructionCount \in 0 .. INSTRUCTION_MEMORY_SIZE,
       \A a \in 0 .. instructionCount - 1 :
         DecodeFields(memory_fetch_instruction(memory, a)).valid,
       ResetEngine(slot, cycle, wait_for_taken_branch_mem, phase),
       stalled = FALSE, fetched = FALSE, mem_active = FALSE
     PROVE Engine!IInv /\ Engine!RefinementInvariant /\ WBFetched
  OBVIOUS
<1>1. /\ slot = [k \in Engine!Stage |-> Engine!EmptySlot]
      /\ cycle = 0 /\ wait_for_taken_branch_mem = FALSE /\ phase = "start"
  BY DEF ResetEngine
<1>2. Engine!TypeOK
  <2>1. registers \in [Register -> Int32]
    BY Int32Facts
  <2>2. Engine!EmptySlot \in Engine!StageSlot
    BY Engine!EmptyType, EngineLayout, LayoutAssumption, MemoryAssumption, WordAssumption,
       SimulatorAssumption, BitOperatorsAssumption
  <2>3. slot \in [Engine!Stage -> Engine!StageSlot]
    BY <1>1, <2>2
  <2>4. cycle \in 0 .. MaxCycles
    BY <1>1, SimulatorAssumption
  <2> QED
    BY <1>1, <2>1, <2>3, <2>4, EngineLayout DEF Engine!TypeOK, Engine!Phase
<1>3. /\ Engine!IsEmpty(slot["IF"]) /\ Engine!IsEmpty(slot["ID"]) /\ Engine!IsEmpty(slot["EX"])
      /\ Engine!IsEmpty(slot["MEM"]) /\ Engine!IsEmpty(slot["WB"])
  BY <1>1 DEF Engine!IsEmpty, Engine!EmptySlot, Engine!ZeroRegister, Engine!Stage
<1>4. ~ Engine!OddCycle /\ ~ Engine!InCycle
  BY <1>1 DEF Engine!OddCycle, Engine!InCycle, Engine!Stage
<1>5. Engine!LockStep
  BY <1>1, <1>3, <1>4
     DEF Engine!LockStep, Engine!BeforeOdd, Engine!BeforeEven, Engine!DuringOdd,
         Engine!DuringEven, Engine!StallCurrent, Engine!FetchAllowed, Engine!LoadUseStalls
<1>6. Engine!WordsValid
  BY EngineDecode DEF Engine!WordsValid, Engine!ProgramAddress
<1>7. Engine!Contents
  BY <1>3 DEF Engine!Contents, Engine!SlotsFetched, Engine!InIDHolds, Engine!InEXHolds,
              Engine!InMEMHolds, Engine!WrittenBack, Engine!LoadDistance, Engine!IsDone,
              Engine!IsEmpty
<1>8. Engine!Flow
  BY <1>3 DEF Engine!Flow
<1> QED
  BY <1>2, <1>3, <1>5, <1>6, <1>7, <1>8
     DEF Engine!IInv, Engine!RefinementInvariant, WBFetched

\* The call of the engine finds what the engine needs.
LEMMA StartStep == SimulatorInvariant /\ StartEngine => SimulatorInvariant'
<1> SUFFICES ASSUME SimulatorInvariant, StartEngine PROVE SimulatorInvariant'
  OBVIOUS
<1>1. /\ calling = "parse_assembly_file" /\ parsing = "done"
      /\ calling' = "pipeline_sim_run" /\ parsing' = parsing
  BY DEF StartEngine, parseVars
<1>2. /\ Parse!ParserInvariant
      /\ PC = 0 /\ registers = [r \in Register |-> 0]
      /\ stalled = FALSE /\ fetched = FALSE /\ mem_active = FALSE
  BY <1>1 DEF SimulatorInvariant, LoadingHolds, Loading
<1>3. /\ memory \in [Address -> Int32]
      /\ instruction_address \in 0 .. INSTRUCTION_MEMORY_SIZE
      /\ instructionCount = instruction_address
      /\ ~ readable => instruction_address = 0
      /\ \A a \in 0 .. instruction_address - 1 :
           DecodeFields(memory_fetch_instruction(memory, a)).valid
      /\ \A a \in Address : a >= instruction_address => memory[a] = 0
  BY <1>1, <1>2, ParserLeaves
<1>4. UNCHANGED <<PC, registers, memory, instructionCount, readable, instruction_address,
                  stalled, fetched, mem_active>>
  BY DEF StartEngine, cpuVars, parseVars
<1>5. (Engine!IInv /\ Engine!RefinementInvariant /\ WBFetched)'
  <2>1. ResetEngine(slot', cycle', wait_for_taken_branch_mem', phase')
    BY DEF StartEngine
  <2>2. (/\ PC = 0 /\ registers = [r \in Register |-> 0]
         /\ memory \in [Address -> Int32]
         /\ instructionCount \in 0 .. INSTRUCTION_MEMORY_SIZE
         /\ \A a \in 0 .. instructionCount - 1 :
              DecodeFields(memory_fetch_instruction(memory, a)).valid
         /\ ResetEngine(slot, cycle, wait_for_taken_branch_mem, phase)
         /\ stalled = FALSE /\ fetched = FALSE /\ mem_active = FALSE)'
    BY <1>2, <1>3, <1>4, <2>1
  <2> QED
    BY <2>2, EngineStarts, PTL
<1>6. EngineFindsProgram'
  <2>1. ASSUME NEW a \in Address
        PROVE  IF a < instructionCount
                 THEN DecodeFields(memory_fetch_instruction(memory, a)).valid
                 ELSE memory[a] = 0
    BY <1>3, MemoryAssumption DEF Address
  <2> QED
    BY <1>2, <1>3, <1>4, <2>1 DEF EngineFindsProgram
<1>7. phase' = "start" /\ instructionCount' = instruction_address'
  BY <1>3, <1>4 DEF StartEngine, ResetEngine
<1> QED
  BY <1>1, <1>5, <1>6, <1>7
     DEF SimulatorInvariant, Loading, Running, LoadingHolds, RunningHolds

-----------------------------------------------------------------------------
(* The engine's run.                                                       *)

\* A step of the engine keeps its invariants, and it never comes back to its start.
LEMMA RunStep == SimulatorInvariant /\ Run => SimulatorInvariant'
<1> SUFFICES ASSUME SimulatorInvariant, Run PROVE SimulatorInvariant'
  OBVIOUS
<1>1. /\ calling = "pipeline_sim_run" /\ calling' = calling
      /\ phase # "done" /\ Engine!Next
      /\ instruction_address' = instruction_address
  BY DEF Run, parseVars
<1>2. /\ Engine!IInv /\ Engine!RefinementInvariant /\ WBFetched
      /\ instructionCount = instruction_address
      /\ phase \notin {"start", "done"} => cycle > 0
  BY <1>1 DEF SimulatorInvariant, RunningHolds, Running
<1>3. Engine!IInv' /\ Engine!RefinementInvariant'
  BY <1>1, <1>2, EngineSteps DEF Engine!IInv
<1>4. WBFetched' /\ instructionCount' = instructionCount
  BY <1>1, <1>2, WBStaysFetched, EngineFrame
     DEF Engine!IInv, Engine!RefinementInvariant, Engine!Contents
<1>5. /\ phase' \notin {"start", "done"} => cycle' > 0
      /\ ~ (phase' = "start" /\ cycle' = 0)
  <2>1. cycle \in Nat
    BY <1>2, SimulatorAssumption DEF Engine!IInv, Engine!TypeOK
  <2>2. CASE Engine!StartCycle
    BY <2>1, <2>2 DEF Engine!StartCycle
  <2>3. CASE Engine!Finish
    BY <2>3 DEF Engine!Finish
  <2>4. CASE ~ Engine!StartCycle /\ ~ Engine!Finish
    <3>1. cycle' = cycle /\ phase \notin {"start", "done"}
      BY <1>1, <2>4
         DEF Engine!Next, Engine!TickWB, Engine!TickMEM, Engine!TickEX, Engine!TickID,
             Engine!TickIF, Engine!Transfer, Engine!Terminated, Engine!loopVars
    <3> QED
      BY <1>2, <2>1, <3>1
  <2> QED
    BY <2>2, <2>3, <2>4
<1> QED
  BY <1>1, <1>2, <1>3, <1>4, <1>5
     DEF SimulatorInvariant, Loading, Running, LoadingHolds, RunningHolds, EngineFindsProgram

\* A step that changes nothing but the call, from the run to the exit.
LEMMA QuietStep ==
  SimulatorInvariant /\ (Exit \/ UNCHANGED vars) => SimulatorInvariant'
<1> SUFFICES ASSUME SimulatorInvariant, Exit \/ UNCHANGED vars PROVE SimulatorInvariant'
  OBVIOUS
<1>1. /\ UNCHANGED <<PC, registers, memory, instructionCount, readable, source, line, column,
                     instruction_address, parsing, slot, cycle, wait_for_taken_branch_mem,
                     phase, stalled, fetched, mem_active>>
      /\ \/ calling' = calling
         \/ calling = "pipeline_sim_run" /\ calling' = "exit"
  BY DEF Exit, vars, cpuVars, parseVars, engineVars
<1>2. UNCHANGED Parse!parserVars /\ UNCHANGED Engine!vars
  BY <1>1 DEF Parse!parserVars, Parse!fileVars, Engine!vars, Engine!cpuVars, Engine!loopVars
<1>3. Parse!ParserInvariant => Parse!ParserInvariant'
  BY <1>2, ParserSteps
<1>4. /\ Engine!IInv /\ Engine!RefinementInvariant
           => Engine!IInv' /\ Engine!RefinementInvariant'
  BY <1>2, EngineSteps DEF Engine!IInv
<1>5. WBFetched' = WBFetched
  BY <1>1 DEF WBFetched, Engine!IsEmpty, Engine!FetchedFrom
<1>6. EngineFindsProgram => EngineFindsProgram'
  BY <1>1 DEF EngineFindsProgram
<1>7. LoadingHolds'
  BY <1>1, <1>3 DEF SimulatorInvariant, LoadingHolds, Loading, ResetEngine
<1>8. RunningHolds'
  BY <1>1, <1>4, <1>5 DEF SimulatorInvariant, RunningHolds, Running
<1> QED
  BY <1>1, <1>6, <1>7, <1>8 DEF SimulatorInvariant, Loading, Running

\* Every step keeps the invariant.
LEMMA SimulatorNext == SimulatorInvariant /\ [Next]_vars => SimulatorInvariant'
  BY ResetStep, LoadStep, StartStep, RunStep, QuietStep DEF Next, Exited

\* While main is loading, the parser's invariant holds and the engine is untouched; from
\* the call of the engine on, the engine's two invariants hold of the words stored.
THEOREM SimulatorInvariance == Spec => []SimulatorInvariant
  BY SimulatorInit, SimulatorNext, PTL DEF Spec

-----------------------------------------------------------------------------
(* The properties.                                                         *)

\* Whatever the file holds, and whether or not it can be read, the engine starts from
\* the CPU that its model assumes: the hypotheses under which the theorems about the
\* pipeline hold are what main.c and parser.c establish.
THEOREM EngineAlwaysFindsProgram == Spec => []EngineFindsProgram
<1>1. SimulatorInvariant => EngineFindsProgram
  BY DEF SimulatorInvariant
<1> QED
  BY <1>1, SimulatorInvariance, PTL

\* Every instruction in the pipeline, from IF to WB, is a word that the parser has
\* stored, at its address.
THEOREM StoredIsFetched == Spec => []FetchesStored
<1>1. ASSUME SimulatorInvariant PROVE FetchesStored
  <2> SUFFICES ASSUME NEW k \in Engine!Stage, slot[k].reg.valid
               PROVE  /\ slot[k].reg.pc < instruction_address
                      /\ slot[k].reg.rawInstruction =
                           memory_fetch_instruction(memory, slot[k].reg.pc)
    BY DEF FetchesStored, Engine!IsEmpty
  <2>1. CASE Loading
    BY <1>1, <2>1
       DEF SimulatorInvariant, LoadingHolds, ResetEngine, Engine!EmptySlot, Engine!ZeroRegister
  <2>2. CASE Running
    <3>1. Engine!SlotsFetched /\ WBFetched /\ instructionCount = instruction_address
      BY <1>1, <2>2
         DEF SimulatorInvariant, RunningHolds, Engine!RefinementInvariant, Engine!Contents
    <3>2. Engine!FetchedFrom(slot[k].reg)
      BY <3>1 DEF Engine!SlotsFetched, WBFetched, Engine!IsEmpty, Engine!Stage
    <3> QED
      BY <3>1, <3>2, EngineDecode DEF Engine!FetchedFrom
  <2> QED
    BY <1>1, <2>1, <2>2 DEF SimulatorInvariant
<1> QED
  BY <1>1, SimulatorInvariance, PTL

\* The two halves together: every word that the parser has stored is executed as the
\* sequential machine executes it, one after the other.
THEOREM StoredIsExecuted == Spec => ExecutesStored
<1>1. ASSUME SimulatorInvariant, [Next]_vars
      PROVE  [Running => [Engine!ISA!Step]_(Engine!ISA!isaVars)]_vars
  <2>1. CASE Run
    <3>1. calling = "pipeline_sim_run" /\ Engine!Next
      BY <2>1 DEF Run
    <3>2. Engine!IInv /\ Engine!RefinementInvariant
      BY <1>1, <3>1 DEF SimulatorInvariant, RunningHolds, Running
    <3> QED
      BY <3>1, <3>2, EngineRefines
  <2>2. CASE Exit
    <3>1. calling = "pipeline_sim_run" /\ UNCHANGED Engine!vars
      BY <2>2 DEF Exit, cpuVars, engineVars, Engine!vars, Engine!cpuVars, Engine!loopVars
    <3>2. Engine!IInv /\ Engine!RefinementInvariant
      BY <1>1, <3>1 DEF SimulatorInvariant, RunningHolds, Running
    <3> QED
      BY <3>1, <3>2, EngineRefines
  <2>3. CASE Reset \/ Load \/ StartEngine
    BY <2>3 DEF Reset, Load, StartEngine, Running
  <2>4. CASE Exited \/ UNCHANGED vars
    BY <2>4 DEF Exited
  <2> QED
    BY <1>1, <2>1, <2>2, <2>3, <2>4 DEF Next
<1> QED
  BY <1>1, SimulatorInvariance, PTL DEF Spec, ExecutesStored

-----------------------------------------------------------------------------
(* The whole program as the machine that executes the file: the operators  *)
(* of the two sequential machines, Engine!ISA on the words stored and      *)
(* Sequential on the instructions written, are those of this module.       *)

\* The instruction layout and the opcodes.
LEMMA SequentialNames ==
  /\ Sequential!HALF_WORD = HALF_WORD /\ Sequential!WORD_SPACE = WORD_SPACE
  /\ Sequential!Register = Register /\ Sequential!Address = Address
  /\ Sequential!OPCODE_ADD = OPCODE_ADD /\ Sequential!OPCODE_SUB = OPCODE_SUB
  /\ Sequential!OPCODE_MUL = OPCODE_MUL /\ Sequential!OPCODE_MOVI = OPCODE_MOVI
  /\ Sequential!OPCODE_JEQ = OPCODE_JEQ /\ Sequential!OPCODE_AND = OPCODE_AND
  /\ Sequential!OPCODE_ORI = OPCODE_ORI /\ Sequential!OPCODE_JMP = OPCODE_JMP
  /\ Sequential!OPCODE_LSL = OPCODE_LSL /\ Sequential!OPCODE_LSR = OPCODE_LSR
  /\ Sequential!OPCODE_MOVR = OPCODE_MOVR /\ Sequential!OPCODE_MOVM = OPCODE_MOVM
  /\ \A opcode : Sequential!opcode_writes_register(opcode) = opcode_writes_register(opcode)
  BY DEF Sequential!R3_UNIT, R3_UNIT, Sequential!R2_UNIT, R2_UNIT, Sequential!R1_UNIT, R1_UNIT,
         Sequential!OPCODE_UNIT, OPCODE_UNIT, Sequential!IMM_SPACE, IMM_SPACE,
         Sequential!ADDR_SPACE, ADDR_SPACE,
         Sequential!HALF_WORD, HALF_WORD, Sequential!WORD_SPACE, WORD_SPACE,
         Sequential!Register, Register, Sequential!Address, Address,
         Sequential!OPCODE_ADD, OPCODE_ADD, Sequential!OPCODE_SUB, OPCODE_SUB,
         Sequential!OPCODE_MUL, OPCODE_MUL, Sequential!OPCODE_MOVI, OPCODE_MOVI,
         Sequential!OPCODE_JEQ, OPCODE_JEQ, Sequential!OPCODE_AND, OPCODE_AND,
         Sequential!OPCODE_ORI, OPCODE_ORI, Sequential!OPCODE_JMP, OPCODE_JMP,
         Sequential!OPCODE_LSL, OPCODE_LSL, Sequential!OPCODE_LSR, OPCODE_LSR,
         Sequential!OPCODE_MOVR, OPCODE_MOVR, Sequential!OPCODE_MOVM, OPCODE_MOVM,
         Sequential!opcode_writes_register, opcode_writes_register

\* The same for the machine that the engine implements.
LEMMA EngineIsaNames ==
  /\ Engine!ISA!HALF_WORD = HALF_WORD /\ Engine!ISA!WORD_SPACE = WORD_SPACE
  /\ Engine!ISA!Register = Register
  /\ Engine!ISA!OPCODE_ADD = OPCODE_ADD /\ Engine!ISA!OPCODE_SUB = OPCODE_SUB
  /\ Engine!ISA!OPCODE_MUL = OPCODE_MUL /\ Engine!ISA!OPCODE_MOVI = OPCODE_MOVI
  /\ Engine!ISA!OPCODE_JEQ = OPCODE_JEQ /\ Engine!ISA!OPCODE_AND = OPCODE_AND
  /\ Engine!ISA!OPCODE_ORI = OPCODE_ORI /\ Engine!ISA!OPCODE_JMP = OPCODE_JMP
  /\ Engine!ISA!OPCODE_LSL = OPCODE_LSL /\ Engine!ISA!OPCODE_LSR = OPCODE_LSR
  /\ Engine!ISA!OPCODE_MOVR = OPCODE_MOVR /\ Engine!ISA!OPCODE_MOVM = OPCODE_MOVM
  /\ \A opcode : Engine!ISA!opcode_writes_register(opcode) = opcode_writes_register(opcode)
  BY DEF Engine!ISA!R3_UNIT, R3_UNIT, Engine!ISA!R2_UNIT, R2_UNIT, Engine!ISA!R1_UNIT, R1_UNIT,
         Engine!ISA!OPCODE_UNIT, OPCODE_UNIT, Engine!ISA!IMM_SPACE, IMM_SPACE,
         Engine!ISA!ADDR_SPACE, ADDR_SPACE,
         Engine!ISA!HALF_WORD, HALF_WORD, Engine!ISA!WORD_SPACE, WORD_SPACE,
         Engine!ISA!Register, Register,
         Engine!ISA!OPCODE_ADD, OPCODE_ADD, Engine!ISA!OPCODE_SUB, OPCODE_SUB,
         Engine!ISA!OPCODE_MUL, OPCODE_MUL, Engine!ISA!OPCODE_MOVI, OPCODE_MOVI,
         Engine!ISA!OPCODE_JEQ, OPCODE_JEQ, Engine!ISA!OPCODE_AND, OPCODE_AND,
         Engine!ISA!OPCODE_ORI, OPCODE_ORI, Engine!ISA!OPCODE_JMP, OPCODE_JMP,
         Engine!ISA!OPCODE_LSL, OPCODE_LSL, Engine!ISA!OPCODE_LSR, OPCODE_LSR,
         Engine!ISA!OPCODE_MOVR, OPCODE_MOVR, Engine!ISA!OPCODE_MOVM, OPCODE_MOVM,
         Engine!ISA!opcode_writes_register, opcode_writes_register

\* Registers, memory and the cast to int32_t.
LEMMA SequentialStorage ==
  ASSUME NEW regs, NEW mem, NEW a, NEW v
  PROVE  /\ Sequential!readRegister(regs, a) = readRegister(regs, a)
         /\ Sequential!writeRegister(regs, a, v) = writeRegister(regs, a, v)
         /\ Sequential!readMemory(mem, a) = readMemory(mem, a)
         /\ Sequential!writeMemory(mem, a, v) = writeMemory(mem, a, v)
         /\ Sequential!is_instruction_address(a) = is_instruction_address(a)
         /\ Sequential!ToInt32(v) = ToInt32(v)
         /\ Sequential!ShiftInRange(v) = ShiftInRange(v)
  BY SequentialNames
     DEF Sequential!readRegister, readRegister, Sequential!writeRegister, writeRegister,
         Sequential!readMemory, readMemory, Sequential!writeMemory, writeMemory,
         Sequential!is_data_address, is_data_address,
         Sequential!is_instruction_address, is_instruction_address,
         Sequential!ToInt32, ToInt32, Sequential!ShiftInRange, ShiftInRange

\* The same for the machine that the engine implements.
LEMMA EngineIsaStorage ==
  ASSUME NEW regs, NEW mem, NEW a, NEW v
  PROVE  /\ Engine!ISA!readRegister(regs, a) = readRegister(regs, a)
         /\ Engine!ISA!writeRegister(regs, a, v) = writeRegister(regs, a, v)
         /\ Engine!ISA!readMemory(mem, a) = readMemory(mem, a)
         /\ Engine!ISA!writeMemory(mem, a, v) = writeMemory(mem, a, v)
         /\ Engine!ISA!is_instruction_address(a) = is_instruction_address(a)
         /\ Engine!ISA!ToInt32(v) = ToInt32(v)
         /\ Engine!ISA!ShiftInRange(v) = ShiftInRange(v)
  BY EngineIsaNames
     DEF Engine!ISA!readRegister, readRegister, Engine!ISA!writeRegister, writeRegister,
         Engine!ISA!readMemory, readMemory, Engine!ISA!writeMemory, writeMemory,
         Engine!ISA!is_data_address, is_data_address,
         Engine!ISA!is_instruction_address, is_instruction_address,
         Engine!ISA!ToInt32, ToInt32, Engine!ISA!ShiftInRange, ShiftInRange

\* Decoding and fetching.
LEMMA EngineIsaDecode ==
  ASSUME NEW w, NEW mem, NEW a
  PROVE  /\ Engine!ISA!DecodeFields(w) = DecodeFields(w)
         /\ Engine!ISA!memory_fetch_instruction(mem, a) = memory_fetch_instruction(mem, a)
<1>1. Engine!ISA!DecodeFields(w) = Engine!DecodeFields(w)
  BY Engine!InstanceDecode, EngineLayout, LayoutAssumption, MemoryAssumption, WordAssumption,
     SimulatorAssumption, BitOperatorsAssumption
<1>2. Engine!ISA!memory_fetch_instruction(mem, a) = memory_fetch_instruction(mem, a)
  BY EngineIsaNames
     DEF Engine!ISA!memory_fetch_instruction, memory_fetch_instruction,
         Engine!ISA!is_instruction_address, is_instruction_address,
         Engine!ISA!ToUint32, ToUint32
<1> QED
  BY <1>1, <1>2, EngineDecode

\* Data memory is memory as loads and stores see it.
LEMMA DataView ==
  ASSUME memory \in [Address -> Int32], NEW a, NEW v
  PROVE  /\ a \in Int => readMemory(Data, a) = readMemory(memory, a)
         /\ memory' = writeMemory(memory, a, v) => Data' = writeMemory(Data, a, v)
         /\ memory' = memory => Data' = Data
<1>1. ASSUME a \in Int PROVE readMemory(Data, a) = readMemory(memory, a)
  BY <1>1, MemoryAssumption DEF readMemory, Data, is_data_address, Address
<1>2. ASSUME memory' = writeMemory(memory, a, v) PROVE Data' = writeMemory(Data, a, v)
  <2>1. CASE is_data_address(a)
    <3>1. memory' = [memory EXCEPT ![a] = v]
      BY <1>2, <2>1 DEF writeMemory
    <3>2. \A x \in Address : memory'[x] = IF x = a THEN v ELSE memory[x]
      BY <3>1
    <3>3. Data' = [x \in Address |-> IF is_data_address(x) THEN memory'[x] ELSE 0]
      BY DEF Data
    <3>4. [Data EXCEPT ![a] = v] =
            [x \in Address |-> IF x = a THEN v
                               ELSE IF is_data_address(x) THEN memory[x] ELSE 0]
      BY DEF Data
    <3> QED
      BY <2>1, <3>2, <3>3, <3>4 DEF writeMemory
  <2>2. CASE ~ is_data_address(a)
    BY <1>2, <2>2 DEF writeMemory, Data
  <2> QED
    BY <2>1, <2>2
<1>3. memory' = memory => Data' = Data
  BY DEF Data
<1> QED
  BY <1>1, <1>2, <1>3

\* While it runs, both machines do the same with an instruction.
LEMMA MachinesAgree ==
  ASSUME Running, memory \in [Address -> Int32], NEW d,
         ToInt32(readRegister(Engine!ArchRegisters, d.r2) + d.immediate) \in Int
  PROVE  LET address == ToInt32(readRegister(Engine!ArchRegisters, d.r2) + d.immediate)
         IN  /\ Engine!ISA!EffectiveAddress(d) = address
             /\ Sequential!EffectiveAddress(d) = address
             /\ Sequential!Target(d) = Engine!ISA!Target(d)
             /\ Sequential!Taken(d) = Engine!ISA!Taken(d)
             /\ opcode_writes_register(d.opcode) =>
                  Sequential!Result(d) = Engine!ISA!Result(d)
<1> DEFINE address == ToInt32(readRegister(Engine!ArchRegisters, d.r2) + d.immediate)
<1>1. \A r : /\ Sequential!Value(r) = readRegister(Engine!ArchRegisters, r)
             /\ Engine!ISA!Value(r) = readRegister(Engine!ArchRegisters, r)
  BY SequentialStorage, EngineIsaStorage DEF Sequential!Value, Engine!ISA!Value
<1>2. Engine!ISA!EffectiveAddress(d) = address /\ Sequential!EffectiveAddress(d) = address
  BY <1>1, SequentialStorage, EngineIsaStorage
     DEF Sequential!EffectiveAddress, Engine!ISA!EffectiveAddress
<1>3. Sequential!Target(d) = Engine!ISA!Target(d)
  BY SequentialNames, EngineIsaNames DEF Sequential!Target, Engine!ISA!Target, Sequential!TargetFrom,
                                              Engine!ISA!TargetFrom
<1>4. Sequential!Taken(d) = Engine!ISA!Taken(d)
  BY <1>1, <1>3, SequentialNames, EngineIsaNames, SequentialStorage, EngineIsaStorage
     DEF Sequential!Taken, Engine!ISA!Taken
<1>5. Sequential!readMemory(Data, address) = Engine!ISA!readMemory(memory, address)
  BY DataView, SequentialStorage, EngineIsaStorage
<1>6. ASSUME opcode_writes_register(d.opcode)
      PROVE  Sequential!Result(d) = Engine!ISA!Result(d)
  <2> HIDE DEF address
  <2>1. /\ \A x : Sequential!ToInt32(x) = ToInt32(x) /\ Engine!ISA!ToInt32(x) = ToInt32(x)
        /\ \A x : /\ Sequential!ShiftInRange(x) = ShiftInRange(x)
                  /\ Engine!ISA!ShiftInRange(x) = ShiftInRange(x)
    BY SequentialStorage, EngineIsaStorage
  <2> QED
    BY <1>1, <1>2, <1>5, <2>1, SequentialNames, EngineIsaNames
       DEF Sequential!Result, Engine!ISA!Result
<1> QED
  BY <1>2, <1>3, <1>4, <1>6

\* The words that have been announced, decoded.
Words == [i \in 1 .. instructionCount |-> DecodeFields(memory_fetch_instruction(memory, i - 1))]

\* The registers and the next address as the sequential machine sees them.
LEMMA ArchType ==
  ASSUME Engine!TypeOK
  PROVE  Engine!ArchRegisters \in [Register -> Int32] /\ Engine!ArchPC \in Nat
<1>1. slot \in [Engine!Stage -> Engine!StageSlot] /\ registers \in [Register -> Int32] /\ PC \in Nat
  BY EngineLayout DEF Engine!TypeOK
<1>2. \A k \in Engine!Stage : slot[k].reg \in Engine!PipelineRegister
  BY <1>1 DEF Engine!StageSlot
<1>3. \A k \in Engine!Stage : slot[k].reg.pc \in Nat
  BY <1>2 DEF Engine!PipelineRegister
<1>4. \A k \in Engine!Stage :
        Engine!complete_wb_stage(registers, slot[k].reg) \in [Register -> Int32]
  BY <1>1, <1>2, Engine!CompleteWbType, EngineLayout, LayoutAssumption, MemoryAssumption,
     WordAssumption, SimulatorAssumption, BitOperatorsAssumption
<1>5. Engine!ArchRegisters \in [Register -> Int32]
  BY <1>1, <1>4 DEF Engine!ArchRegisters, Engine!Stage
<1>6. Engine!ArchPC \in Nat
  BY <1>1, <1>3 DEF Engine!ArchPC, Engine!Stage
<1> QED
  BY <1>5, <1>6

\* If the words are the file's, executing a word is executing an instruction of the file.
LEMMA WordIsInstruction ==
  ASSUME Running, Running', Engine!TypeOK, Words = Program,
         Engine!ISA!Step, UNCHANGED <<readable, source>>
  PROVE  Sequential!RunInstruction
<1> DEFINE a == Engine!ArchPC
           d == DecodeFields(memory_fetch_instruction(memory, a))
           address == ToInt32(readRegister(Engine!ArchRegisters, d.r2) + d.immediate)
<1>1. /\ memory \in [Address -> Int32]
      /\ instructionCount \in Nat
      /\ Engine!ArchRegisters \in [Register -> Int32] /\ a \in Nat
  BY ArchType, EngineLayout, MemoryAssumption DEF Engine!TypeOK
<1>2. a < instructionCount /\ Engine!ISA!Execute(d)
  BY EngineIsaDecode DEF Engine!ISA!Step
<1>3. a + 1 \in 1 .. instructionCount /\ (a + 1) - 1 = a
  BY <1>1, <1>2
<1>4. Len(Program) = instructionCount /\ Program[a + 1] = d
  <2>1. Len(Words) = instructionCount
    BY <1>1 DEF Words
  <2>2. Words[a + 1] = d
    BY <1>3 DEF Words
  <2> QED
    BY <2>1, <2>2
<1>5. address \in Int
  <2>1. d \in DecodedFields
    BY <1>1, FetchType, DecodeFieldsType
  <2>2. d.immediate \in Int
    BY <2>1, Int32Facts DEF DecodedFields
  <2>3. readRegister(Engine!ArchRegisters, d.r2) \in Int
    BY <1>1, ReadRegisterType, Int32Facts
  <2>4. readRegister(Engine!ArchRegisters, d.r2) + d.immediate \in Int
    BY <2>2, <2>3
  <2> QED
    BY <2>4, ToInt32Type, Int32Facts
<1> HIDE DEF d
<1>6. /\ Engine!ISA!EffectiveAddress(d) = address
      /\ Sequential!EffectiveAddress(d) = address
      /\ Sequential!Target(d) = Engine!ISA!Target(d)
      /\ Sequential!Taken(d) = Engine!ISA!Taken(d)
      /\ opcode_writes_register(d.opcode) => Sequential!Result(d) = Engine!ISA!Result(d)
  BY <1>1, <1>5, MachinesAgree
<1> HIDE DEF address
<1>7. \A r : /\ Sequential!Value(r) = readRegister(Engine!ArchRegisters, r)
             /\ Engine!ISA!Value(r) = readRegister(Engine!ArchRegisters, r)
  BY SequentialStorage, EngineIsaStorage DEF Sequential!Value, Engine!ISA!Value
<1>8. Data' = IF d.opcode = OPCODE_MOVM
                THEN writeMemory(Data, address, readRegister(Engine!ArchRegisters, d.r1)) ELSE Data
  <2>1. memory' = IF d.opcode = OPCODE_MOVM
                    THEN writeMemory(memory, address, readRegister(Engine!ArchRegisters, d.r1))
                    ELSE memory
    BY <1>2, <1>6, <1>7, EngineIsaNames, EngineIsaStorage DEF Engine!ISA!Execute
  <2> QED
    BY <1>1, <2>1, DataView
<1>9. Sequential!Execute(d)
  <2>1. Engine!ArchPC' = IF Engine!ISA!Taken(d) THEN Engine!ISA!Target(d) ELSE a + 1
    BY <1>2 DEF Engine!ISA!Execute
  <2>2. Engine!ArchRegisters' = IF opcode_writes_register(d.opcode)
                                  THEN writeRegister(Engine!ArchRegisters, d.r1, Engine!ISA!Result(d))
                                  ELSE Engine!ArchRegisters
    BY <1>2, EngineIsaNames, EngineIsaStorage DEF Engine!ISA!Execute
  <2> QED
    BY <1>6, <1>7, <1>8, <2>1, <2>2, SequentialNames, SequentialStorage DEF Sequential!Execute
<1> QED
  BY <1>2, <1>4, <1>9 DEF Sequential!RunInstruction, Program, Meaning

\* The parser's theorems and this module read a file alike.
LEMMA SameProgram == ASSUME NEW lines PROVE Parse!ProgramOf(lines) = ProgramOf(lines)
  BY DEF Parse!ProgramOf, ProgramOf, Parse!Rank, Rank, Parse!InstructionLines, InstructionLines,
         Parse!Cardinality, Cardinality, Parse!IsInstruction, IsInstruction,
         Parse!Instruction, Instruction, Parse!Written, Written, Parse!Admits, Admits,
         Parse!sign_extend, sign_extend, Parse!Register, Register,
         Parse!IMM_SPACE, IMM_SPACE, Parse!ADDR_SPACE, ADDR_SPACE, Parse!R2_UNIT, R2_UNIT,
         Parse!R1_UNIT, R1_UNIT, Parse!R3_UNIT, R3_UNIT, Parse!OPCODE_UNIT, OPCODE_UNIT,
         Parse!Syntax, Syntax, Parse!Form, Form, Parse!Arithmetic, Arithmetic,
         Parse!Shifting, Shifting, Parse!Immediate, Immediate,
         Parse!OPCODE_ADD, OPCODE_ADD, Parse!OPCODE_SUB, OPCODE_SUB,
         Parse!OPCODE_MUL, OPCODE_MUL, Parse!OPCODE_MOVI, OPCODE_MOVI,
         Parse!OPCODE_JEQ, OPCODE_JEQ, Parse!OPCODE_AND, OPCODE_AND,
         Parse!OPCODE_ORI, OPCODE_ORI, Parse!OPCODE_JMP, OPCODE_JMP,
         Parse!OPCODE_LSL, OPCODE_LSL, Parse!OPCODE_LSR, OPCODE_LSR,
         Parse!OPCODE_MOVR, OPCODE_MOVR, Parse!OPCODE_MOVM, OPCODE_MOVM

\* What is known of the file: while it is read, what has become of the lines read; from
\* the call of the engine on, that the words are its instructions.
FileHolds ==
  /\ source \in Files
  /\ Loading => Parse!Assembled
  /\ Running /\ Parse!InScope => Words = Program

\* While the parser works, no data has been stored.
LEMMA NoDataYet ==
  SimulatorInvariant /\ Loading => Data = [a \in Address |-> 0] /\ registers = [r \in Register |-> 0]
<1> SUFFICES ASSUME SimulatorInvariant, Loading
             PROVE  Data = [a \in Address |-> 0] /\ registers = [r \in Register |-> 0]
  OBVIOUS
<1>1. Parse!TypeOK /\ Parse!StoredIsValid /\ registers = [r \in Register |-> 0]
  BY DEF SimulatorInvariant, LoadingHolds, Parse!ParserInvariant
<1>2. instruction_address \in 0 .. INSTRUCTION_MEMORY_SIZE
  BY <1>1 DEF Parse!TypeOK
<1>3. \A a \in Address : is_data_address(a) => memory[a] = 0
  BY <1>1, <1>2, ParserLayout, MemoryAssumption
     DEF Parse!StoredIsValid, is_data_address, Address
<1> QED
  BY <1>1, <1>3 DEF Data

\* The parser's part of it.
LEMMA ParserFile ==
  /\ Parse!Init => Parse!Assembled
  /\ Parse!ParserInvariant /\ Parse!Assembled /\ [Parse!Next]_(Parse!parserVars)
       => Parse!Assembled'
  /\ Parse!ParserInvariant /\ Parse!Assembled => Parse!StoresTheFile
  BY Parse!AssembledInit, Parse!AssembledNext, Parse!AssembledProgram, ParserLayout,
     LayoutAssumption, MemoryAssumption, WordAssumption, SimulatorAssumption,
     BitOperatorsAssumption

\* The file is there from the beginning.
LEMMA FileInit == Init => FileHolds
<1> SUFFICES ASSUME Init PROVE FileHolds
  OBVIOUS
<1>1. Parse!Init
  BY ParserLayout DEF Init, ResetCpu, Parse!Init
<1> QED
  BY <1>1, ParserFile DEF Init, FileHolds, Running

\* When the parser has returned, the words are the instructions of the file, or there
\* are none.
LEMMA FileLoaded ==
  ASSUME SimulatorInvariant, FileHolds, calling = "parse_assembly_file", parsing = "done",
         Parse!InScope
  PROVE  Words = Program
<1>1. Parse!ParserInvariant /\ Parse!Assembled /\ source \in Files
  BY DEF SimulatorInvariant, LoadingHolds, FileHolds, Loading
<1>2. instructionCount = instruction_address /\ (~ readable => instruction_address = 0)
  BY <1>1, ParserLeaves
<1>3. Words = Parse!Stored
  BY <1>2, ParserDecode DEF Words, Parse!Stored
<1>4. CASE readable
  BY <1>1, <1>3, <1>4, ParserFile, SameProgram DEF Parse!StoresTheFile, Program, Meaning
<1>5. CASE ~ readable
  BY <1>2, <1>5 DEF Words, Program
<1> QED
  BY <1>4, <1>5

\* The file does not change while the program works on it.
LEMMA FileGiven == [Next]_vars => source' = source /\ readable' = readable
  BY DEF Next, Reset, Load, StartEngine, Run, Exit, Exited, vars, parseVars, Parse!Step,
         Parse!Open, Parse!OpenFails, Parse!SkipLine, Parse!RejectLine, Parse!StoreLine,
         Parse!EndOfFile, Parse!Close, Parse!fileVars

\* The words stay as they are while the engine works.
LEMMA WordsStay ==
  Engine!TypeOK /\ [Engine!Next]_(Engine!vars) => Words' = Words
<1> SUFFICES ASSUME Engine!TypeOK, [Engine!Next]_(Engine!vars) PROVE Words' = Words
  OBVIOUS
<1>1. /\ instructionCount' = instructionCount
      /\ \A a \in Nat :
           memory_fetch_instruction(memory', a) = memory_fetch_instruction(memory, a)
  BY EngineFrame
<1>2. \A i \in 1 .. instructionCount :
        memory_fetch_instruction(memory', i - 1) = memory_fetch_instruction(memory, i - 1)
  <2>1. \A i \in 1 .. instructionCount : i - 1 \in Nat
    OBVIOUS
  <2> QED
    BY <1>1, <2>1
<1> QED
  BY <1>1, <1>2 DEF Words

\* Every step keeps what is known of the file.
LEMMA FileNext == SimulatorInvariant /\ FileHolds /\ [Next]_vars => FileHolds'
<1> SUFFICES ASSUME SimulatorInvariant, FileHolds, [Next]_vars PROVE FileHolds'
  OBVIOUS
<1>1. source' = source /\ readable' = readable
  BY FileGiven
<1>2. source' \in Files /\ Parse!InScope' = Parse!InScope /\ Program' = Program
  BY <1>1 DEF FileHolds, Parse!InScope, Program
<1>3. CASE Load
  <2>1. calling = "parse_assembly_file" /\ calling' = calling /\ Parse!Step
    BY <1>3 DEF Load
  <2>2. Parse!Assembled'
    BY <2>1, ParserFile DEF SimulatorInvariant, LoadingHolds, FileHolds, Loading, Parse!Next
  <2> QED
    BY <1>2, <2>1, <2>2 DEF FileHolds, Running
<1>4. CASE Reset
  <2>1. calling = "cpu_reset" /\ calling' = "parse_assembly_file"
    BY <1>4 DEF Reset
  <2>2. UNCHANGED Parse!parserVars
    BY <1>4, <2>1
       DEF Reset, ResetCpu, parseVars, SimulatorInvariant, LoadingHolds, Loading,
           Parse!parserVars, Parse!fileVars
  <2>3. Parse!Assembled'
    BY <2>1, <2>2, ParserFile DEF SimulatorInvariant, LoadingHolds, FileHolds, Loading
  <2> QED
    BY <1>2, <2>1, <2>3 DEF FileHolds, Running
<1>5. CASE StartEngine
  <2>1. /\ calling = "parse_assembly_file" /\ parsing = "done"
        /\ calling' = "pipeline_sim_run" /\ UNCHANGED <<memory, instructionCount>>
    BY <1>5 DEF StartEngine, cpuVars
  <2>2. Parse!InScope => Words' = Program'
    BY <1>2, <2>1, FileLoaded DEF Words
  <2> QED
    BY <1>2, <2>1, <2>2 DEF FileHolds, Loading
<1>6. CASE Run
  <2>1. /\ calling = "pipeline_sim_run" /\ calling' = calling /\ Engine!Next
    BY <1>6 DEF Run
  <2>2. Engine!TypeOK
    BY <2>1 DEF SimulatorInvariant, RunningHolds, Running, Engine!IInv
  <2>3. Words' = Words
    BY <2>1, <2>2, WordsStay
  <2> QED
    BY <1>2, <2>1, <2>3 DEF FileHolds, Loading, Running
<1>7. CASE Exit \/ UNCHANGED vars
  <2>1. /\ UNCHANGED <<memory, instructionCount, Parse!parserVars>>
        /\ \/ calling' = calling
           \/ calling = "pipeline_sim_run" /\ calling' = "exit"
    BY <1>7 DEF Exit, vars, cpuVars, parseVars, Parse!parserVars, Parse!fileVars
  <2>2. Loading' => Parse!Assembled'
    BY <2>1, ParserFile DEF SimulatorInvariant, LoadingHolds, FileHolds, Loading
  <2>3. Words' = Words
    BY <2>1 DEF Words
  <2> QED
    BY <1>2, <2>1, <2>2, <2>3 DEF FileHolds, Running
<1> QED
  BY <1>3, <1>4, <1>5, <1>6, <1>7 DEF Next, Exited

-----------------------------------------------------------------------------
(* The refinement of module Interpreter.                                   *)

\* The program starts as the sequential machine does.
LEMMA SequentialInit == Init => Sequential!ProgramInit
<1> SUFFICES ASSUME Init PROVE Sequential!ProgramInit
  OBVIOUS
<1>1. ~ Running /\ registers = [r \in Register |-> 0] /\ memory = [a \in Address |-> 0]
  BY DEF Init, ResetCpu, Running
<1>2. Data = [a \in Address |-> 0]
  BY <1>1 DEF Data
<1> QED
  BY <1>1, <1>2, SequentialNames DEF Sequential!ProgramInit

\* Every step is an instruction of the file, or the sequential machine does not see it.
LEMMA SequentialStep ==
  SimulatorInvariant /\ FileHolds /\ Parse!InScope /\ [Next]_vars
    => [Sequential!RunInstruction]_(Sequential!programVars)
<1> SUFFICES ASSUME SimulatorInvariant, FileHolds, Parse!InScope, [Next]_vars
             PROVE  Sequential!RunInstruction \/ UNCHANGED Sequential!programVars
  OBVIOUS
<1>1. source' = source /\ readable' = readable /\ Program' = Program
  BY FileGiven DEF Program
<1>2. SimulatorInvariant'
  BY SimulatorNext
<1>3. CASE Reset \/ Load
  <2>1. Loading /\ Loading' /\ ~ Running /\ ~ Running'
    BY <1>3 DEF Reset, Load, Loading, Running
  <2>2. (Data = [a \in Address |-> 0] /\ registers = [r \in Register |-> 0])'
    BY <1>2, <2>1, NoDataYet, PTL
  <2>3. Data = [a \in Address |-> 0] /\ registers = [r \in Register |-> 0]
    BY <2>1, NoDataYet
  <2> QED
    BY <1>1, <2>1, <2>2, <2>3 DEF Sequential!programVars
<1>4. CASE StartEngine
  <2>1. Loading /\ ~ Running /\ Running' /\ ~ Loading'
    BY <1>4 DEF StartEngine, Loading, Running
  <2>2. PC' = 0 /\ registers' = registers /\ memory' = memory
    BY <1>4, <2>1 DEF StartEngine, cpuVars, SimulatorInvariant, LoadingHolds
  <2>3. slot' = [k \in Engine!Stage |-> Engine!EmptySlot]
    BY <1>4 DEF StartEngine, ResetEngine
  <2>4. \A k \in {"IF", "ID", "EX", "MEM", "WB"} : ~ slot'[k].reg.valid
    BY <2>3 DEF Engine!EmptySlot, Engine!ZeroRegister, Engine!Stage
  <2>5. Engine!ArchPC' = 0 /\ Engine!ArchRegisters' = registers'
    BY <2>2, <2>4 DEF Engine!ArchPC, Engine!ArchRegisters, Engine!IsEmpty, Engine!IsDone
  <2>6. Data' = Data
    BY <2>2 DEF Data
  <2> QED
    BY <1>1, <2>1, <2>2, <2>5, <2>6 DEF Sequential!programVars
<1>5. CASE Run \/ Exit
  <2>1. Running /\ Running' /\ [Engine!Next]_(Engine!vars)
    BY <1>5 DEF Run, Exit, Running, cpuVars, engineVars, Engine!vars, Engine!cpuVars,
                Engine!loopVars
  <2>2. Engine!IInv /\ Engine!RefinementInvariant /\ Engine!TypeOK /\ Words = Program
    BY <2>1 DEF SimulatorInvariant, RunningHolds, FileHolds, Engine!IInv
  <2>3. CASE Engine!ISA!Step
    BY <1>1, <2>1, <2>2, <2>3, WordIsInstruction
  <2>4. CASE UNCHANGED Engine!ISA!isaVars
    BY <1>1, <2>1, <2>4 DEF Engine!ISA!isaVars, Sequential!programVars, Data
  <2> QED
    BY <2>1, <2>2, <2>3, <2>4, EngineRefines
<1>6. CASE UNCHANGED vars
  <2>1. UNCHANGED <<PC, registers, memory, slot, calling>>
    BY <1>6 DEF vars, cpuVars, engineVars
  <2> QED
    BY <1>1, <2>1
       DEF Sequential!programVars, Data, Running, Engine!ArchPC, Engine!ArchRegisters,
           Engine!IsEmpty, Engine!IsDone
<1> QED
  BY <1>3, <1>4, <1>5, <1>6 DEF Next, Exited

\* From the text of the file to the last register: whatever is written in a file whose
\* lines fit the buffer and whose numbers fit an int32_t and a jump address, the whole
\* program executes exactly its instructions, in the order in which a machine with
\* neither parser nor pipeline would.
THEOREM FileIsExecuted == Spec /\ Parse!InScope => RunsTheFile
<1>1. Spec => [](SimulatorInvariant /\ FileHolds)
  BY FileInit, FileNext, SimulatorInvariance, PTL DEF Spec
<1>2. Parse!InScope /\ [Next]_vars => Parse!InScope'
  <2> SUFFICES ASSUME Parse!InScope, [Next]_vars PROVE Parse!InScope'
    OBVIOUS
  <2>1. source' = source
    BY FileGiven
  <2> QED
    BY <2>1 DEF Parse!InScope
<1> QED
  BY <1>1, <1>2, SequentialInit, SequentialStep, PTL DEF Spec, Sequential!ProgramSpec, RunsTheFile

-----------------------------------------------------------------------------
(* The end of the program.                                                 *)

\* From the call of the engine on, no cycle is spent without a reason.
RunningInTime == Running => Engine!Dense /\ Engine!Punctual

\* As the engine is set up.
LEMMA EngineReset ==
  Engine!TypeOK /\ PC = 0 /\ cycle = 0 /\ phase = "start"
    /\ slot = [k \in Engine!Stage |-> Engine!EmptySlot]
    => Engine!Dense /\ Engine!Punctual
  BY Engine!ResetTiming, EngineLayout, LayoutAssumption, MemoryAssumption, WordAssumption,
     SimulatorAssumption, BitOperatorsAssumption

\* As it goes on.
LEMMA EngineInTime ==
  /\ Engine!IInv /\ Engine!RefinementInvariant /\ Engine!Dense /\ Engine!Punctual
       /\ [Engine!Next]_(Engine!vars) => Engine!Dense' /\ Engine!Punctual'
  /\ Engine!IInv /\ Engine!RefinementInvariant /\ Engine!Punctual => Engine!DrainsInTime
  BY Engine!NextDense, Engine!NextPunctual, Engine!PunctualDrains,
     EngineLayout, LayoutAssumption, MemoryAssumption, WordAssumption, SimulatorAssumption,
     BitOperatorsAssumption

\* Every step keeps it.
LEMMA InTimeNext == SimulatorInvariant /\ RunningInTime /\ [Next]_vars => RunningInTime'
<1> SUFFICES ASSUME SimulatorInvariant, RunningInTime, [Next]_vars, Running'
             PROVE  Engine!Dense' /\ Engine!Punctual'
  BY DEF RunningInTime
<1>1. CASE StartEngine
  <2>1. SimulatorInvariant'
    BY SimulatorNext
  <2>2. Engine!TypeOK'
    BY <2>1 DEF SimulatorInvariant, RunningHolds, Engine!IInv
  <2>3. PC' = 0
    BY <1>1 DEF StartEngine, cpuVars, SimulatorInvariant, LoadingHolds, Loading
  <2>4. /\ cycle' = 0 /\ phase' = "start"
        /\ slot' = [k \in Engine!Stage |-> Engine!EmptySlot]
    BY <1>1 DEF StartEngine, ResetEngine
  <2>5. (Engine!TypeOK /\ PC = 0 /\ cycle = 0 /\ phase = "start"
           /\ slot = [k \in Engine!Stage |-> Engine!EmptySlot]
           => Engine!Dense /\ Engine!Punctual)'
    BY EngineReset, PTL
  <2>6. Engine!EmptySlot' = Engine!EmptySlot /\ Engine!Stage' = Engine!Stage
    BY DEF Engine!EmptySlot, Engine!ZeroRegister, Engine!Stage
  <2> QED
    BY <2>2, <2>3, <2>4, <2>5, <2>6
<1>2. CASE ~ StartEngine
  <2>1. Running /\ [Engine!Next]_(Engine!vars)
    BY <1>2 DEF Next, Reset, Load, Run, Exit, Exited, Running, vars, cpuVars, engineVars,
                Engine!vars, Engine!cpuVars, Engine!loopVars
  <2>2. Engine!IInv /\ Engine!RefinementInvariant /\ Engine!Dense /\ Engine!Punctual
    BY <2>1 DEF SimulatorInvariant, RunningHolds, RunningInTime
  <2> QED
    BY <2>1, <2>2, EngineInTime
<1> QED
  BY <1>1, <1>2

\* main leaves the engine when its loop has ended.
EndsWithLoop == calling = "exit" => phase = "done"

\* A word that the engine fetches branches where its fields say.
LEMMA EngineTarget ==
  ASSUME Engine!TypeOK, NEW a \in Engine!ProgramAddress
  PROVE  LET d == Engine!DecodeFields(Engine!memory_fetch_instruction(memory, a))
         IN  /\ Engine!IsBranch(a) <=> d.opcode \in {Engine!OPCODE_JEQ, Engine!OPCODE_JMP}
             /\ Engine!branch_target([Engine!Loaded(a) EXCEPT !.pc = a]) =
                  IF d.opcode = Engine!OPCODE_JMP THEN d.address ELSE a + 1 + d.immediate
  BY Engine!LoadedTarget, EngineLayout, LayoutAssumption, MemoryAssumption, WordAssumption,
     SimulatorAssumption, BitOperatorsAssumption

\* The file's instructions and the words that the engine fetches branch alike.
LEMMA ForwardWords ==
  ASSUME Engine!TypeOK, Words = Program, Sequential!OnlyForward
  PROVE  Engine!ForwardOnly
<1>1. instructionCount \in Nat /\ Len(Program) = instructionCount
  BY DEF Words, Engine!TypeOK
<1> SUFFICES ASSUME NEW a \in 0 .. instructionCount - 1, Engine!IsBranch(a)
             PROVE  LET target == Engine!branch_target([Engine!Loaded(a) EXCEPT !.pc = a])
                    IN  target > a \/ target < 0 \/ target >= INSTRUCTION_MEMORY_SIZE
  BY DEF Engine!ForwardOnly, Engine!ProgramAddress
<1> DEFINE d == DecodeFields(memory_fetch_instruction(memory, a))
           target == Engine!branch_target([Engine!Loaded(a) EXCEPT !.pc = a])
<1>2. a + 1 \in 1 .. Len(Program) /\ (a + 1) - 1 = a /\ a \in Nat
  BY <1>1
<1>3. Program[a + 1] = d
  BY <1>1, <1>2 DEF Words
<1>4. /\ d.opcode \in {OPCODE_JEQ, OPCODE_JMP}
      /\ target = IF d.opcode = OPCODE_JMP THEN d.address ELSE a + 1 + d.immediate
  BY EngineTarget, EngineDecode
     DEF Engine!ProgramAddress, Engine!OPCODE_JEQ, OPCODE_JEQ, Engine!OPCODE_JMP, OPCODE_JMP
<1> HIDE DEF d, target
<1>5. Sequential!TargetFrom(a, d) = target
  BY <1>4, SequentialNames DEF Sequential!TargetFrom
<1>6. target >= a + 1 \/ ~ is_instruction_address(target)
  BY <1>2, <1>3, <1>4, <1>5, SequentialNames, SequentialStorage DEF Sequential!OnlyForward
<1>7. target \in Int
  <2>1. d \in DecodedFields
    BY <1>2, FetchType, DecodeFieldsType, EngineLayout DEF d, Engine!TypeOK
  <2> QED
    BY <1>2, <1>4, <2>1, Int32Facts DEF DecodedFields
<1> QED
  BY <1>2, <1>6, <1>7, MemoryAssumption DEF target, is_instruction_address

\* At its exit the program has executed everything, unless the cycle bound ended it.
LEMMA ExitComplete ==
  SimulatorInvariant /\ FileHolds /\ RunningInTime /\ EndsWithLoop /\ Parse!InScope
    => CompletesTheFile
<1> SUFFICES ASSUME SimulatorInvariant, FileHolds, RunningInTime, EndsWithLoop, Parse!InScope,
                    calling = "exit"
             PROVE  \/ Sequential!Ended(registers)
                    \/ /\ cycle = MaxCycles
                       /\ Sequential!OnlyForward => MaxCycles < 6 * Len(Program) + 1
  BY DEF CompletesTheFile
<1>1. /\ Engine!IInv /\ Engine!TypeOK /\ Engine!RefinementInvariant /\ Engine!Punctual
      /\ phase = "done" /\ Words = Program /\ Running
  BY DEF SimulatorInvariant, RunningHolds, RunningInTime, EndsWithLoop, FileHolds, Running,
         Engine!IInv
<1>2. /\ instructionCount \in Nat /\ Len(Program) = instructionCount
      /\ PC \in Nat /\ cycle \in 0 .. MaxCycles
  BY <1>1 DEF Words, Engine!TypeOK
<1>3. CASE Engine!pipeline_has_work
  <2>1. cycle = MaxCycles
    BY <1>1, <1>2, <1>3, SimulatorAssumption DEF Engine!Punctual, Engine!LoopTest
  <2>2. ASSUME Sequential!OnlyForward PROVE MaxCycles < 6 * Len(Program) + 1
    <3>1. Engine!ForwardOnly
      BY <1>1, <2>2, ForwardWords
    <3>2. ~ (MaxCycles >= Engine!Longest)
      BY <1>1, <1>3, <3>1, EngineInTime DEF Engine!DrainsInTime
    <3>3. Engine!Longest = 6 * Len(Program) + 1
      BY <1>2 DEF Engine!Longest, Engine!PipelineDepth, Engine!IF_CYCLES, Engine!ID_CYCLES,
                  Engine!EX_CYCLES, Engine!MEM_CYCLES, Engine!WB_CYCLES
    <3> QED
      BY <1>2, <3>2, <3>3, SimulatorAssumption
  <2> QED
    BY <2>1, <2>2
<1>4. CASE ~ Engine!pipeline_has_work
  <2>1. /\ Engine!IsEmpty(slot["IF"]) /\ Engine!IsEmpty(slot["ID"]) /\ Engine!IsEmpty(slot["EX"])
        /\ Engine!IsEmpty(slot["MEM"]) /\ Engine!IsEmpty(slot["WB"])
        /\ PC >= instructionCount
    BY <1>2, <1>4 DEF Engine!pipeline_has_work, Engine!Stage
  <2>2. Engine!ArchPC = PC /\ Engine!ArchRegisters = registers
    BY <2>1 DEF Engine!ArchPC, Engine!ArchRegisters, Engine!IsDone, Engine!IsEmpty
  <2> QED
    BY <1>1, <1>2, <2>1, <2>2 DEF Sequential!Ended
<1> QED
  BY <1>3, <1>4

\* Whatever a file in scope holds: when the program exits it has executed the file to its
\* end and written back every result, or its cycle bound has been reached; and the bound
\* cannot be reached by a file of n instructions without a branch that goes back, if it
\* is at least 6n + 1.
THEOREM FileIsCompleted == Spec /\ Parse!InScope => []CompletesTheFile
<1>1. Init => RunningInTime /\ EndsWithLoop
  BY DEF Init, RunningInTime, Running, EndsWithLoop
<1>2. EndsWithLoop /\ [Next]_vars => EndsWithLoop'
  BY DEF EndsWithLoop, Next, Reset, Load, StartEngine, Run, Exit, Exited, vars, engineVars
<1>3. Spec => [](SimulatorInvariant /\ FileHolds /\ RunningInTime /\ EndsWithLoop)
  BY <1>1, <1>2, FileInit, FileNext, InTimeNext, SimulatorInvariance, PTL DEF Spec
<1>4. Parse!InScope /\ [Next]_vars => Parse!InScope'
  <2> SUFFICES ASSUME Parse!InScope, [Next]_vars PROVE Parse!InScope'
    OBVIOUS
  <2>1. source' = source
    BY FileGiven
  <2> QED
    BY <2>1 DEF Parse!InScope
<1> QED
  BY <1>3, <1>4, ExitComplete, PTL DEF Spec

=============================================================================
