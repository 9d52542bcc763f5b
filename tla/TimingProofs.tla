----------------------------- MODULE TimingProofs --------------------------
(***************************************************************************)
(* The timing of the pipeline for every register count, word width, memory *)
(* size, program set and cycle bound: the invariant of module TimingInv,   *)
(* and that each instruction completes MEM in the very cycle its           *)
(* predecessor gives it and the engine stops with the last write back.     *)
(***************************************************************************)
EXTENDS TimingInv, RefinementProofs

-----------------------------------------------------------------------------
(* What an instruction costs depends on its identity.                      *)

\* Wherever an instruction moves, its successor in the program stays the same.
LEMMA LoadUseFrame ==
  ASSUME TypeOK, [Next]_vars, NEW k \in Stage, NEW from \in Stage,
         slot'[k].reg.valid = slot[from].reg.valid,
         slot'[k].reg.pc = slot[from].reg.pc,
         slot'[k].reg.opcode = slot[from].reg.opcode,
         slot'[k].reg.r1 = slot[from].reg.r1
  PROVE  LoadUse(slot[k].reg)' <=> LoadUse(slot[from].reg)
<1>1. slot[from].reg.pc \in Nat
  BY SlotType DEF PipelineRegister
<1>2. destination_register(slot[k].reg)' = destination_register(slot[from].reg)
  BY DEF destination_register, instruction_writes_register
<1>3. Loaded(slot[k].reg.pc + 1)' = Loaded(slot[from].reg.pc + 1)
  <2>1. slot[from].reg.pc + 1 \in Nat
    BY <1>1
  <2>2. memory_fetch_instruction(memory', slot[from].reg.pc + 1)
          = memory_fetch_instruction(memory, slot[from].reg.pc + 1)
    BY <2>1, FetchFrame
  <2> QED
    BY <2>2 DEF Loaded
<1>4. instructionCount' = instructionCount
  BY FetchFrame
<1> QED
  BY <1>2, <1>3, <1>4 DEF LoadUse

\* In EX the stall decision tells whether the program has a load-use pair there.
LEMMA HazardIsLoadUse ==
  ASSUME TypeOK, RefinementInvariant, IDFollows, ~ IsEmpty(slot["EX"]),
         ~ slot["EX"].completed, ~ IsEmpty(slot["ID"]) => ~ slot["ID"].completed
  PROVE  Hazard <=> LoadUse(slot["EX"].reg)
<1> DEFINE ex == slot["EX"].reg
           id == slot["ID"].reg
           successor == Loaded(ex.pc + 1)
           producer  == destination_register(ex)
<1>0. WordsValid /\ SlotsFetched /\ Flow
  BY DEF RefinementInvariant, Contents
<1>1. FrontID = ex.pc + 1
  BY <1>0 DEF Flow
<1>2. /\ ex \in PipelineRegister /\ id \in PipelineRegister /\ instructionCount \in Nat
      /\ ex.pc \in Nat /\ ex.r1 \in Nat
  <2>1. ex \in PipelineRegister /\ id \in PipelineRegister
    BY SlotType DEF Stage
  <2>2. ex.pc \in Nat /\ ex.r1 \in Register
    BY <2>1 DEF PipelineRegister
  <2> QED
    BY <2>1, <2>2, LayoutAssumption DEF Register, TypeOK
<1>3. CASE IsEmpty(slot["ID"])
  <2>1. ex.pc + 1 >= instructionCount
    BY <1>1, <1>3 DEF IDFollows, Redirected, IsDone, FrontID
  <2> QED
    BY <1>2, <1>3, <2>1 DEF Hazard, evaluate_id_hazard, LoadUse
<1>4. CASE ~ IsEmpty(slot["ID"])
  <2>1. id.pc = ex.pc + 1
    BY <1>1, <1>4 DEF FrontID
  <2>2. FetchedFrom(id) /\ id.valid
    BY <1>0, <1>4 DEF SlotsFetched, IsEmpty
  <2>3. Decoded(id).valid
    BY <1>0, <1>2, <2>2, FetchedDecodes
  <2>4. /\ Decoded(id).valid = successor.valid /\ Decoded(id).opcode = successor.opcode
        /\ Decoded(id).r1 = successor.r1 /\ Decoded(id).r2 = successor.r2
        /\ Decoded(id).r3 = successor.r3
    BY <2>1, <2>2 DEF Loaded, Decoded, FetchedFrom, ZeroRegister
  <2>5. instruction_reads_register(Decoded(id), producer)
          <=> instruction_reads_register(successor, producer)
    BY <2>4, ReadsSame
  <2>6. ex.opcode = OPCODE_MOVR => producer = ex.r1
    <3>1. ex.valid
      BY DEF IsEmpty
    <3> QED
      BY <3>1 DEF destination_register, instruction_writes_register, opcode_writes_register,
                  OPCODE_MOVR, OPCODE_MOVM, OPCODE_JEQ, OPCODE_JMP
  <2>7. ex.opcode = OPCODE_MOVR /\ instruction_reads_register(successor, producer)
          => producer > 0
    BY <1>2, <2>6 DEF instruction_reads_register
  <2>8. ex.pc + 1 < instructionCount
    BY <2>1, <2>2 DEF FetchedFrom
  <2> QED
    BY <1>4, <2>3, <2>5, <2>7, <2>8 DEF Hazard, evaluate_id_hazard, LoadUse
<1> QED
  BY <1>3, <1>4

-----------------------------------------------------------------------------
(* The row of instructions stays dense.                                    *)

\* A tick that moves no instruction and takes no branch.
LEMMA DenseFrame ==
  ASSUME TypeOK, Dense, [Next]_vars, TickWB \/ TickMEM \/ TickEX \/ TickID \/ TickIF,
         PC' = PC, FrontEX' = FrontEX, Redirected' <=> Redirected,
         \A k \in Stage : slot'[k].reg.valid = slot[k].reg.valid,
         slot'["IF"].reg.pc = slot["IF"].reg.pc,
         slot'["EX"].reg.pc = slot["EX"].reg.pc,
         slot'["EX"].reg.opcode = slot["EX"].reg.opcode,
         slot'["EX"].reg.r1 = slot["EX"].reg.r1,
         WaitsForMEM' => WaitsForMEM /\ slot'["MEM"].reg = slot["MEM"].reg
  PROVE  Dense'
<1>1. /\ IsEmpty(slot["IF"])' <=> IsEmpty(slot["IF"])
      /\ IsEmpty(slot["ID"])' <=> IsEmpty(slot["ID"])
      /\ IsEmpty(slot["EX"])' <=> IsEmpty(slot["EX"])
      /\ \A k \in Stage : IsEmpty(slot[k])' <=> IsEmpty(slot[k])
  BY DEF IsEmpty, Stage
<1>2. (OddCycle' <=> OddCycle) /\ InCycle /\ InCycle' /\ stalled' = stalled /\ cycle' = cycle
  BY TickFrame DEF TickWB, TickMEM, TickEX, TickID, TickIF, loopVars
<1>3. instructionCount' = instructionCount
  BY FetchFrame
<1>4. FrontIF' = FrontIF
  BY <1>1 DEF FrontIF
<1>5. LoadUse(slot["EX"].reg)' <=> LoadUse(slot["EX"].reg)
  BY LoadUseFrame DEF Stage
<1>6. EXFollows'
  <2> SUFFICES ASSUME WaitsForMEM', FrontEX' < instructionCount'
               PROVE  Cost(slot["MEM"].reg)' = DistanceEX'
    BY DEF EXFollows
  <2>1. WaitsForMEM /\ slot'["MEM"].reg = slot["MEM"].reg
    OBVIOUS
  <2>2. LoadUse(slot["MEM"].reg)' <=> LoadUse(slot["MEM"].reg)
    BY <2>1, LoadUseFrame DEF Stage
  <2>3. Cost(slot["MEM"].reg)' = Cost(slot["MEM"].reg)
    BY <2>1, <2>2 DEF Cost
  <2> QED
    BY <1>1, <1>3, <2>1, <2>3 DEF Dense, EXFollows, DistanceEX
<1>7. RedirectEmpties' /\ IFFollows' /\ IDFollows' /\ HeldByLoad'
  BY <1>1, <1>2, <1>3, <1>4, <1>5
     DEF Dense, RedirectEmpties, IFFollows, IDFollows, HeldByLoad
<1>8. WorkInCycle'
  BY <1>1, <1>2, <1>3 DEF Dense, WorkInCycle, pipeline_has_work
<1> QED
  BY <1>6, <1>7, <1>8 DEF Dense

\* An odd cycle fetches whenever it can, and what it fetches leaves no gap.
LEMMA StartCycleDense ==
  ASSUME IInv, RefinementInvariant, Dense, StartCycle PROVE Dense'
<1>0. TypeOK /\ LockStep /\ [Next]_vars
  BY DEF IInv, Next
<1>1. /\ phase = "start" /\ cycle' = cycle + 1 /\ cycle \in Nat /\ ~ InCycle /\ InCycle'
      /\ instructionCount' = instructionCount
      /\ (OddCycle' <=> ~ OddCycle)
  BY <1>0, MaxCyclesAssumption DEF StartCycle, TypeOK, InCycle, Stage, OddCycle
<1>2. /\ slot'["ID"] = slot["ID"] /\ slot'["EX"] = slot["EX"]
      /\ slot'["MEM"] = slot["MEM"] /\ slot'["WB"] = slot["WB"]
  BY <1>0 DEF StartCycle, fetch_into_if, TypeOK, Stage
<1>3. FrontEX' = FrontEX
  BY StartCycleRefinement
<1>4. ~ Redirected /\ ~ Redirected'
  BY <1>0, <1>1, <1>2
     DEF LockStep, BeforeOdd, BeforeEven, Running, Redirected, IsDone, IsEmpty
<1>5. can_fetch_this_cycle(cycle + 1) =>
        /\ IsEmpty(slot["IF"]) /\ ~ IsEmpty(slot'["IF"]) /\ slot'["IF"].reg.pc = PC
  <2> SUFFICES ASSUME can_fetch_this_cycle(cycle + 1)
               PROVE  /\ IsEmpty(slot["IF"])
                      /\ ~ IsEmpty(slot'["IF"]) /\ slot'["IF"].reg.pc = PC
    OBVIOUS
  <2>1. IsEmpty(slot["IF"]) /\ slot'["IF"] = SlotWith(FetchedRegister, IF_CYCLES)
    BY <1>0 DEF StartCycle, fetch_into_if, can_fetch_this_cycle, TypeOK, Stage
  <2>2. slot'["IF"].reg = FetchedRegister
    BY <2>1 DEF SlotWith
  <2>3. FetchedRegister.valid /\ FetchedRegister.pc = PC
    BY DEF FetchedRegister, ZeroRegister
  <2> QED
    BY <2>1, <2>2, <2>3 DEF IsEmpty
<1>6. ~ can_fetch_this_cycle(cycle + 1) => slot' = slot /\ PC' = PC
  BY DEF StartCycle
<1>7. IFFollows'
  <2> SUFFICES ASSUME OddCycle', IsEmpty(slot'["IF"]) PROVE PC' >= instructionCount'
    BY DEF IFFollows
  <2>1. slot' = slot /\ PC' = PC /\ ~ can_fetch_this_cycle(cycle + 1)
    BY <1>5, <1>6
  <2>2. IsEmpty(slot["MEM"]) /\ ~ wait_for_taken_branch_mem /\ (cycle + 1) % 2 = 1
    BY <1>0, <1>1 DEF LockStep, BeforeOdd, OddCycle
  <2> QED
    BY <1>0, <1>1, <2>1, <2>2 DEF can_fetch_this_cycle, TypeOK
<1>8. IDFollows'
  <2>1. FrontIF' = FrontIF
    BY <1>5, <1>6 DEF FrontIF
  <2> QED
    BY <1>1, <1>2, <1>4, <2>1 DEF Dense, IDFollows, IsEmpty
<1>9. HeldByLoad'
  <2> SUFFICES ASSUME OddCycle', ~ IsEmpty(slot'["EX"])
               PROVE  stalled' <=> LoadUse(slot["EX"].reg)'
    BY DEF HeldByLoad
  <2>1. ~ OddCycle /\ ~ IsEmpty(slot["EX"])
    BY <1>1, <1>2
  <2>2. /\ ~ slot["EX"].completed
        /\ ~ IsEmpty(slot["ID"]) => ~ slot["ID"].completed
    BY <1>0, <1>1, <2>1 DEF LockStep, BeforeOdd, Running
  <2>3. Hazard <=> LoadUse(slot["EX"].reg)
    BY <1>0, <2>1, <2>2, HazardIsLoadUse DEF Dense
  <2>4. stalled' <=> Hazard
    BY DEF StartCycle, Hazard
  <2>5. LoadUse(slot["EX"].reg)' <=> LoadUse(slot["EX"].reg)
    BY <1>0, <1>2, LoadUseFrame DEF Stage
  <2> QED
    BY <2>3, <2>4, <2>5
<1>10. EXFollows'
  <2>1. WaitsForMEM' <=> WaitsForMEM
    BY <1>2 DEF WaitsForMEM, IsEmpty
  <2>2. LoadUse(slot["MEM"].reg)' <=> LoadUse(slot["MEM"].reg)
    BY <1>0, <1>2, LoadUseFrame DEF Stage
  <2>3. Cost(slot["MEM"].reg)' = Cost(slot["MEM"].reg)
    BY <1>2, <2>2 DEF Cost
  <2>4. DistanceEX' = DistanceEX
    BY <1>2 DEF DistanceEX, IsEmpty
  <2> QED
    BY <1>1, <1>3, <2>1, <2>3, <2>4 DEF Dense, EXFollows
<1>11. WorkInCycle'
  <2>1. pipeline_has_work
    BY DEF StartCycle
  <2>2. pipeline_has_work'
    BY <1>1, <1>2, <1>5, <1>6, <2>1 DEF pipeline_has_work, Stage
  <2> QED
    BY <1>1, <2>2 DEF WorkInCycle
<1> QED
  BY <1>4, <1>7, <1>8, <1>9, <1>10, <1>11 DEF Dense, RedirectEmpties

\* MEM acts alone in its cycle.
LEMMA TickMEMDense ==
  ASSUME IInv, RefinementInvariant, Dense, TickMEM PROVE Dense'
<1>0. TypeOK /\ [Next]_vars
  BY DEF IInv, Next
<1> DEFINE reg == slot["MEM"].reg
           c   == complete_mem_stage(reg)
<1>1. /\ slot'["IF"] = slot["IF"] /\ slot'["ID"] = slot["ID"]
      /\ slot'["EX"] = slot["EX"] /\ slot'["WB"] = slot["WB"]
      /\ slot'["MEM"] = Ticked("MEM", c) /\ PC' = PC
  BY <1>0 DEF TickMEM, TypeOK, Stage
<1>2. c \in PipelineRegister /\ c.valid = reg.valid
  BY <1>0, SlotType, CompleteMemFacts DEF Stage
<1> HIDE DEF c
<1>3. /\ slot'["MEM"].reg.valid = reg.valid
      /\ ~ Completes("MEM") => slot'["MEM"].reg = reg /\ slot'["MEM"].completed = slot["MEM"].completed
      /\ Completes("MEM") => slot'["MEM"].completed
  BY <1>0, <1>1, <1>2, TickedFacts DEF Stage
<1>4. \A k \in Stage : slot'[k].reg.valid = slot[k].reg.valid
  BY <1>1, <1>3 DEF Stage
<1>5. FrontEX' = FrontEX /\ (Redirected' <=> Redirected)
  BY <1>1 DEF FrontEX, FrontID, FrontIF, IsEmpty, Redirected, IsDone
<1>6. WaitsForMEM' => WaitsForMEM /\ slot'["MEM"].reg = reg
  BY <1>3 DEF WaitsForMEM, IsEmpty
<1> QED
  BY <1>0, <1>1, <1>4, <1>5, <1>6, DenseFrame

\* EX leaves the identity of an instruction and the decision of a branch alone.
LEMMA CompleteExIdentity ==
  ASSUME NEW reg \in PipelineRegister
  PROVE  branch_taken(complete_ex_stage(reg)) <=> branch_taken(reg)
<1> DEFINE c == complete_ex_stage(reg)
<1>1. c.opcode = reg.opcode /\ c.operand1 = reg.operand1 /\ c.operand2 = reg.operand2
  BY CompleteExFacts
<1>2. reg.opcode \in {OPCODE_JEQ, OPCODE_JMP} => branch_target(c) = branch_target(reg)
  BY CompleteExTarget
<1> HIDE DEF c
<1>3. branch_taken(c) <=> branch_taken(reg)
  BY <1>1, <1>2 DEF branch_taken
<1> QED
  BY <1>3 DEF c

\* A taken branch empties the stages behind it.
LEMMA TickEXDense ==
  ASSUME IInv, RefinementInvariant, Dense, TickEX PROVE Dense'
<1>0. TypeOK /\ [Next]_vars
  BY DEF IInv, Next
<1> DEFINE reg   == slot["EX"].reg
           c     == complete_ex_stage(reg)
           taken == Completes("EX") /\ branch_taken(reg)
<1>1. /\ slot'["MEM"] = slot["MEM"] /\ slot'["WB"] = slot["WB"]
      /\ slot'["EX"] = Ticked("EX", c)
  BY <1>0 DEF TickEX, TypeOK, Stage, flushPipeline
<1>2. /\ reg \in PipelineRegister /\ c \in PipelineRegister /\ c.valid = reg.valid
      /\ c.pc = reg.pc /\ c.opcode = reg.opcode /\ c.r1 = reg.r1
      /\ branch_taken(c) <=> branch_taken(reg)
  BY <1>0, SlotType, CompleteExFacts, CompleteExIdentity DEF Stage
<1> HIDE DEF c
<1>3. /\ slot'["EX"].reg.valid = reg.valid /\ slot'["EX"].reg.pc = reg.pc
      /\ slot'["EX"].reg.opcode = reg.opcode /\ slot'["EX"].reg.r1 = reg.r1
      /\ Completes("EX") => slot'["EX"].reg = c /\ slot'["EX"].completed
      /\ ~ Completes("EX") => slot'["EX"].reg = reg /\ slot'["EX"].completed = slot["EX"].completed
  BY <1>0, <1>1, <1>2, TickedFacts DEF Stage
<1>4. FrontEX' = FrontEX
  BY TickEXRefinement
<1>5. Completes("EX") => ~ IsEmpty(slot["EX"]) /\ ~ slot["EX"].completed /\ IsEmpty(slot["MEM"])
  BY AtTickEX DEF Completes, Ticks
<1>6. /\ (OddCycle' <=> OddCycle) /\ InCycle /\ InCycle' /\ stalled' = stalled /\ cycle' = cycle
      /\ instructionCount' = instructionCount
  BY <1>0, TickFrame DEF TickEX, loopVars
<1>7. CASE taken
  <2>1. /\ IsEmpty(slot'["IF"]) /\ IsEmpty(slot'["ID"]) /\ ~ IsEmpty(slot'["EX"])
        /\ Redirected'
    BY <1>0, <1>2, <1>3, <1>5, <1>7
       DEF TickEX, TypeOK, Stage, flushPipeline, IsEmpty, EmptySlot, ZeroRegister, Redirected,
           IsDone
  <2>2. RedirectEmpties' /\ IFFollows' /\ IDFollows'
    BY <2>1 DEF RedirectEmpties, IFFollows, IDFollows
  <2>3. HeldByLoad'
    <3>1. LoadUse(slot["EX"].reg)' <=> LoadUse(reg)
      BY <1>0, <1>3, LoadUseFrame DEF Stage
    <3> QED
      BY <1>5, <1>6, <1>7, <3>1 DEF Dense, HeldByLoad
  <2>4. EXFollows'
    BY <1>1, <1>5, <1>7 DEF EXFollows, WaitsForMEM, IsEmpty
  <2>5. WorkInCycle'
    BY <1>6, <2>1 DEF Dense, WorkInCycle, pipeline_has_work, Stage
  <2> QED
    BY <2>2, <2>3, <2>4, <2>5 DEF Dense
<1>8. CASE ~ taken
  <2>1. slot'["IF"] = slot["IF"] /\ slot'["ID"] = slot["ID"] /\ PC' = PC
    BY <1>0, <1>8 DEF TickEX, TypeOK, Stage
  <2>2. \A k \in Stage : slot'[k].reg.valid = slot[k].reg.valid
    BY <1>1, <1>3, <2>1 DEF Stage
  <2>3. Redirected' <=> Redirected
    BY <1>2, <1>3, <1>5, <1>8 DEF Redirected, IsDone, IsEmpty
  <2>4. WaitsForMEM' => WaitsForMEM /\ slot'["MEM"].reg = slot["MEM"].reg
    BY <1>1 DEF WaitsForMEM, IsEmpty
  <2> QED
    BY <1>0, <1>3, <1>4, <2>1, <2>2, <2>3, <2>4, DenseFrame
<1> QED
  BY <1>7, <1>8

\* WB, ID and IF move and drop no instruction.
LEMMA TickWBDense ==
  ASSUME IInv, RefinementInvariant, Dense, TickWB PROVE Dense'
<1>0. TypeOK /\ [Next]_vars
  BY DEF IInv, Next
<1>1. /\ slot'["IF"] = slot["IF"] /\ slot'["ID"] = slot["ID"]
      /\ slot'["EX"] = slot["EX"] /\ slot'["MEM"] = slot["MEM"]
      /\ slot'["WB"] = Ticked("WB", slot["WB"].reg) /\ PC' = PC
  BY <1>0 DEF TickWB, TypeOK, Stage
<1>2. slot'["WB"].reg = slot["WB"].reg
  BY <1>0, <1>1, SlotType, TickedFacts DEF Stage
<1>3. \A k \in Stage : slot'[k].reg.valid = slot[k].reg.valid
  BY <1>1, <1>2 DEF Stage
<1>4. /\ FrontEX' = FrontEX /\ (Redirected' <=> Redirected)
      /\ WaitsForMEM' => WaitsForMEM
  BY <1>1 DEF FrontEX, FrontID, FrontIF, IsEmpty, Redirected, IsDone, WaitsForMEM
<1> QED
  BY <1>0, <1>1, <1>3, <1>4, DenseFrame

\* The row stays dense when ID is ticked.
LEMMA TickIDDense ==
  ASSUME IInv, RefinementInvariant, Dense, TickID PROVE Dense'
<1>0. TypeOK /\ [Next]_vars /\ WordsValid /\ SlotsFetched
  BY DEF IInv, Next, RefinementInvariant, Contents
<1> DEFINE reg == slot["ID"].reg
           l   == latch_decode_operands(reg)
<1>1. /\ slot'["IF"] = slot["IF"] /\ slot'["EX"] = slot["EX"]
      /\ slot'["MEM"] = slot["MEM"] /\ slot'["WB"] = slot["WB"]
      /\ slot'["ID"] = Ticked("ID", l) /\ PC' = PC
  BY <1>0 DEF TickID, TypeOK, Stage, cpuVars
<1>2. reg \in PipelineRegister /\ l \in PipelineRegister /\ l.valid = Decoded(reg).valid
  BY <1>0, SlotType, LatchFacts DEF Stage
<1>3. reg.valid => Decoded(reg).valid
  BY <1>0, <1>2, FetchedDecodes DEF SlotsFetched, IsEmpty
<1>4. Decoded(reg).valid => reg.valid
  BY DEF Decoded
<1>5. reg.valid \in BOOLEAN /\ l.valid \in BOOLEAN
  BY <1>2 DEF PipelineRegister
<1> HIDE DEF l
<1>6. slot'["ID"].reg.valid = reg.valid
  BY <1>0, <1>1, <1>2, <1>3, <1>4, <1>5, TickedFacts DEF Stage
<1>7. \A k \in Stage : slot'[k].reg.valid = slot[k].reg.valid
  BY <1>1, <1>6 DEF Stage
<1>8. /\ Redirected' <=> Redirected
      /\ WaitsForMEM' => WaitsForMEM
  BY <1>1 DEF IsEmpty, Redirected, IsDone, WaitsForMEM
<1> QED
  BY <1>0, <1>1, <1>7, <1>8, TickIDRefinement, DenseFrame

\* The row stays dense when IF is ticked.
LEMMA TickIFDense ==
  ASSUME IInv, RefinementInvariant, Dense, TickIF PROVE Dense'
<1>0. TypeOK /\ [Next]_vars
  BY DEF IInv, Next
<1>1. /\ slot'["ID"] = slot["ID"] /\ slot'["EX"] = slot["EX"]
      /\ slot'["MEM"] = slot["MEM"] /\ slot'["WB"] = slot["WB"]
      /\ slot'["IF"] = Ticked("IF", slot["IF"].reg) /\ PC' = PC
  BY <1>0 DEF TickIF, TypeOK, Stage, cpuVars
<1>2. slot'["IF"].reg = slot["IF"].reg
  BY <1>0, <1>1, SlotType, TickedFacts DEF Stage
<1>3. \A k \in Stage : slot'[k].reg.valid = slot[k].reg.valid
  BY <1>1, <1>2 DEF Stage
<1>4. /\ Redirected' <=> Redirected
      /\ WaitsForMEM' => WaitsForMEM
  BY <1>1 DEF IsEmpty, Redirected, IsDone, WaitsForMEM
<1> QED
  BY <1>0, <1>1, <1>2, <1>3, <1>4, TickIFRefinement, DenseFrame

\* The transfer after an odd cycle, by what leaves: ID goes unless a stall holds it,
\* and takes IF along.
LEMMA OddMoves ==
  ASSUME IInv, Dense, Transfer, OddCycle
  PROVE  /\ InCycle
         /\ LeavesID <=> ~ IsEmpty(slot["ID"]) /\ ~ stalled
         /\ LeavesIF <=> ~ IsEmpty(slot["IF"]) /\ (IsEmpty(slot["ID"]) \/ LeavesID)
         /\ stalled => ~ IsEmpty(slot["EX"]) /\ ~ IsEmpty(slot["ID"])
<1>0. TypeOK /\ LockStep
  BY DEF IInv
<1>1. InCycle /\ AfterWB /\ AfterMEM /\ AfterEX /\ AfterID /\ AfterIF
  BY DEF Transfer, InCycle, Stage, AfterWB, AfterMEM, AfterEX, AfterID, AfterIF
<1>2. /\ IsEmpty(slot["MEM"])
      /\ ~ IsEmpty(slot["EX"]) => slot["EX"].completed
      /\ ~ IsEmpty(slot["ID"]) => IF stalled THEN Running("ID", 2) ELSE slot["ID"].completed
      /\ ~ IsEmpty(slot["IF"]) => slot["IF"].completed
      /\ stalled => ~ IsEmpty(slot["EX"]) /\ ~ IsEmpty(slot["ID"])
  BY <1>0, <1>1 DEF LockStep, DuringOdd
<1>3. LeavesEX <=> ~ IsEmpty(slot["EX"])
  BY <1>2 DEF LeavesEX, IsDone, IsEmpty
<1>4. LeavesID <=> ~ IsEmpty(slot["ID"]) /\ ~ stalled
  BY <1>2, <1>3 DEF LeavesID, IsDone, IsEmpty, Running
<1>5. LeavesIF <=> ~ IsEmpty(slot["IF"]) /\ (IsEmpty(slot["ID"]) \/ LeavesID)
  BY <1>2 DEF LeavesIF, IsDone, IsEmpty
<1> QED
  BY <1>1, <1>2, <1>4, <1>5

\* What follows an instruction into MEM is as far behind it as its cost.
LEMMA TransferDense ==
  ASSUME IInv, RefinementInvariant, Dense, Transfer PROVE Dense'
<1>0. TypeOK /\ [Next]_vars /\ Flow /\ Flow'
  BY NextRefinementInvariant DEF IInv, Next, RefinementInvariant
<1>1. /\ ~ InCycle' /\ PC' = PC /\ cycle' = cycle /\ instructionCount' = instructionCount
      /\ PC \in Nat /\ instructionCount \in Nat
  BY <1>0 DEF Transfer, InCycle, Stage, cpuVars, loopVars, TypeOK
<1>2. IFFollows' /\ HeldByLoad' /\ WorkInCycle'
  BY <1>1 DEF IFFollows, HeldByLoad, WorkInCycle
<1>3. CASE OddCycle
  <2>1. /\ IsEmpty(slot["MEM"])
        /\ ~ IsEmpty(slot["EX"]) =>
             slot["EX"].completed /\ slot'["MEM"].reg = slot["EX"].reg /\ ~ slot'["MEM"].completed
        /\ IsEmpty(slot["EX"]) => IsEmpty(slot'["MEM"])
        /\ LeavesID =>
             IsDone(slot["ID"]) /\ slot'["EX"].reg = slot["ID"].reg /\ ~ slot'["EX"].completed
        /\ ~ LeavesID => IsEmpty(slot'["EX"])
        /\ LeavesIF => slot'["ID"].reg = slot["IF"].reg /\ IsEmpty(slot'["IF"])
        /\ ~ LeavesIF => slot'["IF"] = slot["IF"]
        /\ ~ LeavesIF /\ LeavesID => IsEmpty(slot'["ID"])
        /\ ~ LeavesIF /\ ~ LeavesID => slot'["ID"] = slot["ID"]
    BY <1>3, TransferOdd
  <2>2. /\ InCycle
        /\ LeavesID <=> ~ IsEmpty(slot["ID"]) /\ ~ stalled
        /\ LeavesIF <=> ~ IsEmpty(slot["IF"]) /\ (IsEmpty(slot["ID"]) \/ LeavesID)
    BY <1>3, OddMoves
  <2>3. ~ Redirected' /\ RedirectEmpties'
    BY <2>1 DEF RedirectEmpties, Redirected, IsDone, IsEmpty
  <2>4. IDFollows'
    <3> SUFFICES ASSUME ~ IsEmpty(slot'["EX"]), IsEmpty(slot'["ID"])
                 PROVE  FrontIF' >= instructionCount'
      BY DEF IDFollows
    <3>1. LeavesID /\ ~ LeavesIF
      BY <2>1, <2>2 DEF IsEmpty
    <3>2. IsEmpty(slot["IF"]) /\ ~ IsEmpty(slot["ID"])
      BY <2>2, <3>1
    <3>3. ~ Redirected
      BY <3>2 DEF Dense, RedirectEmpties
    <3>4. PC >= instructionCount
      BY <1>3, <2>2, <3>2, <3>3 DEF Dense, IFFollows
    <3> QED
      BY <1>1, <2>1, <3>1, <3>2, <3>4 DEF FrontIF
  <2>5. EXFollows'
    <3> SUFFICES ASSUME WaitsForMEM', FrontEX' < instructionCount'
                 PROVE  Cost(slot["MEM"].reg)' = DistanceEX'
      BY DEF EXFollows
    <3>1. ~ IsEmpty(slot["EX"]) /\ IsDone(slot["EX"]) /\ slot'["MEM"].reg = slot["EX"].reg
      BY <2>1 DEF WaitsForMEM, IsDone, IsEmpty
    <3>2. LoadUse(slot["MEM"].reg)' <=> LoadUse(slot["EX"].reg)
      BY <1>0, <3>1, LoadUseFrame DEF Stage
    <3>3. Cost(slot["MEM"].reg)' = Cost(slot["EX"].reg)
      BY <3>1, <3>2 DEF Cost
    <3>4. stalled <=> LoadUse(slot["EX"].reg)
      BY <1>3, <2>2, <3>1 DEF Dense, HeldByLoad
    <3>5. FrontEX' = FrontID
      BY <1>0, <3>1 DEF Flow, WaitsForMEM, IsDone, IsEmpty
    <3>6. CASE Redirected
      <4>1. IsEmpty(slot["ID"]) /\ IsEmpty(slot["IF"])
        BY <3>6 DEF Dense, RedirectEmpties
      <4>2. IsEmpty(slot'["EX"]) /\ IsEmpty(slot'["ID"])
        BY <2>1, <2>2, <4>1
      <4> QED
        BY <3>3, <3>6, <4>2
           DEF Redirected, Cost, DistanceEX, PipelineDepth, IF_CYCLES, ID_CYCLES, EX_CYCLES, MEM_CYCLES
    <3>7. CASE ~ Redirected
      <4>1. ~ branch_taken(slot["EX"].reg)
        BY <3>1, <3>7 DEF Redirected
      <4>2. ~ IsEmpty(slot["ID"])
        <5>1. FrontID < instructionCount
          BY <1>1, <3>5
        <5>2. IsEmpty(slot["ID"]) => FrontIF >= instructionCount /\ FrontID = FrontIF
          BY <3>1, <3>7 DEF Dense, IDFollows, FrontID
        <5>3. ~ IsEmpty(slot["IF"]) => slot["IF"].reg.pc \in Nat
          <6>1. slot["IF"].reg \in PipelineRegister
            BY <1>0, SlotType DEF Stage
          <6> QED
            BY <6>1 DEF PipelineRegister
        <5> QED
          BY <1>1, <5>1, <5>2, <5>3 DEF FrontIF
      <4>3. CASE stalled
        <5>1. IsEmpty(slot'["EX"]) /\ ~ IsEmpty(slot'["ID"])
          BY <2>1, <2>2, <4>2, <4>3
        <5> QED
          BY <3>3, <3>4, <4>1, <4>3, <5>1 DEF Cost, DistanceEX, FetchInterval, EX_CYCLES
      <4>4. CASE ~ stalled
        <5>1. ~ IsEmpty(slot'["EX"])
          BY <2>1, <2>2, <4>2, <4>4 DEF IsEmpty
        <5> QED
          BY <3>3, <3>4, <4>1, <4>4, <5>1 DEF Cost, DistanceEX, FetchInterval
      <4> QED
        BY <4>3, <4>4
    <3> QED
      BY <3>6, <3>7
  <2> QED
    BY <1>2, <2>3, <2>4, <2>5 DEF Dense
<1>4. CASE ~ OddCycle
  <2>1. /\ slot'["IF"] = slot["IF"] /\ slot'["ID"] = slot["ID"] /\ slot'["EX"] = slot["EX"]
        /\ IsEmpty(slot'["MEM"])
    BY <1>4, TransferEven
  <2>2. (Redirected' <=> Redirected) /\ FrontIF' = FrontIF
    BY <1>1, <2>1 DEF Redirected, IsDone, FrontIF, IsEmpty
  <2>3. RedirectEmpties' /\ IDFollows' /\ EXFollows'
    BY <1>1, <2>1, <2>2 DEF Dense, RedirectEmpties, IDFollows, EXFollows, WaitsForMEM, IsEmpty
  <2> QED
    BY <1>2, <2>3 DEF Dense
<1> QED
  BY <1>3, <1>4

\* An empty row at the start.
LEMMA EmptyDense == ~ InCycle /\ (\A k \in Stage : IsEmpty(slot[k])) => Dense
<1> SUFFICES ASSUME ~ InCycle, \A k \in Stage : IsEmpty(slot[k]) PROVE Dense
  OBVIOUS
<1>1. IsEmpty(slot["EX"]) /\ IsEmpty(slot["MEM"])
  BY DEF Stage
<1> QED
  BY <1>1 DEF Dense, RedirectEmpties, IFFollows, IDFollows, HeldByLoad, EXFollows,
              WorkInCycle, Redirected, IsDone, IsEmpty, WaitsForMEM

\* No step opens a gap.
LEMMA NextDense == IInv /\ RefinementInvariant /\ Dense /\ [Next]_vars => Dense'
<1> SUFFICES ASSUME IInv, RefinementInvariant, Dense, [Next]_vars PROVE Dense'
  OBVIOUS
<1>1. CASE Finish \/ UNCHANGED vars
  <2>1. /\ UNCHANGED <<PC, memory, instructionCount, slot, cycle, stalled>>
        /\ InCycle' => InCycle
    BY <1>1 DEF Finish, vars, cpuVars, loopVars, InCycle, Stage
  <2>2. \A k \in Stage : LoadUse(slot[k].reg)' <=> LoadUse(slot[k].reg)
    BY <2>1, LoadUseFrame DEF IInv
  <2>3. /\ LoadUse(slot["EX"].reg)' <=> LoadUse(slot["EX"].reg)
        /\ LoadUse(slot["MEM"].reg)' <=> LoadUse(slot["MEM"].reg)
    BY <2>2 DEF Stage
  <2>4. Cost(slot["MEM"].reg)' = Cost(slot["MEM"].reg)
    BY <2>1, <2>3 DEF Cost
  <2>5. /\ (Redirected' <=> Redirected) /\ FrontIF' = FrontIF /\ FrontEX' = FrontEX
        /\ (OddCycle' <=> OddCycle) /\ (pipeline_has_work' <=> pipeline_has_work)
        /\ (WaitsForMEM' <=> WaitsForMEM) /\ DistanceEX' = DistanceEX
    BY <2>1 DEF Redirected, IsDone, FrontIF, FrontID, FrontEX, IsEmpty, OddCycle,
                pipeline_has_work, WaitsForMEM, DistanceEX
  <2> QED
    BY <2>1, <2>3, <2>4, <2>5
       DEF Dense, RedirectEmpties, IFFollows, IDFollows, HeldByLoad, EXFollows, WorkInCycle
<1>2. CASE ~ (Finish \/ UNCHANGED vars)
  BY <1>2, StartCycleDense, TickWBDense, TickMEMDense, TickEXDense, TickIDDense, TickIFDense,
     TransferDense DEF Next, Terminated
<1> QED
  BY <1>1, <1>2

-----------------------------------------------------------------------------
(* The schedule.                                                           *)

\* The address of the sequential machine, by what waits for MEM.
LEMMA ArchPCView ==
  ArchPC = IF WaitsForMEM THEN slot["MEM"].reg.pc ELSE FrontEX
  BY DEF ArchPC, WaitsForMEM, FrontEX, FrontID, FrontIF

\* MEM completes in even cycles only, with WB empty.
LEMMA CompletesMEMFacts ==
  IInv /\ RefinementInvariant /\ CompletesMEM =>
    /\ ~ OddCycle /\ InCycle /\ WaitsForMEM /\ ArchPC < instructionCount
    /\ slot["MEM"].reg.pc < instructionCount
<1> SUFFICES ASSUME IInv, RefinementInvariant, CompletesMEM
             PROVE  /\ ~ OddCycle /\ InCycle /\ WaitsForMEM /\ ArchPC < instructionCount
                    /\ slot["MEM"].reg.pc < instructionCount
  OBVIOUS
<1>1. WaitsForMEM /\ InCycle
  BY DEF CompletesMEM, Completes, Ticks, WaitsForMEM, InCycle, Stage
<1>2. ~ OddCycle
  BY <1>1 DEF IInv, LockStep, DuringOdd, WaitsForMEM
<1>3. FetchedFrom(slot["MEM"].reg)
  BY <1>1 DEF RefinementInvariant, Contents, SlotsFetched, WaitsForMEM
<1> QED
  BY <1>1, <1>2, <1>3, ArchPCView DEF FetchedFrom

\* A cost is a number of cycles.
LEMMA CostType == ASSUME NEW reg PROVE Cost(reg) \in Nat
  BY DEF Cost, PipelineDepth, FetchInterval, IF_CYCLES, ID_CYCLES, EX_CYCLES, MEM_CYCLES

\* In the phase of MEM whatever is there and waits completes.
LEMMA MEMIsPrompt ==
  IInv /\ phase = "MEM" /\ WaitsForMEM => Completes("MEM")
<1> SUFFICES ASSUME IInv, phase = "MEM", WaitsForMEM PROVE Completes("MEM")
  OBVIOUS
<1>1. InCycle /\ ~ AfterMEM
  BY DEF InCycle, Stage, AfterMEM
<1> QED
  BY <1>1 DEF IInv, LockStep, DuringOdd, DuringEven, Running, WaitsForMEM, Completes, Ticks

\* A tick drops no instruction, but for what a taken branch flushes.
LEMMA TicksKeep ==
  ASSUME IInv, RefinementInvariant, TickWB \/ TickMEM \/ TickEX \/ TickID \/ TickIF
  PROVE  /\ \A k \in {"EX", "MEM", "WB"} : slot'[k].reg.valid = slot[k].reg.valid
         /\ slot'["ID"].reg.valid = slot["ID"].reg.valid \/ ~ IsEmpty(slot["EX"])
<1>0. TypeOK /\ WordsValid /\ SlotsFetched
  BY DEF IInv, RefinementInvariant, Contents
<1>1. \A k \in Stage : slot[k].reg \in PipelineRegister
  BY <1>0, SlotType
<1>2. ASSUME NEW k \in Stage, NEW c \in PipelineRegister, c.valid = slot[k].reg.valid
      PROVE  Ticked(k, c).reg.valid = slot[k].reg.valid
  BY <1>0, <1>2, TickedFacts
<1>3. CASE TickWB
  <2>1. /\ slot'["ID"] = slot["ID"] /\ slot'["EX"] = slot["EX"] /\ slot'["MEM"] = slot["MEM"]
        /\ slot'["WB"] = Ticked("WB", slot["WB"].reg)
    BY <1>0, <1>3 DEF TickWB, TypeOK, Stage
  <2> QED
    BY <1>1, <1>2, <2>1 DEF Stage
<1>4. CASE TickMEM
  <2> DEFINE c == complete_mem_stage(slot["MEM"].reg)
  <2>1. /\ slot'["ID"] = slot["ID"] /\ slot'["EX"] = slot["EX"] /\ slot'["WB"] = slot["WB"]
        /\ slot'["MEM"] = Ticked("MEM", c)
    BY <1>0, <1>4 DEF TickMEM, TypeOK, Stage
  <2>2. c \in PipelineRegister /\ c.valid = slot["MEM"].reg.valid
    BY <1>0, <1>1, CompleteMemFacts DEF Stage
  <2> HIDE DEF c
  <2> QED
    BY <1>2, <2>1, <2>2 DEF Stage
<1>5. CASE TickEX
  <2> DEFINE c == complete_ex_stage(slot["EX"].reg)
  <2>1. /\ slot'["MEM"] = slot["MEM"] /\ slot'["WB"] = slot["WB"]
        /\ slot'["EX"] = Ticked("EX", c)
        /\ ~ Completes("EX") => slot'["ID"] = slot["ID"]
    BY <1>0, <1>5 DEF TickEX, TypeOK, Stage, flushPipeline
  <2>2. c \in PipelineRegister /\ c.valid = slot["EX"].reg.valid
    BY <1>0, <1>1, CompleteExFacts DEF Stage
  <2>3. Completes("EX") => ~ IsEmpty(slot["EX"])
    BY DEF Completes, Ticks
  <2> HIDE DEF c
  <2> QED
    BY <1>2, <2>1, <2>2, <2>3 DEF Stage
<1>6. CASE TickID
  <2> DEFINE reg == slot["ID"].reg
             l   == latch_decode_operands(reg)
  <2>1. /\ slot'["EX"] = slot["EX"] /\ slot'["MEM"] = slot["MEM"] /\ slot'["WB"] = slot["WB"]
        /\ slot'["ID"] = Ticked("ID", l)
    BY <1>0, <1>6 DEF TickID, TypeOK, Stage
  <2>2. reg \in PipelineRegister /\ l \in PipelineRegister /\ l.valid = Decoded(reg).valid
    BY <1>0, <1>1, LatchFacts DEF Stage
  <2>3. reg.valid => Decoded(reg).valid
    BY <1>0, <2>2, FetchedDecodes DEF SlotsFetched, IsEmpty
  <2>4. Decoded(reg).valid => reg.valid
    BY DEF Decoded
  <2>5. reg.valid \in BOOLEAN /\ l.valid \in BOOLEAN
    BY <2>2 DEF PipelineRegister
  <2> HIDE DEF l
  <2>6. l.valid = reg.valid
    BY <2>2, <2>3, <2>4, <2>5
  <2> QED
    BY <1>2, <2>1, <2>2, <2>6 DEF Stage
<1>7. CASE TickIF
  BY <1>0, <1>7 DEF TickIF, TypeOK, Stage
<1> QED
  BY <1>3, <1>4, <1>5, <1>6, <1>7

\* A step outside MEM and the transfer keeps turn, distance and address.
LEMMA QuietStep ==
  ASSUME IInv, RefinementInvariant, [Next]_vars, ~ CompletesMEM, ~ Transfer
  PROVE  /\ MemTurn' = MemTurn /\ Distance' = Distance /\ ArchPC' = ArchPC
         /\ IsDone(slot["MEM"])' <=> IsDone(slot["MEM"])
         /\ IsEmpty(slot["WB"])' <=> IsEmpty(slot["WB"])
<1>0. TypeOK /\ IInv' /\ cycle \in Nat
  BY NextType, NextLockStep, MaxCyclesAssumption DEF IInv, TypeOK
<1>1. CASE StartCycle
  <2>1. /\ phase = "start" /\ cycle' = cycle + 1 /\ ~ InCycle /\ InCycle'
        /\ (OddCycle' <=> ~ OddCycle)
    BY <1>0, <1>1 DEF StartCycle, InCycle, Stage, OddCycle
  <2>2. /\ slot'["ID"] = slot["ID"] /\ slot'["EX"] = slot["EX"]
        /\ slot'["MEM"] = slot["MEM"] /\ slot'["WB"] = slot["WB"]
    BY <1>0, <1>1 DEF StartCycle, fetch_into_if, TypeOK, Stage
  <2>3. FrontEX' = FrontEX
    BY <1>1, StartCycleRefinement
  <2>4. (WaitsForMEM' <=> WaitsForMEM) /\ DistanceEX' = DistanceEX
    BY <2>2 DEF WaitsForMEM, DistanceEX, IsEmpty
  <2>5. (ArchPC = IF WaitsForMEM THEN slot["MEM"].reg.pc ELSE FrontEX)'
    BY ArchPCView, PTL
  <2> QED
    BY <1>0, <2>1, <2>2, <2>3, <2>4, <2>5, ArchPCView DEF MemTurn, Distance, IsDone, IsEmpty
<1>2. CASE TickWB \/ TickMEM \/ TickEX \/ TickID \/ TickIF
  <2>1. /\ (OddCycle' <=> OddCycle) /\ InCycle /\ InCycle' /\ cycle' = cycle
    BY <1>0, <1>2, TickFrame DEF TickWB, TickMEM, TickEX, TickID, TickIF, loopVars
  <2>2. MemTurn' = MemTurn
    BY <2>1 DEF MemTurn
  <2>3. /\ slot'["EX"].reg.valid = slot["EX"].reg.valid
        /\ slot'["MEM"].reg.valid = slot["MEM"].reg.valid
        /\ slot'["WB"].reg.valid = slot["WB"].reg.valid
        /\ slot'["ID"].reg.valid = slot["ID"].reg.valid \/ ~ IsEmpty(slot["EX"])
    BY <1>2, TicksKeep
  <2>4. DistanceEX' = DistanceEX
    BY <2>3 DEF DistanceEX, IsEmpty
  <2>5. slot'["MEM"] = slot["MEM"]
    <3>1. CASE TickMEM
      <4>1. ~ Completes("MEM")
        BY <3>1 DEF CompletesMEM, TickMEM
      <4>2. ~ WaitsForMEM
        BY <3>1, <4>1, MEMIsPrompt DEF TickMEM
      <4>3. ~ Ticks("MEM")
        BY <4>2 DEF Ticks, WaitsForMEM
      <4> QED
        BY <1>0, <3>1, <4>1, <4>3 DEF TickMEM, TypeOK, Stage, Ticked
    <3>2. CASE ~ TickMEM
      BY <1>0, <1>2, <3>2 DEF TickWB, TickEX, TickID, TickIF, TypeOK, Stage, flushPipeline
    <3> QED
      BY <3>1, <3>2
  <2>6. FrontEX' = FrontEX
    <3>1. CASE TickWB \/ TickMEM
      BY <1>0, <3>1 DEF TickWB, TickMEM, TypeOK, Stage, FrontEX, FrontID, FrontIF, IsEmpty
    <3>2. CASE TickEX \/ TickID \/ TickIF
      BY <3>2, TickEXRefinement, TickIDRefinement, TickIFRefinement
    <3> QED
      BY <1>2, <3>1, <3>2
  <2>7. (ArchPC = IF WaitsForMEM THEN slot["MEM"].reg.pc ELSE FrontEX)'
    BY ArchPCView, PTL
  <2> QED
    BY <2>2, <2>3, <2>4, <2>5, <2>6, <2>7, ArchPCView
       DEF Distance, WaitsForMEM, IsDone, IsEmpty
<1>3. CASE Finish \/ UNCHANGED vars
  <2>1. /\ UNCHANGED <<PC, slot, cycle>>
        /\ InCycle' <=> InCycle
    BY <1>3 DEF Finish, vars, cpuVars, loopVars, InCycle, Stage
  <2> QED
    BY <2>1 DEF MemTurn, OddCycle, Distance, DistanceEX, WaitsForMEM, ArchPC, IsDone, IsEmpty
<1> QED
  BY <1>1, <1>2, <1>3 DEF Next, Terminated

\* What completes MEM does so in its turn, and the instruction after it has its own as
\* many cycles later as the completed one costs.
LEMMA CompletionMovesTurn ==
  ASSUME IInv, RefinementInvariant, Dense, Next, CompletesMEM
  PROVE  /\ cycle = MemTurn /\ Distance = 0 /\ ArchPC = slot["MEM"].reg.pc
         /\ MemTurn' = cycle /\ cycle' = cycle /\ InCycle' /\ cycle > 0
         /\ ArchPC' = NextPC(slot["MEM"].reg)
         /\ ArchPC' < instructionCount => Distance' = Cost(slot["MEM"].reg)
<1>0. TypeOK /\ cycle \in Nat
  BY MaxCyclesAssumption DEF IInv, TypeOK
<1> DEFINE reg == slot["MEM"].reg
           c   == complete_mem_stage(reg)
<1>1. TickMEM
  BY DEF Next, CompletesMEM, StartCycle, TickWB, TickEX, TickID, TickIF, Transfer, Finish,
         Terminated
<1>3. /\ slot'["IF"] = slot["IF"] /\ slot'["ID"] = slot["ID"]
      /\ slot'["EX"] = slot["EX"] /\ slot'["WB"] = slot["WB"]
      /\ slot'["MEM"] = Ticked("MEM", c) /\ PC' = PC
  BY <1>0, <1>1 DEF TickMEM, TypeOK, Stage
<1>4. c \in PipelineRegister
  BY <1>0, SlotType, CompleteMemFacts DEF Stage
<1> HIDE DEF c
<1>5. slot'["MEM"].completed
  BY <1>0, <1>3, <1>4, TickedFacts DEF CompletesMEM, Stage
<1>6. ~ OddCycle /\ InCycle /\ WaitsForMEM
  BY CompletesMEMFacts
<1>7. MemTurn' = cycle /\ InCycle' /\ cycle' = cycle
  BY <1>0, <1>1, <1>6, TickFrame DEF TickMEM, loopVars, MemTurn
<1>8. ~ WaitsForMEM' /\ DistanceEX' = DistanceEX /\ FrontEX' = FrontEX
  BY <1>3, <1>5 DEF WaitsForMEM, DistanceEX, FrontEX, FrontID, FrontIF, IsEmpty
<1>9. ArchPC' = FrontEX
  <2>1. (ArchPC = IF WaitsForMEM THEN slot["MEM"].reg.pc ELSE FrontEX)'
    BY ArchPCView, PTL
  <2> QED
    BY <1>8, <2>1
<1>10. FrontEX = NextPC(reg)
  BY <1>6 DEF RefinementInvariant, Flow, WaitsForMEM
<1>11. cycle > 0
  BY <1>6 DEF Dense, WorkInCycle
<1>12. FrontEX < instructionCount => Distance' = Cost(reg)
  BY <1>6, <1>8 DEF Distance, Dense, EXFollows
<1>13. cycle = MemTurn /\ Distance = 0 /\ ArchPC = reg.pc
  BY <1>6, ArchPCView DEF MemTurn, Distance
<1> QED
  BY <1>7, <1>9, <1>10, <1>11, <1>12, <1>13

\* A completion of MEM starts the time of the next instruction.
LEMMA CompletionKeepsSchedule ==
  ASSUME IInv, RefinementInvariant, Dense, OnSchedule, TimedNext, CompletesMEM
  PROVE  OnSchedule'
<1>0. TypeOK /\ cycle \in Nat /\ [Next]_vars
  BY MaxCyclesAssumption DEF IInv, TypeOK, TimedNext
<1>1. last' = cycle /\ due' = cycle + Cost(slot["MEM"].reg) /\ Cost(slot["MEM"].reg) \in Nat
  BY CostType DEF TimedNext
<1>2. /\ MemTurn' = cycle /\ InCycle' /\ cycle > 0
      /\ ArchPC' < instructionCount => Distance' = Cost(slot["MEM"].reg)
  BY CompletionMovesTurn DEF TimedNext
<1>3. Scheduled'
  <2>1. instructionCount' = instructionCount
    BY <1>0, FetchFrame
  <2> QED
    BY <1>1, <1>2, <2>1 DEF Scheduled
<1>4. LastTurn' /\ StopsAfterLast'
  BY <1>1, <1>2 DEF LastTurn, StopsAfterLast
<1> QED
  BY <1>0, <1>1, <1>3, <1>4 DEF OnSchedule

\* The transfer after an odd cycle brings every instruction one turn nearer to MEM.
LEMMA TransferMovesTurn ==
  ASSUME IInv, RefinementInvariant, Dense, Transfer
  PROVE  /\ ArchPC' = ArchPC
         /\ ArchPC < instructionCount => MemTurn' + Distance' = MemTurn + Distance
         /\ IsDone(slot["MEM"])' \/ ~ IsEmpty(slot["WB"])' =>
              IsDone(slot["MEM"]) /\ MemTurn' = MemTurn
<1>0. TypeOK /\ cycle \in Nat /\ [Next]_vars /\ IsEmpty(slot["MEM"]) \in BOOLEAN
  BY MaxCyclesAssumption DEF IInv, TypeOK, Next, IsEmpty
<1>1. /\ ~ InCycle' /\ InCycle /\ PC' = PC /\ cycle' = cycle
      /\ instructionCount' = instructionCount /\ (OddCycle' <=> OddCycle)
      /\ PC \in Nat /\ instructionCount \in Nat
  BY <1>0 DEF Transfer, InCycle, Stage, cpuVars, loopVars, TypeOK, OddCycle
<1>2. ArchPC' = ArchPC
  BY TransferRefinement
<1>3. CASE OddCycle
  <2>1. /\ IsEmpty(slot["MEM"]) /\ IsEmpty(slot'["WB"])
        /\ ~ IsEmpty(slot["EX"]) =>
             slot["EX"].completed /\ slot'["MEM"].reg = slot["EX"].reg /\ ~ slot'["MEM"].completed
        /\ IsEmpty(slot["EX"]) => IsEmpty(slot'["MEM"])
        /\ LeavesID =>
             IsDone(slot["ID"]) /\ slot'["EX"].reg = slot["ID"].reg /\ ~ slot'["EX"].completed
        /\ ~ LeavesID => IsEmpty(slot'["EX"])
        /\ LeavesIF => slot'["ID"].reg = slot["IF"].reg /\ IsEmpty(slot'["IF"])
        /\ ~ LeavesIF => slot'["IF"] = slot["IF"]
        /\ ~ LeavesIF /\ LeavesID => IsEmpty(slot'["ID"])
        /\ ~ LeavesIF /\ ~ LeavesID => slot'["ID"] = slot["ID"]
    BY <1>3, TransferOdd
  <2>2. /\ LeavesID <=> ~ IsEmpty(slot["ID"]) /\ ~ stalled
        /\ LeavesIF <=> ~ IsEmpty(slot["IF"]) /\ (IsEmpty(slot["ID"]) \/ LeavesID)
        /\ stalled => ~ IsEmpty(slot["EX"]) /\ ~ IsEmpty(slot["ID"])
    BY <1>3, OddMoves
  <2>3. MemTurn = cycle - 1 /\ MemTurn' = cycle + 1
    BY <1>1, <1>3 DEF MemTurn
  <2>4. ArchPC < instructionCount => MemTurn' + Distance' = MemTurn + Distance
    <3> SUFFICES ASSUME ArchPC < instructionCount PROVE MemTurn' + Distance' = MemTurn + Distance
      OBVIOUS
    <3>1. Distance = DistanceEX
      BY <2>1 DEF Distance, WaitsForMEM
    <3>2. CASE ~ IsEmpty(slot["EX"])
      <4>1. WaitsForMEM'
        BY <2>1, <3>2 DEF WaitsForMEM, IsEmpty
      <4> QED
        BY <1>0, <2>3, <3>1, <3>2, <4>1 DEF Distance, DistanceEX
    <3>3. CASE IsEmpty(slot["EX"]) /\ ~ IsEmpty(slot["ID"])
      <4>1. ~ WaitsForMEM' /\ ~ IsEmpty(slot'["EX"])
        BY <2>1, <2>2, <3>3 DEF WaitsForMEM, IsEmpty
      <4> QED
        BY <1>0, <2>3, <3>1, <3>3, <4>1 DEF Distance, DistanceEX
    <3>4. CASE IsEmpty(slot["EX"]) /\ IsEmpty(slot["ID"])
      <4>1. ~ IsEmpty(slot["IF"])
        <5>1. IsEmpty(slot["IF"]) => PC >= instructionCount
          BY <1>1, <1>3, <3>4 DEF Dense, IFFollows, Redirected, IsDone, IsEmpty
        <5>2. IsEmpty(slot["IF"]) => ArchPC = PC
          BY <2>1, <3>4 DEF ArchPC
        <5> QED
          BY <1>1, <5>1, <5>2
      <4>2. ~ WaitsForMEM' /\ IsEmpty(slot'["EX"]) /\ ~ IsEmpty(slot'["ID"])
        BY <2>1, <2>2, <3>4, <4>1 DEF WaitsForMEM, IsEmpty
      <4> QED
        BY <1>0, <2>3, <3>1, <3>4, <4>2 DEF Distance, DistanceEX
    <3> QED
      BY <3>2, <3>3, <3>4
  <2> QED
    BY <1>2, <2>1, <2>4 DEF IsDone, IsEmpty
<1>4. CASE ~ OddCycle
  <2>1. /\ slot'["IF"] = slot["IF"] /\ slot'["ID"] = slot["ID"] /\ slot'["EX"] = slot["EX"]
        /\ IsEmpty(slot["WB"]) /\ IsEmpty(slot'["MEM"])
        /\ ~ IsEmpty(slot["MEM"]) => slot["MEM"].completed /\ slot'["WB"].reg = slot["MEM"].reg
        /\ IsEmpty(slot["MEM"]) => IsEmpty(slot'["WB"])
    BY <1>4, TransferEven
  <2>2. MemTurn' = MemTurn /\ Distance' = Distance
    BY <1>1, <1>4, <2>1 DEF MemTurn, Distance, DistanceEX, WaitsForMEM, IsEmpty
  <2> QED
    BY <1>2, <2>1, <2>2 DEF IsDone, IsEmpty
<1> QED
  BY <1>3, <1>4

\* So it keeps the schedule, and the engine stops one cycle after the last turn.
LEMMA TransferKeepsSchedule ==
  ASSUME IInv, RefinementInvariant, Dense, OnSchedule, Transfer, UNCHANGED <<due, last>>
  PROVE  OnSchedule'
<1>0. TypeOK /\ cycle \in Nat /\ [Next]_vars
  BY MaxCyclesAssumption DEF IInv, TypeOK, Next
<1>1. /\ ~ InCycle' /\ InCycle /\ PC' = PC /\ cycle' = cycle
      /\ instructionCount' = instructionCount /\ PC \in Nat /\ instructionCount \in Nat
  BY <1>0 DEF Transfer, InCycle, Stage, cpuVars, loopVars, TypeOK
<1>2. pipeline_has_work
  BY <1>1 DEF Dense, WorkInCycle
<1>3. Scheduled' /\ LastTurn'
  BY <1>1, TransferMovesTurn DEF OnSchedule, Scheduled, LastTurn
<1>4. StopsAfterLast'
  <2>1. CASE OddCycle
    <3> SUFFICES ASSUME ~ pipeline_has_work'
                 PROVE  cycle = IF last = 0 THEN 0 ELSE last + WB_CYCLES
      BY <1>1 DEF StopsAfterLast
    <3>1. /\ IsEmpty(slot["MEM"])
          /\ IsEmpty(slot["EX"]) \/ ~ IsEmpty(slot'["MEM"])
          /\ LeavesID \/ LeavesIF \/ slot'["ID"] = slot["ID"]
          /\ LeavesID => slot'["EX"].reg = slot["ID"].reg /\ IsDone(slot["ID"])
          /\ LeavesIF => slot'["ID"].reg = slot["IF"].reg /\ IsDone(slot["IF"])
          /\ LeavesIF \/ slot'["IF"] = slot["IF"]
      BY <2>1, TransferOdd DEF IsEmpty, LeavesIF
    <3>2. /\ PC >= instructionCount
          /\ IsEmpty(slot'["IF"]) /\ IsEmpty(slot'["ID"]) /\ IsEmpty(slot'["EX"])
          /\ IsEmpty(slot'["MEM"])
      BY <1>1 DEF pipeline_has_work, Stage
    <3>3. IsEmpty(slot["EX"]) /\ IsEmpty(slot["ID"]) /\ IsEmpty(slot["IF"])
      BY <3>1, <3>2 DEF IsEmpty, IsDone
    <3>4. ~ IsEmpty(slot["WB"])
      BY <1>1, <1>2, <3>1, <3>2, <3>3 DEF pipeline_has_work, Stage
    <3>5. last = cycle - 1 /\ last > 0
      BY <1>1, <2>1, <3>4 DEF OnSchedule, LastTurn, MemTurn
    <3> QED
      BY <1>0, <3>5 DEF WB_CYCLES
  <2>2. CASE ~ OddCycle
    <3>1. pipeline_has_work'
      BY <1>1, <1>2, <2>2, TransferEven DEF pipeline_has_work, Stage, IsEmpty
    <3> QED
      BY <3>1 DEF StopsAfterLast
  <2> QED
    BY <2>1, <2>2
<1> QED
  BY <1>1, <1>3, <1>4 DEF OnSchedule

\* Every other step leaves the schedule alone.
LEMMA QuietKeepsSchedule ==
  ASSUME IInv, RefinementInvariant, OnSchedule, [Next]_vars, UNCHANGED <<due, last>>,
         ~ CompletesMEM, ~ Transfer
  PROVE  OnSchedule'
<1>1. /\ MemTurn' = MemTurn /\ Distance' = Distance /\ ArchPC' = ArchPC
      /\ IsDone(slot["MEM"])' <=> IsDone(slot["MEM"])
      /\ IsEmpty(slot["WB"])' <=> IsEmpty(slot["WB"])
  BY QuietStep
<1>2. instructionCount' = instructionCount
  BY FetchFrame DEF IInv
<1>3. Scheduled' /\ LastTurn'
  BY <1>1, <1>2 DEF OnSchedule, Scheduled, LastTurn
<1>4. StopsAfterLast'
  <2>1. \/ InCycle'
        \/ ~ InCycle /\ UNCHANGED <<PC, instructionCount, slot, cycle>>
    BY DEF Next, StartCycle, TickWB, TickMEM, TickEX, TickID, TickIF, Finish, Terminated,
           vars, cpuVars, loopVars, InCycle, Stage, CompletesMEM
  <2> QED
    BY <2>1 DEF OnSchedule, StopsAfterLast, pipeline_has_work, IsEmpty, InCycle
<1> QED
  BY <1>3, <1>4 DEF OnSchedule

\* The schedule at the start: the first instruction is due after the whole pipeline.
LEMMA InitSchedule == TimedInit => OnSchedule
<1> SUFFICES ASSUME TimedInit PROVE OnSchedule
  OBVIOUS
<1>1. /\ Init /\ due = 6 /\ last = 0 /\ cycle = 0 /\ ~ InCycle
  BY DEF TimedInit, Init, PipelineDepth, IF_CYCLES, ID_CYCLES, EX_CYCLES, MEM_CYCLES,
         InCycle, Stage
<1>2. \A k \in Stage : IsEmpty(slot[k])
  BY <1>1 DEF Init, IsEmpty, EmptySlot, ZeroRegister
<1>3. /\ IsEmpty(slot["ID"]) /\ IsEmpty(slot["EX"])
      /\ IsEmpty(slot["MEM"]) /\ IsEmpty(slot["WB"])
  BY <1>2 DEF Stage
<1>4. MemTurn = 0 /\ Distance = 6
  BY <1>1, <1>3 DEF MemTurn, OddCycle, Distance, DistanceEX, WaitsForMEM
<1> QED
  BY <1>1, <1>3, <1>4 DEF OnSchedule, Scheduled, LastTurn, StopsAfterLast, IsDone, IsEmpty

\* Every step keeps each instruction to its turn.
LEMMA NextSchedule ==
  IInv /\ RefinementInvariant /\ Dense /\ OnSchedule /\ [TimedNext]_timedVars => OnSchedule'
<1> SUFFICES ASSUME IInv, RefinementInvariant, Dense, OnSchedule, [TimedNext]_timedVars
             PROVE  OnSchedule'
  OBVIOUS
<1>1. CASE UNCHANGED timedVars
  BY <1>1 DEF timedVars, vars, cpuVars, loopVars, OnSchedule, Scheduled, LastTurn,
              StopsAfterLast, ArchPC, MemTurn, OddCycle, InCycle, Distance, DistanceEX,
              WaitsForMEM, IsDone, IsEmpty, pipeline_has_work
<1>2. CASE TimedNext /\ CompletesMEM
  BY <1>2, CompletionKeepsSchedule
<1>3. CASE TimedNext /\ ~ CompletesMEM
  <2>1. UNCHANGED <<due, last>> /\ [Next]_vars
    BY <1>3 DEF TimedNext
  <2>2. CASE Transfer
    BY <2>1, <2>2, TransferKeepsSchedule
  <2>3. CASE ~ Transfer
    BY <1>3, <2>1, <2>3, QuietKeepsSchedule
  <2> QED
    BY <2>2, <2>3
<1> QED
  BY <1>1, <1>2, <1>3

-----------------------------------------------------------------------------
(* Programs whose branches lead forward only.                              *)

\* Whether a program is one does not change while it runs.
LEMMA ForwardFrame == TypeOK /\ [Next]_vars => (ForwardOnly' <=> ForwardOnly)
<1> SUFFICES ASSUME TypeOK, [Next]_vars PROVE ForwardOnly' <=> ForwardOnly
  OBVIOUS
<1>1. ProgramAddress' = ProgramAddress
  BY FetchFrame DEF ProgramAddress
<1>2. ASSUME NEW a \in ProgramAddress PROVE Loaded(a)' = Loaded(a)
  <2>1. a \in Nat
    BY DEF ProgramAddress, TypeOK
  <2> QED
    BY <2>1, FetchFrame DEF Loaded
<1>3. \A a \in ProgramAddress :
        /\ IsBranch(a)' <=> IsBranch(a)
        /\ branch_target([Loaded(a) EXCEPT !.pc = a])' = branch_target([Loaded(a) EXCEPT !.pc = a])
  BY <1>2 DEF IsBranch, branch_target, jump_target
<1> QED
  BY <1>1, <1>3 DEF ForwardOnly

\* Where the word at an address leads, if it is a branch.
LEMMA LoadedTarget ==
  ASSUME TypeOK, NEW a \in ProgramAddress
  PROVE  LET d == DecodeFields(memory_fetch_instruction(memory, a))
         IN  /\ IsBranch(a) <=> d.opcode \in {OPCODE_JEQ, OPCODE_JMP}
             /\ branch_target([Loaded(a) EXCEPT !.pc = a]) =
                  IF d.opcode = OPCODE_JMP THEN d.address ELSE a + 1 + d.immediate
<1> DEFINE raw  == memory_fetch_instruction(memory, a)
           d    == DecodeFields(raw)
           from == [ZeroRegister EXCEPT !.valid = TRUE, !.rawInstruction = raw]
           l    == [Loaded(a) EXCEPT !.pc = a]
<1>1. a \in Nat /\ a < instructionCount /\ raw \in RawWord
  BY FetchType DEF TypeOK, ProgramAddress
<1>2. l \in PipelineRegister
  <2>1. from \in PipelineRegister
    BY <1>1, EmptyType DEF PipelineRegister
  <2>2. Decoded(from) \in PipelineRegister
    BY <2>1, DecodedType
  <2> QED
    BY <1>1, <2>2 DEF Loaded, PipelineRegister
<1>3. /\ l.opcode = d.opcode /\ l.immediate = d.immediate /\ l.address = d.address /\ l.pc = a
      /\ Loaded(a).opcode = d.opcode
  BY DEF Loaded, Decoded, ZeroRegister
<1>4. d.opcode = OPCODE_JMP => d.address = raw % ADDR_SPACE
  BY DEF DecodeFields, FormatJ
<1> HIDE DEF d, l, raw
<1>5. d.opcode = OPCODE_JMP => jump_target(l) = d.address
  BY <1>1, <1>2, <1>3, <1>4, JumpTarget
<1>6. branch_target(l) = IF d.opcode = OPCODE_JMP THEN d.address ELSE a + 1 + d.immediate
  BY <1>3, <1>5 DEF branch_target
<1> QED
  BY <1>3, <1>6 DEF IsBranch, d, l, raw

\* In such a program a higher address follows on an executed instruction.
LEMMA ForwardSuccessor ==
  ASSUME IInv, RefinementInvariant, ForwardOnly, WaitsForMEM
  PROVE  NextPC(slot["MEM"].reg) \in Nat /\ NextPC(slot["MEM"].reg) > slot["MEM"].reg.pc
<1> DEFINE reg == slot["MEM"].reg
           w   == WithOperands(reg)
           l   == [Loaded(reg.pc) EXCEPT !.pc = reg.pc]
<1>1. /\ reg \in PipelineRegister /\ reg.valid /\ reg.pc \in Nat
      /\ FetchedFrom(reg) /\ reg = complete_ex_stage(w) /\ WordsValid
  <2>1. reg \in PipelineRegister
    BY SlotType DEF IInv, Stage
  <2> QED
    BY <2>1 DEF RefinementInvariant, Contents, SlotsFetched, InMEMHolds, IsExecuted, WaitsForMEM,
                IsEmpty, PipelineRegister
<1>2. reg.pc \in ProgramAddress
  BY <1>1 DEF FetchedFrom, ProgramAddress, IInv, TypeOK
<1>3. w \in PipelineRegister
  <2>1. Decoded(reg) \in PipelineRegister
    BY <1>1, DecodedType
  <2> QED
    BY <1>1, <2>1 DEF WithOperands, PipelineRegister
<1>4. /\ w.opcode = l.opcode /\ w.immediate = l.immediate /\ w.address = l.address
      /\ w.pc = l.pc /\ l.opcode = Loaded(reg.pc).opcode
  BY <1>1 DEF WithOperands, Decoded, Loaded, FetchedFrom, ZeroRegister
<1>5. branch_target(w) = branch_target(l)
  BY <1>4, TargetSame
<1>6. reg.opcode = w.opcode /\ reg.pc = w.pc
  BY <1>1, <1>3, CompleteExFacts
<1>7. CASE branch_taken(reg)
  <2>1. /\ reg.opcode \in {OPCODE_JEQ, OPCODE_JMP}
        /\ branch_target(reg) >= 0 /\ branch_target(reg) < INSTRUCTION_MEMORY_SIZE
    BY <1>7 DEF branch_taken
  <2>2. branch_target(reg) = branch_target(l)
    BY <1>1, <1>3, <1>5, <1>6, <2>1, CompleteExTarget
  <2>3. IsBranch(reg.pc)
    BY <1>4, <1>6, <2>1 DEF IsBranch
  <2>4. branch_target(l) > reg.pc \/ branch_target(l) < 0
          \/ branch_target(l) >= INSTRUCTION_MEMORY_SIZE
    BY <1>2, <2>3 DEF ForwardOnly
  <2>5. branch_target(reg) \in 0 .. INSTRUCTION_MEMORY_SIZE - 1
    BY <1>1, <1>7, TargetType
  <2> QED
    BY <1>1, <1>7, <2>1, <2>2, <2>4, <2>5, MemoryAssumption DEF NextPC
<1>8. CASE ~ branch_taken(reg)
  BY <1>1, <1>8 DEF NextPC
<1> QED
  BY <1>7, <1>8

\* The numbers of the schedule.
LEMMA TurnType ==
  ASSUME TypeOK
  PROVE  /\ cycle \in Nat /\ instructionCount \in Nat /\ ArchPC \in Nat
         /\ MemTurn \in Int /\ Distance \in {0, 2, 4, 6}
         /\ ~ InCycle => MemTurn >= cycle
         /\ PipelineDepth = 6 /\ WB_CYCLES = 1
<1>1. /\ cycle \in Nat /\ instructionCount \in Nat /\ PC \in Nat
      /\ \A k \in Stage : slot[k].reg.pc \in Nat
  BY SlotType, MaxCyclesAssumption DEF TypeOK, PipelineRegister
<1>2. ArchPC \in Nat
  BY <1>1 DEF ArchPC, Stage
<1> QED
  BY <1>1, <1>2 DEF MemTurn, Distance, DistanceEX, PipelineDepth, WB_CYCLES,
                    IF_CYCLES, ID_CYCLES, EX_CYCLES, MEM_CYCLES

\* Between cycles, whatever is left to do shows that the bound is not yet reached.
LEMMA WorkInTime ==
  ASSUME IInv, RefinementInvariant, TurnInTime, LastInTime, ~ InCycle, pipeline_has_work
  PROVE  cycle <= PipelineDepth * instructionCount
<1>1. /\ cycle \in Nat /\ instructionCount \in Nat /\ ArchPC \in Nat
      /\ MemTurn \in Int /\ Distance \in {0, 2, 4, 6} /\ MemTurn >= cycle /\ PipelineDepth = 6
      /\ PC \in Nat
  BY TurnType DEF IInv, TypeOK
<1>2. CASE ArchPC < instructionCount
  BY <1>1, <1>2 DEF TurnInTime
<1>3. CASE ArchPC >= instructionCount
  <2>1. \A k \in {"IF", "ID", "EX", "MEM"} :
          ~ IsEmpty(slot[k]) => slot[k].reg.pc < instructionCount /\ slot[k].reg.pc \in Nat
    <3>1. \A k \in Stage : slot[k].reg \in PipelineRegister
      BY SlotType DEF IInv
    <3> QED
      BY <3>1 DEF RefinementInvariant, Contents, SlotsFetched, FetchedFrom, PipelineRegister, Stage
  <2>2. /\ ~ WaitsForMEM
        /\ IsEmpty(slot["EX"]) /\ IsEmpty(slot["ID"]) /\ IsEmpty(slot["IF"])
        /\ PC >= instructionCount
    BY <1>1, <1>3, <2>1 DEF ArchPC, WaitsForMEM
  <2>3. ~ IsEmpty(slot["MEM"]) \/ ~ IsEmpty(slot["WB"])
    BY <1>1, <2>2 DEF pipeline_has_work, Stage
  <2>4. IsDone(slot["MEM"]) \/ ~ IsEmpty(slot["WB"])
    BY <2>2, <2>3 DEF WaitsForMEM, IsDone, IsEmpty
  <2> QED
    BY <1>1, <2>4 DEF LastInTime
<1> QED
  BY <1>1, <1>2, <1>3

\* No cost is more than a taken branch.
LEMMA CostBound == ASSUME NEW reg PROVE Cost(reg) \in Nat /\ Cost(reg) <= PipelineDepth
  BY DEF Cost, PipelineDepth, FetchInterval, IF_CYCLES, ID_CYCLES, EX_CYCLES, MEM_CYCLES

\* Every step of a forward-only program stays within the bound.
LEMMA NextInTime ==
  ASSUME IInv, RefinementInvariant, Dense, InTime, [Next]_vars PROVE InTime'
<1> SUFFICES ASSUME ForwardOnly' PROVE TurnInTime' /\ LastInTime' /\ cycle' <= Longest'
  BY DEF InTime
<1>1. /\ ForwardOnly /\ TurnInTime /\ LastInTime /\ cycle <= Longest
      /\ instructionCount' = instructionCount /\ TypeOK
  BY ForwardFrame, FetchFrame DEF InTime, IInv
<1>2. /\ cycle \in Nat /\ instructionCount \in Nat /\ ArchPC \in Nat
      /\ MemTurn \in Int /\ Distance \in {0, 2, 4, 6} /\ PipelineDepth = 6 /\ WB_CYCLES = 1
  BY <1>1, TurnType
<1>3. Longest' = 6 * instructionCount + 1 /\ Longest = 6 * instructionCount + 1
  BY <1>1, <1>2 DEF Longest, PipelineDepth, WB_CYCLES, IF_CYCLES, ID_CYCLES, EX_CYCLES, MEM_CYCLES
<1>4. PipelineDepth' = 6
  BY <1>2 DEF PipelineDepth, IF_CYCLES, ID_CYCLES, EX_CYCLES, MEM_CYCLES
<1>5. CASE Next /\ CompletesMEM
  <2> DEFINE reg == slot["MEM"].reg
             next == NextPC(reg)
  <2>1. /\ cycle = MemTurn /\ Distance = 0 /\ ArchPC = reg.pc
        /\ MemTurn' = cycle /\ cycle' = cycle
        /\ ArchPC' = next
        /\ ArchPC' < instructionCount => Distance' = Cost(reg)
    BY <1>5, CompletionMovesTurn
  <2>2. ArchPC < instructionCount /\ WaitsForMEM
    BY <1>5, CompletesMEMFacts
  <2>3. next \in Nat /\ next > reg.pc
    BY <1>1, <2>2, ForwardSuccessor
  <2>4. Cost(reg) \in Nat /\ Cost(reg) <= 6
    BY <1>2, CostBound
  <2> HIDE DEF next
  <2>5. cycle <= 6 * (ArchPC + 1)
    BY <1>1, <1>2, <2>1, <2>2 DEF TurnInTime
  <2>6. TurnInTime'
    BY <1>1, <1>2, <1>4, <2>1, <2>3, <2>4, <2>5 DEF TurnInTime
  <2>7. LastInTime'
    BY <1>1, <1>2, <1>4, <2>1, <2>2, <2>5 DEF LastInTime
  <2> QED
    BY <1>1, <1>3, <2>1, <2>6, <2>7
<1>6. CASE Transfer
  <2>1. /\ ArchPC' = ArchPC
        /\ ArchPC < instructionCount => MemTurn' + Distance' = MemTurn + Distance
        /\ IsDone(slot["MEM"])' \/ ~ IsEmpty(slot["WB"])' =>
             IsDone(slot["MEM"]) /\ MemTurn' = MemTurn
    BY <1>6, TransferMovesTurn
  <2>2. cycle' = cycle
    BY <1>6 DEF Transfer, loopVars
  <2> QED
    BY <1>1, <1>2, <1>3, <1>4, <2>1, <2>2 DEF TurnInTime, LastInTime
<1>7. CASE ~ CompletesMEM /\ ~ Transfer
  <2>1. /\ MemTurn' = MemTurn /\ Distance' = Distance /\ ArchPC' = ArchPC
        /\ IsDone(slot["MEM"])' <=> IsDone(slot["MEM"])
        /\ IsEmpty(slot["WB"])' <=> IsEmpty(slot["WB"])
    BY <1>7, QuietStep
  <2>2. TurnInTime' /\ LastInTime'
    BY <1>1, <1>2, <1>4, <2>1 DEF TurnInTime, LastInTime
  <2>3. CASE StartCycle
    <3>1. cycle' = cycle + 1 /\ ~ InCycle /\ pipeline_has_work
      BY <2>3 DEF StartCycle, InCycle, Stage
    <3> QED
      BY <1>1, <1>2, <1>3, <2>2, <3>1, WorkInTime
  <2>4. CASE ~ StartCycle
    <3>1. cycle' = cycle
      BY <1>7, <2>4 DEF Next, TickWB, TickMEM, TickEX, TickID, TickIF, Finish, Terminated,
                        vars, loopVars
    <3> QED
      BY <1>1, <1>3, <2>2, <3>1
  <2> QED
    BY <2>3, <2>4
<1>8. CASE UNCHANGED vars
  <2>1. TurnInTime' /\ LastInTime' /\ cycle' = cycle
    BY <1>1, <1>8
       DEF vars, cpuVars, loopVars, TurnInTime, LastInTime, ArchPC, MemTurn, OddCycle, InCycle,
           Distance, DistanceEX, WaitsForMEM, IsDone, IsEmpty, PipelineDepth, IF_CYCLES,
           ID_CYCLES, EX_CYCLES, MEM_CYCLES
  <2> QED
    BY <1>1, <1>3, <2>1
<1> QED
  BY <1>5, <1>6, <1>7, <1>8

\* As pipeline_sim_run sets the engine up, nothing is late.
LEMMA ResetTiming ==
  TypeOK /\ PC = 0 /\ cycle = 0 /\ phase = "start" /\ slot = [k \in Stage |-> EmptySlot]
    => Dense /\ Punctual
<1> SUFFICES ASSUME TypeOK, PC = 0, cycle = 0, phase = "start", slot = [k \in Stage |-> EmptySlot]
             PROVE  Dense /\ Punctual
  OBVIOUS
<1>1. ~ InCycle /\ \A k \in Stage : IsEmpty(slot[k])
  BY DEF InCycle, Stage, IsEmpty, EmptySlot, ZeroRegister
<1>2. /\ IsEmpty(slot["IF"]) /\ IsEmpty(slot["ID"]) /\ IsEmpty(slot["EX"])
      /\ IsEmpty(slot["MEM"]) /\ IsEmpty(slot["WB"])
  BY <1>1 DEF Stage
<1>3. instructionCount \in Nat
  BY TurnType
<1>4. ArchPC = 0 /\ MemTurn = 0 /\ Distance = 6
  BY <1>2 DEF ArchPC, MemTurn, OddCycle, Distance, DistanceEX, WaitsForMEM
<1>5. Punctual
  BY <1>2, <1>3, <1>4
     DEF Punctual, InTime, LoopTest, TurnInTime, LastInTime, Longest, PipelineDepth, IF_CYCLES,
         ID_CYCLES, EX_CYCLES, MEM_CYCLES, WB_CYCLES, IsDone, IsEmpty
<1> QED
  BY <1>1, <1>5, EmptyDense

\* So it is at the start.
LEMMA InitTiming == Init => Dense /\ Punctual
  BY InitType, ResetTiming DEF Init

\* Every step keeps it.
LEMMA NextPunctual == IInv /\ RefinementInvariant /\ Dense /\ Punctual /\ [Next]_vars => Punctual'
<1> SUFFICES ASSUME IInv, RefinementInvariant, Dense, Punctual, [Next]_vars PROVE Punctual'
  OBVIOUS
<1>1. InTime'
  BY NextInTime DEF Punctual
<1>2. LoopTest'
  <2>1. phase' = "done" => UNCHANGED <<PC, instructionCount, slot, cycle>> /\ phase \in {"start", "done"}
    BY DEF Next, StartCycle, TickWB, TickMEM, TickEX, TickID, TickIF, Transfer, Finish, Terminated,
           vars, cpuVars, loopVars, Punctual, LoopTest
  <2>2. phase' = "done" => (pipeline_has_work' <=> pipeline_has_work)
    BY <2>1 DEF pipeline_has_work, IsEmpty
  <2>3. phase = "start" /\ phase' = "done" => ~ (pipeline_has_work /\ cycle < MaxCycles)
    BY DEF Next, StartCycle, TickWB, TickMEM, TickEX, TickID, TickIF, Transfer, Finish, Terminated,
           vars
  <2> QED
    BY <2>1, <2>2, <2>3 DEF Punctual, LoopTest
<1> QED
  BY <1>1, <1>2 DEF Punctual

-----------------------------------------------------------------------------
(* The theorems.                                                           *)

\* The history variables only watch the engine.
LEMMA TimedSpecIsSpec == TimedSpec => Spec
<1>1. TimedInit => Init
  BY DEF TimedInit
<1>2. [TimedNext]_timedVars => [Next]_vars
  BY DEF TimedNext, timedVars
<1> QED
  BY <1>1, <1>2, PTL DEF TimedSpec, Spec

\* The row of instructions before MEM has no gap but those that a taken branch, a
\* load that is used at once and the end of the program make, and what is at its head
\* has its turn of MEM in the cycle told from its predecessor.
THEOREM TimingInvariance == TimedSpec => []TimingInvariant
<1>1. TimedInit => TimingInvariant
  BY InitTiming, InitSchedule DEF TimedInit, TimingInvariant
<1>2. IInv /\ RefinementInvariant /\ TimingInvariant /\ [TimedNext]_timedVars => TimingInvariant'
  <2>1. [TimedNext]_timedVars => [Next]_vars
    BY DEF TimedNext, timedVars
  <2> QED
    BY <2>1, NextDense, NextPunctual, NextSchedule DEF TimingInvariant
<1> QED
  BY <1>1, <1>2, TimedSpecIsSpec, Invariance, RefinementInvariance, PTL DEF TimedSpec

\* Every instruction completes MEM in exactly the cycle that the latencies, the
\* instruction before it and the hazards of pipeline_sim_run give it.
THEOREM InstructionsAreOnTime == TimedSpec => []OnTime
<1>1. IInv /\ RefinementInvariant /\ TimingInvariant => OnTime
  <2> SUFFICES ASSUME IInv, RefinementInvariant, TimingInvariant, phase = "MEM" PROVE OnTime
    BY DEF OnTime
  <2>0. cycle \in Nat /\ InCycle
    BY MaxCyclesAssumption DEF IInv, TypeOK, InCycle, Stage
  <2>1. ArchPC < instructionCount => due = MemTurn + Distance
    BY DEF TimingInvariant, OnSchedule, Scheduled
  <2>2. CASE WaitsForMEM
    <3>1. CompletesMEM /\ Completes("MEM")
      BY <2>2, MEMIsPrompt DEF CompletesMEM
    <3>2. ~ OddCycle /\ ArchPC < instructionCount
      BY <3>1, CompletesMEMFacts
    <3> QED
      BY <2>0, <2>1, <2>2, <3>1, <3>2 DEF OnTime, MemTurn, Distance
  <2>3. CASE ~ WaitsForMEM
    <3>1. ~ Completes("MEM")
      BY <2>3 DEF Completes, Ticks, WaitsForMEM
    <3>2. Distance \in {2, 4, 6} /\ MemTurn \in {cycle, cycle - 1}
      BY <2>0, <2>3 DEF Distance, DistanceEX, MemTurn
    <3> QED
      BY <2>0, <2>1, <3>1, <3>2 DEF OnTime
  <2> QED
    BY <2>2, <2>3
<1> QED
  BY <1>1, TimingInvariance, TimedSpecIsSpec, Invariance, RefinementInvariance, PTL

\* The simulation ends with the cycle that writes back the last instruction.
THEOREM EngineStopsAtOnce == TimedSpec => []StopsAtOnce
<1>1. TimingInvariant => StopsAtOnce
  BY DEF TimingInvariant, OnSchedule, StopsAfterLast, StopsAtOnce, InCycle, Stage
<1> QED
  BY <1>1, TimingInvariance, PTL

\* Of the engine by itself, whether or not its cycles are told in advance.
LEMMA EngineTiming == Spec => [](Dense /\ Punctual)
  BY InitTiming, NextDense, NextPunctual, Invariance, RefinementInvariance, PTL
     DEF Spec

\* In a state that keeps to the schedule the program is not late.
LEMMA PunctualDrains == IInv /\ RefinementInvariant /\ Punctual => DrainsInTime
<1> SUFFICES ASSUME IInv, RefinementInvariant, Punctual, ForwardOnly
             PROVE  /\ cycle <= Longest
                    /\ phase = "done" /\ MaxCycles >= Longest => ~ pipeline_has_work
  BY DEF DrainsInTime
<1>1. TurnInTime /\ LastInTime /\ cycle <= Longest /\ LoopTest
  BY DEF Punctual, InTime
<1>2. ASSUME phase = "done", MaxCycles >= Longest, pipeline_has_work PROVE FALSE
  <2>1. cycle <= PipelineDepth * instructionCount
    BY <1>1, <1>2, WorkInTime DEF InCycle, Stage
  <2>2. cycle \in Nat /\ instructionCount \in Nat /\ PipelineDepth = 6 /\ WB_CYCLES = 1
    BY TurnType DEF IInv
  <2> QED
    BY <1>1, <1>2, <2>1, <2>2, MaxCyclesAssumption DEF Longest, LoopTest
<1> QED
  BY <1>1, <1>2

\* A program of n instructions whose branches lead forward only takes at most 6n + 1
\* cycles, and with as many allowed pipeline_sim_run returns only when the pipeline is
\* empty.
THEOREM ForwardEndsInTime == Spec => []DrainsInTime
  BY PunctualDrains, EngineTiming, Invariance, RefinementInvariance, PTL

=============================================================================
