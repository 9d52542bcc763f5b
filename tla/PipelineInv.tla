----------------------------- MODULE PipelineInv ---------------------------
(***************************************************************************)
(* The inductive invariant behind the structural properties of the         *)
(* pipeline.  Fetches happen in odd cycles and an instruction spends two   *)
(* cycles in ID and two in EX, so what each stage holds is determined, up  *)
(* to being empty, by the parity of the cycle and by which stages have     *)
(* been ticked in it.  A load-use stall takes two cycles and keeps the     *)
(* parity; a flush only empties stages.                                    *)
(***************************************************************************)
EXTENDS PipelineProps

InCycle  == phase \in Stage \cup {"transfer"}
OddCycle == cycle % 2 = 1

\* The stages whose tick of this cycle is behind.
AfterWB  == phase \in {"MEM", "EX", "ID", "IF", "transfer"}
AfterMEM == phase \in {"EX", "ID", "IF", "transfer"}
AfterEX  == phase \in {"ID", "IF", "transfer"}
AfterID  == phase \in {"IF", "transfer"}
AfterIF  == phase = "transfer"

Running(k, left) == ~ slot[k].completed /\ slot[k].cycles_left = left

Hazard == evaluate_id_hazard(slot["ID"], slot["EX"])

BranchIn(k) ==
  /\ ~ IsEmpty(slot[k])
  /\ slot[k].reg.opcode \in {OPCODE_JEQ, OPCODE_JMP}

\* Between cycles, the next one odd: MEM is free and ID is half done, unless the
\* load in EX holds it back.
BeforeOdd ==
  phase = "start" /\ ~ OddCycle =>
    /\ IsEmpty(slot["MEM"])
    /\ ~ wait_for_taken_branch_mem
    /\ ~ IsEmpty(slot["WB"]) => Running("WB", 1)
    /\ ~ IsEmpty(slot["EX"]) => Running("EX", 1)
    /\ ~ IsEmpty(slot["ID"]) => Running("ID", IF Hazard THEN 2 ELSE 1)
    /\ ~ IsEmpty(slot["IF"]) =>
         slot["IF"].completed /\ ~ IsEmpty(slot["ID"]) /\ IsEmpty(slot["EX"])

\* Between cycles, the next one even: WB is free, EX and ID have just been filled.
BeforeEven ==
  phase = "start" /\ OddCycle =>
    /\ IsEmpty(slot["WB"])
    /\ ~ IsEmpty(slot["MEM"]) => Running("MEM", 1)
    /\ ~ IsEmpty(slot["EX"]) => Running("EX", 2)
    /\ ~ IsEmpty(slot["ID"]) => Running("ID", 2)
    /\ ~ IsEmpty(slot["IF"]) =>
         slot["IF"].completed /\ ~ IsEmpty(slot["ID"]) /\ IsEmpty(slot["EX"])
    /\ wait_for_taken_branch_mem =>
         BranchIn("MEM") /\ IsEmpty(slot["EX"]) /\ IsEmpty(slot["ID"]) /\ IsEmpty(slot["IF"])

\* Within an odd cycle EX, ID, IF and WB complete; a stalled ID waits for the
\* load in EX to leave.
DuringOdd ==
  InCycle /\ OddCycle =>
    /\ IsEmpty(slot["MEM"])
    /\ ~ IsEmpty(slot["WB"]) => IF AfterWB THEN slot["WB"].completed ELSE Running("WB", 1)
    /\ ~ IsEmpty(slot["EX"]) => IF AfterEX THEN slot["EX"].completed ELSE Running("EX", 1)
    /\ ~ IsEmpty(slot["ID"]) =>
         IF stalled THEN Running("ID", 2)
         ELSE IF AfterID THEN slot["ID"].completed
         ELSE Running("ID", 1)
    /\ ~ IsEmpty(slot["IF"]) =>
         \/ IF AfterIF THEN slot["IF"].completed ELSE Running("IF", 1)
         \/ slot["IF"].completed /\ IsEmpty(slot["EX"]) /\ ~ stalled
    /\ stalled =>
         ~ IsEmpty(slot["ID"]) /\ ~ IsEmpty(slot["EX"]) /\ slot["EX"].reg.opcode = OPCODE_MOVR
    /\ wait_for_taken_branch_mem =>
         AfterEX /\ BranchIn("EX") /\ IsEmpty(slot["ID"]) /\ IsEmpty(slot["IF"])

\* Within an even cycle only MEM completes; EX and ID spend their first cycle.
DuringEven ==
  InCycle /\ ~ OddCycle =>
    /\ IsEmpty(slot["WB"])
    /\ ~ IsEmpty(slot["MEM"]) => IF AfterMEM THEN slot["MEM"].completed ELSE Running("MEM", 1)
    /\ ~ IsEmpty(slot["EX"]) => Running("EX", IF AfterEX THEN 1 ELSE 2)
    /\ ~ IsEmpty(slot["ID"]) => Running("ID", IF AfterID /\ ~ stalled THEN 1 ELSE 2)
    /\ ~ IsEmpty(slot["IF"]) =>
         slot["IF"].completed /\ ~ IsEmpty(slot["ID"]) /\ IsEmpty(slot["EX"])
    /\ stalled <=> Hazard
    /\ wait_for_taken_branch_mem =>
         /\ ~ AfterMEM /\ BranchIn("MEM")
         /\ IsEmpty(slot["EX"]) /\ IsEmpty(slot["ID"]) /\ IsEmpty(slot["IF"])

\* The decision taken at the start of the cycle is still right when ID ticks.
StallCurrent == InCycle /\ ~ AfterID => (stalled <=> Hazard)

\* A fetch happens in an odd cycle that found MEM free.
FetchAllowed == fetched => OddCycle /\ ~ mem_active

\* The inductive part beyond types: the lock step of stages and cycles.  It is
\* what makes the guards against port conflicts and the branch wait redundant.
LockStep ==
  /\ BeforeOdd
  /\ BeforeEven
  /\ DuringOdd
  /\ DuringEven
  /\ StallCurrent
  /\ FetchAllowed
  /\ LoadUseStalls

IInv == TypeOK /\ LockStep

=============================================================================
