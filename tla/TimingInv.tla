------------------------------ MODULE TimingInv ----------------------------
(***************************************************************************)
(* The inductive invariant behind the timing of the pipeline.  MEM acts in *)
(* even cycles only, so an instruction has a place in a row of turns of    *)
(* MEM: its own turn comes as many cycles after the current one as it is   *)
(* stages away from MEM, two for each.  What keeps the row dense is that   *)
(* each stage is followed by the next instruction of the program, unless a *)
(* taken branch has emptied the stages behind it, a load holds back the    *)
(* instruction that reads it, or the program is at its end.                *)
(***************************************************************************)
EXTENDS PipelineTiming, RefinementInv

\* The even cycle in which MEM acts next or, up to the end of the odd cycle after
\* it, did so last.
MemTurn ==
  IF ~ OddCycle THEN cycle
  ELSE IF InCycle THEN cycle - 1
  ELSE cycle + 1

WaitsForMEM == ~ IsEmpty(slot["MEM"]) /\ ~ slot["MEM"].completed

\* How many cycles after that turn the oldest instruction before MEM, and the
\* oldest one that has not completed MEM, has its own.
DistanceEX ==
  IF ~ IsEmpty(slot["EX"]) THEN 2 ELSE IF ~ IsEmpty(slot["ID"]) THEN 4 ELSE 6

Distance == IF WaitsForMEM THEN 0 ELSE DistanceEX

Scheduled == ArchPC < instructionCount => due = MemTurn + Distance

-----------------------------------------------------------------------------
(* Each stage is followed by the next instruction.                         *)

\* The branch in EX has been taken.
Redirected == IsDone(slot["EX"]) /\ branch_taken(slot["EX"].reg)

RedirectEmpties == Redirected => IsEmpty(slot["ID"]) /\ IsEmpty(slot["IF"])

\* An odd cycle fetches unless IF is held up or the program is at its end.
IFFollows ==
  InCycle /\ OddCycle /\ ~ Redirected /\ IsEmpty(slot["IF"]) => PC >= instructionCount

IDFollows ==
  ~ IsEmpty(slot["EX"]) /\ ~ Redirected /\ IsEmpty(slot["ID"]) => FrontIF >= instructionCount

\* ID is held back in an odd cycle exactly if EX holds a load whose successor in
\* the program reads what it loads.
HeldByLoad ==
  InCycle /\ OddCycle /\ ~ IsEmpty(slot["EX"]) => (stalled <=> LoadUse(slot["EX"].reg))

\* The instruction behind the one in MEM is as far away as that one's cost.
EXFollows ==
  WaitsForMEM /\ FrontEX < instructionCount => Cost(slot["MEM"].reg) = DistanceEX

-----------------------------------------------------------------------------
(* The end of the program.                                                 *)

\* A cycle starts only if there is work, and its ticks leave some.
WorkInCycle == InCycle => pipeline_has_work /\ cycle > 0

\* What has completed MEM did so in its turn, which was the last one.
LastTurn ==
  IsDone(slot["MEM"]) \/ ~ IsEmpty(slot["WB"]) => last = MemTurn /\ last > 0

StopsAfterLast ==
  ~ InCycle /\ ~ pipeline_has_work =>
    cycle = IF last = 0 THEN 0 ELSE last + WB_CYCLES

-----------------------------------------------------------------------------
(* The bound for a program whose branches lead forward only.               *)

\* The instruction at address a has its turn before the cycle in which a + 1 taken
\* branches would have had theirs ...
TurnInTime ==
  ArchPC < instructionCount => MemTurn + Distance <= PipelineDepth * (ArchPC + 1)

\* ... and so has what has completed MEM.
LastInTime ==
  IsDone(slot["MEM"]) \/ ~ IsEmpty(slot["WB"]) => MemTurn <= PipelineDepth * instructionCount

InTime == ForwardOnly => TurnInTime /\ LastInTime /\ cycle <= Longest

\* The loop ends for no other reason than those of its test.
LoopTest == phase = "done" => ~ (pipeline_has_work /\ cycle < MaxCycles)

-----------------------------------------------------------------------------

\* Of the engine alone: no place in the row is left free without a reason.
Dense ==
  /\ RedirectEmpties
  /\ IFFollows
  /\ IDFollows
  /\ HeldByLoad
  /\ EXFollows
  /\ WorkInCycle

Punctual == InTime /\ LoopTest

\* With the history variables.
OnSchedule ==
  /\ due \in Nat /\ last \in Nat
  /\ Scheduled
  /\ LastTurn
  /\ StopsAfterLast

\* With the lock step and the refinement invariant this is inductive.
TimingInvariant == Dense /\ Punctual /\ OnSchedule

=============================================================================
