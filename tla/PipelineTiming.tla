--------------------------- MODULE PipelineTiming --------------------------
(***************************************************************************)
(* How many cycles a program takes.  Two history variables follow the      *)
(* engine: the cycle in which the next instruction has to complete MEM,    *)
(* told from the one before it alone, and the last such cycle.             *)
(***************************************************************************)
EXTENDS PipelineProps

VARIABLES
  due,     \* the cycle in which the next instruction has to complete MEM
  last     \* the cycle in which one did so last, zero before the first

timedVars == <<vars, due, last>>

\* From the fetch of an instruction to the end of its MEM, if nothing holds it up.
PipelineDepth == IF_CYCLES + ID_CYCLES + EX_CYCLES + MEM_CYCLES

\* An instruction is fetched in every other cycle.
FetchInterval == 2

\* The instruction after a load reads what it loads.
LoadUse(reg) ==
  /\ reg.opcode = OPCODE_MOVR
  /\ reg.pc + 1 < instructionCount
  /\ instruction_reads_register(Loaded(reg.pc + 1), destination_register(reg))

\* What reg costs the instruction after it: a taken branch empties the pipeline,
\* a load that is used at once stays in EX meanwhile.
Cost(reg) ==
  IF branch_taken(reg) THEN PipelineDepth
  ELSE IF LoadUse(reg) THEN FetchInterval + EX_CYCLES
  ELSE FetchInterval

CompletesMEM == phase = "MEM" /\ Completes("MEM")

TimedInit == Init /\ due = PipelineDepth /\ last = 0

TimedNext ==
  /\ Next
  /\ IF CompletesMEM
       THEN last' = cycle /\ due' = cycle + Cost(slot["MEM"].reg)
       ELSE UNCHANGED <<due, last>>

TimedSpec == TimedInit /\ [][TimedNext]_timedVars

-----------------------------------------------------------------------------

\* Each instruction completes MEM in exactly the cycle that the printed latencies
\* (IF=1, ID=2, EX=2, MEM=1, WB=1, a fetch every other cycle) give it: two cycles
\* after its predecessor, two more if that is a load it reads from, a whole
\* pipeline after a taken branch.  It is not early or late by a cycle, whatever
\* stalls, flushes and branches out of range came before.
OnTime ==
  phase = "MEM" =>
    (Completes("MEM") <=> cycle = due /\ ArchPC < instructionCount)

\* The engine stops with the write back of the last instruction: no cycle is
\* spent on an empty pipeline.
StopsAtOnce ==
  phase = "done" /\ ~ pipeline_has_work =>
    cycle = IF last = 0 THEN 0 ELSE last + WB_CYCLES

\* At worst each instruction is a taken branch.
Longest == PipelineDepth * instructionCount + WB_CYCLES

\* A program whose branches lead forward only has a bound on its cycles that can be
\* told from its length, and if pipeline_sim_run is given as many it returns with the
\* pipeline empty: nothing is starved and nothing cut off.  This is what ForwardDrains
\* promises without saying when.
DrainsInTime ==
  ForwardOnly =>
    /\ cycle <= Longest
    /\ phase = "done" /\ MaxCycles >= Longest => ~ pipeline_has_work

=============================================================================
