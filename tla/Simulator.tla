------------------------------ MODULE Simulator ----------------------------
(***************************************************************************)
(* The program, main.c: reset the CPU, have the parser load the file, run  *)
(* the pipeline engine.  Parser and engine are the modules Parser and      *)
(* Pipeline over one CPU: the parser leaves words and their count in it,   *)
(* the engine starts from what it finds there.                             *)
(***************************************************************************)
EXTENDS AssemblyText

CONSTANTS
  Files,         \* the files that may be given
  LINE_CELLS,    \* the parser's line buffer
  LONG_MAX,      \* the largest value of a C long
  MaxCycles      \* the cycle bound: main asks for none, which means INT_MAX

\* What Parser and Pipeline assume of their parameters.
ASSUME SimulatorAssumption ==
  /\ LINE_CELLS \in Nat \ {0}
  /\ LONG_MAX \in Nat
  /\ HALF_WORD - 1 <= LONG_MAX
  /\ WORD_BITS <= SHAMT_SPACE
  /\ INSTRUCTION_MEMORY_SIZE > 0
  /\ MaxCycles \in Nat
  /\ \A file \in Files : file \in Seq(Seq([kind : STRING, value : Int]))

VARIABLES
  PC, registers, memory, instructionCount,             \* the global cpu
  readable, source, line, column,                      \* the file
  instruction_address, parsing,                        \* parse_assembly_file
  slot, cycle, wait_for_taken_branch_mem,              \* pipeline_sim_run
  phase, stalled, fetched, mem_active,
  calling                                              \* the call main is in

\* Each half with the theorems about it.  The engine starts from the CPU it finds, so
\* its own set of programs is not needed, nor is the history of its cycles.
Parse  == INSTANCE ParserProofs
Engine == INSTANCE TimingProofs WITH Programs <- {}, due <- 0, last <- 0

cpuVars    == <<PC, registers, memory, instructionCount>>
parseVars  == <<readable, source, line, column, instruction_address, parsing>>
engineVars == <<slot, cycle, wait_for_taken_branch_mem, phase, stalled, fetched, mem_active>>
vars       == <<cpuVars, parseVars, engineVars, calling>>

-----------------------------------------------------------------------------

ResetCpu(pc, regs, mem, count) ==
  /\ pc = 0
  /\ regs = [r \in Register |-> 0]
  /\ mem = [a \in Address |-> 0]
  /\ count = 0

\* memset(&engine, 0, sizeof(engine)), and the loop at its beginning.
ResetEngine(slots, cycles, waits, at) ==
  /\ slots = [k \in Engine!Stage |-> Engine!EmptySlot]
  /\ cycles = 0
  /\ waits = FALSE
  /\ at = "start"

\* cpu is a global variable and starts at zero.
Init ==
  /\ ResetCpu(PC, registers, memory, instructionCount)
  /\ readable \in BOOLEAN
  /\ source \in Files
  /\ line = 1 /\ column = 0
  /\ instruction_address = 0
  /\ parsing = "open"
  /\ ResetEngine(slot, cycle, wait_for_taken_branch_mem, phase)
  /\ stalled = FALSE /\ fetched = FALSE /\ mem_active = FALSE
  /\ calling = "cpu_reset"

\* cpu_reset and memory_init.
Reset ==
  /\ calling = "cpu_reset"
  /\ calling' = "parse_assembly_file"
  /\ ResetCpu(PC', registers', memory', instructionCount')
  /\ UNCHANGED <<parseVars, engineVars>>

Load ==
  /\ calling = "parse_assembly_file"
  /\ Parse!Step
  /\ UNCHANGED <<PC, registers, engineVars, calling>>

\* Whatever has become of the file, the engine is called.
StartEngine ==
  /\ calling = "parse_assembly_file"
  /\ parsing = "done"
  /\ calling' = "pipeline_sim_run"
  /\ ResetEngine(slot', cycle', wait_for_taken_branch_mem', phase')
  /\ UNCHANGED <<cpuVars, parseVars, stalled, fetched, mem_active>>

Run ==
  /\ calling = "pipeline_sim_run"
  /\ phase # "done"
  /\ Engine!Next
  /\ UNCHANGED <<parseVars, calling>>

Exit ==
  /\ calling = "pipeline_sim_run"
  /\ phase = "done"
  /\ calling' = "exit"
  /\ UNCHANGED <<cpuVars, parseVars, engineVars>>

Exited == calling = "exit" /\ UNCHANGED vars

Next == Reset \/ Load \/ StartEngine \/ Run \/ Exit \/ Exited

Spec == Init /\ [][Next]_vars

\* One thread, no call that blocks.
FairSpec == Spec /\ WF_vars(Next)

-----------------------------------------------------------------------------
(* Refinement.                                                             *)

Running == calling \in {"pipeline_sim_run", "exit"}

\* What each file says.
Meaning == [file \in Files |-> ProgramOf(file)]
Program == IF readable THEN Meaning[source] ELSE <<>>

\* Data memory, without the words that the parser stores below it.
Data == [a \in Address |-> IF is_data_address(a) THEN memory[a] ELSE 0]

Sequential == INSTANCE Interpreter WITH
  pc    <- IF Running THEN Engine!ArchPC ELSE 0,
  regs  <- IF Running THEN Engine!ArchRegisters ELSE registers,
  mem   <- Data,
  program <- Program,
  count <- 0

=============================================================================
