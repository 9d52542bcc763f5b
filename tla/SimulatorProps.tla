---------------------------- MODULE SimulatorProps --------------------------
(***************************************************************************)
(* The correctness properties of the whole program.                        *)
(***************************************************************************)
EXTENDS Simulator

\* What is written in the file is what is executed: the instructions of the file,
\* one after the other, on registers and data that start at zero.  A line refused
\* by the parser is as if it were not there, a file that cannot be read is empty.
\* For files whose instructions fit the line buffer and whose numbers fit an int32_t
\* and a jump address.
RunsTheFile == Sequential!ProgramSpec

\* The engine finds the CPU as its model assumes it: reset, with valid
\* instructions below the count, nothing above, and no word of the file left in
\* data memory.
EngineFindsProgram ==
  calling = "pipeline_sim_run" /\ phase = "start" /\ cycle = 0 =>
    /\ PC = 0
    /\ registers = [r \in Register |-> 0]
    /\ instructionCount = IF readable THEN instruction_address ELSE 0
    /\ \A a \in Address :
         IF a < instructionCount
           THEN DecodeFields(memory_fetch_instruction(memory, a)).valid
           ELSE memory[a] = 0

\* The engine never fetches a word that the parser has not stored.
FetchesStored ==
  \A k \in Engine!Stage :
    ~ Engine!IsEmpty(slot[k]) =>
      /\ slot[k].reg.pc < instruction_address
      /\ slot[k].reg.rawInstruction = memory_fetch_instruction(memory, slot[k].reg.pc)

\* Whatever the parser has stored, also for a file that Interpreter says nothing of,
\* is executed one word after the other.
ExecutesStored ==
  [][Running => [Engine!ISA!Step]_(Engine!ISA!isaVars)]_vars

\* When the program ends, the registers it prints are those that the last instruction of
\* the file leaves: nothing is still in the pipeline or not yet written back.  So it is
\* unless the cycle bound has ended it, which six cycles for each instruction and one
\* more exclude if no branch goes back.  For the files that RunsTheFile is about.
CompletesTheFile ==
  calling = "exit" =>
    \/ Sequential!Ended(registers)
    \/ cycle = MaxCycles /\ (Sequential!OnlyForward => MaxCycles < 6 * Len(Program) + 1)

\* The program always comes to its end, whatever the file holds and whether or not
\* it can be read, also when the instructions loop.
AlwaysExits == <>(calling = "exit")

=============================================================================
