----------------------------- MODULE Interpreter ---------------------------
(***************************************************************************)
(* What the whole program promises: the instructions written in the file   *)
(* are executed one at a time, on registers and data that start at zero.   *)
(* There is no parser, no instruction word and no pipeline here.  Module   *)
(* Simulator is shown to implement it.                                     *)
(***************************************************************************)
EXTENDS Isa, AssemblyText

VARIABLE program    \* the instructions of the file, the fields of each

programVars == <<pc, regs, mem, program>>

\* The program to run is whatever the file says.
ProgramInit ==
  /\ pc = 0
  /\ regs = [r \in Register |-> 0]
  /\ mem = [a \in Address |-> 0]

\* Only data is ever stored to mem.
RunInstruction ==
  /\ pc < Len(program)
  /\ Execute(program[pc + 1])
  /\ program' = program

\* The last instruction has been executed and left these registers.
Ended(final) == pc >= Len(program) /\ regs = final

\* No branch of the program can go back.
OnlyForward ==
  \A i \in 1 .. Len(program) :
    program[i].opcode \in {OPCODE_JEQ, OPCODE_JMP} =>
      LET target == TargetFrom(i - 1, program[i])
      IN  target >= i \/ ~ is_instruction_address(target)

ProgramSpec == ProgramInit /\ [][RunInstruction]_programVars

=============================================================================
