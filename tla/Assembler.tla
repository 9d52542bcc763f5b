------------------------------ MODULE Assembler ----------------------------
(***************************************************************************)
(* What the parser promises: a machine that turns every line that is an    *)
(* instruction into one, in the order of the lines.  Module Parser is      *)
(* shown to implement it for files whose lines fit the buffer and whose    *)
(* numbers fit an int32_t and a jump address.                              *)
(***************************************************************************)
EXTENDS AssemblyText

VARIABLES
  lines,     \* the lines not yet assembled
  program,   \* the instructions assembled
  count      \* the announced length of the program, zero before the end

Init == program = <<>> /\ count = 0 /\ lines \in Seq(Seq([kind : STRING, value : Int]))

HasRoom == Len(program) < INSTRUCTION_MEMORY_SIZE

\* The next line, if it is an instruction, becomes one; if not, it is as if it
\* were not there.
Assemble ==
  /\ lines # <<>>
  /\ HasRoom
  /\ lines' = Tail(lines)
  /\ program' = IF IsInstruction(Head(lines))
                  THEN Append(program, Instruction(Head(lines))) ELSE program
  /\ count' = count

Announce ==
  /\ lines = <<>> \/ ~ HasRoom
  /\ count' = Len(program)
  /\ UNCHANGED <<lines, program>>

Spec == Init /\ [][Assemble \/ Announce]_<<lines, program, count>>

=============================================================================
