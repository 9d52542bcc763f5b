-------------------------- MODULE ProgramFamilies --------------------------
(***************************************************************************)
(* The instance that the model-checking modules of the pipeline share: C's *)
(* bit operators and the families of programs that the configurations      *)
(* choose from.  Immediates lie in -8 .. 7; data begins at address 6.      *)
(***************************************************************************)
EXTENDS Cpu

C == INSTANCE CInt

MCBitAnd(a, b)     == C!CAnd(a, b, WORD_BITS)
MCBitXor(a, b)     == C!CXor(a, b, WORD_BITS)
MCShiftLeft(a, k)  == C!CShiftLeft(a, k, WORD_BITS)
MCShiftRight(a, k) == C!CShiftRight(a, k, WORD_BITS)

R(opcode, r1, r2, r3)     == encode_r_type(opcode, r1, r2, r3, 0)
Shift(opcode, r1, r2, k)  == encode_r_type(opcode, r1, r2, 0, k)
I(opcode, r1, r2, imm)    == encode_i_type(opcode, r1, r2, imm)
MOVI(r1, imm)             == encode_i_type(OPCODE_MOVI, r1, 0, imm)
J(address)                == encode_j_type(OPCODE_JMP, address)

Strings(alphabet, n) == [1 .. n -> alphabet]

-----------------------------------------------------------------------------
(* Straight-line programs: every kind of instruction as producer and as    *)
(* consumer, at every distance.                                            *)

DataKernel ==
  {MOVI(1, 6),
   R(OPCODE_ADD, 1, 1, 2),
   R(OPCODE_SUB, 2, 1, 2),
   I(OPCODE_MOVR, 1, 0, 6),
   I(OPCODE_MOVR, 2, 1, 0),
   I(OPCODE_MOVM, 1, 0, 6),
   I(OPCODE_MOVM, 2, 1, 1)}

DataFull == DataKernel \cup
  {MOVI(0, 5), MOVI(2, -3),
   R(OPCODE_MUL, 2, 1, 1), R(OPCODE_AND, 1, 2, 1), R(OPCODE_ADD, 0, 1, 2),
   I(OPCODE_ORI, 2, 1, -6), I(OPCODE_MOVR, 0, 0, 6),
   I(OPCODE_MOVM, 2, 2, 0), I(OPCODE_MOVM, 0, 0, 6),
   Shift(OPCODE_LSL, 1, 1, 3), Shift(OPCODE_LSR, 1, 2, 1)}

DataPrograms ==
  {<<>>} \cup Strings(DataKernel, 4)
    \cup {<<MOVI(1, 6), MOVI(2, -3)>> \o s : s \in Strings(DataFull, 3)}

-----------------------------------------------------------------------------
(* Programs with branches and jumps, forward and backward, taken or not,   *)
(* with targets in, at the end of and outside the program and the memory.  *)

BranchKernel ==
  {MOVI(1, 1),
   R(OPCODE_ADD, 1, 1, 1),
   I(OPCODE_MOVR, 1, 0, 6),
   I(OPCODE_MOVM, 1, 0, 6),
   I(OPCODE_JEQ, 1, 0, 1),
   I(OPCODE_JEQ, 1, 1, -2),
   I(OPCODE_JEQ, 0, 0, 4),
   J(3), J(7)}

BranchPrograms == Strings(BranchKernel, 4)

ShortBranchPrograms == UNION {Strings(BranchKernel, n) : n \in 0 .. 3}

\* A timed program loops, jumps over loads and uses what it has loaded.
TimedKernel ==
  {MOVI(1, 1),
   R(OPCODE_SUB, 2, 1, 1),
   I(OPCODE_MOVR, 1, 0, 6),
   I(OPCODE_MOVM, 1, 0, 6),
   I(OPCODE_JEQ, 1, 0, 1),
   I(OPCODE_JEQ, 2, 1, -3),
   I(OPCODE_JEQ, 0, 0, -5),
   J(2)}

TimedPrograms ==
  UNION {Strings(TimedKernel, n) : n \in 0 .. 4}
    \cup {<<I(OPCODE_MOVR, 1, 0, 6)>> \o s : s \in Strings(DataFull, 2)}

\* Operands at both ends of an int32_t: R1 is -512, and -2048 after a further shift.
ExecuteKernel ==
  {R(OPCODE_ADD, 2, 1, 1), R(OPCODE_SUB, 2, 2, 1), R(OPCODE_SUB, 1, 1, 2),
   R(OPCODE_MUL, 2, 1, 1), R(OPCODE_AND, 2, 1, 2),
   MOVI(2, 7), I(OPCODE_ORI, 2, 1, -1), I(OPCODE_MOVR, 2, 1, 6), I(OPCODE_MOVM, 1, 2, -1),
   Shift(OPCODE_LSL, 1, 1, 2), Shift(OPCODE_LSR, 2, 1, 1),
   I(OPCODE_JEQ, 1, 2, -8), I(OPCODE_JEQ, 2, 2, -6), I(OPCODE_JEQ, 0, 2, 1), J(5), J(200)}

ExecutePrograms ==
  {<<MOVI(1, -8), Shift(OPCODE_LSL, 1, 1, 3), Shift(OPCODE_LSL, 1, 1, 3)>> \o s :
     s \in Strings(ExecuteKernel, 3)}

\* The straight-line programs and these.
HazardPrograms == DataPrograms \cup ExecutePrograms

\* A jump whose address needs the two bits above the low 26.
WideJumpPrograms ==
  {<<J(target), MOVI(1, 1), MOVI(2, 1), MOVI(3, 1)>> :
     target \in {2, 3, ADDR_SPACE \div 4 + 2}}

=============================================================================
