---------------------------- MODULE MCRepository ---------------------------
(***************************************************************************)
(* The test programs of input/ on the whole program, with the memory and   *)
(* the 18 bit immediates of the code.  There are eight registers, the      *)
(* programs use no more, and words of 28 bits: TLC computes with 32 bit    *)
(* integers.  test_shift_edges, which needs all 32 bits, is left out.      *)
(***************************************************************************)
EXTENDS SimulatorProps

C == INSTANCE CInt

MCBitAnd(a, b)     == C!CAnd(a, b, WORD_BITS)
MCBitXor(a, b)     == C!CXor(a, b, WORD_BITS)
MCShiftLeft(a, k)  == C!CShiftLeft(a, k, WORD_BITS)
MCShiftRight(a, k) == C!CShiftRight(a, k, WORD_BITS)

Cell(kind, value) == [kind |-> kind, value |-> value]

M(mnemonic) == Cell(mnemonic, 0)
R(n)        == Cell("register", n)
N(n)        == Cell("number", n)
Comment     == <<Cell("comment", 0), Cell("text", 0), Cell("text", 0)>>
Text        == Cell("text", 0)

MOVI(r1, n)        == <<M("MOVI"), R(r1), N(n)>>
Three(m, a, b, c)  == <<M(m), R(a), R(b), R(c)>>
Imm(m, r1, r2, n)  == <<M(m), R(r1), R(r2), N(n)>>
JMP(n)             == <<M("JMP"), N(n)>>

-----------------------------------------------------------------------------

program ==
  <<Comment, Comment, MOVI(1, 10), MOVI(2, 20), Three("ADD", 3, 1, 2),
    Three("SUB", 4, 3, 1), Three("ADD", 5, 4, 2)>>

test_branch_after_load ==
  <<MOVI(1, 1024), MOVI(2, 7), Imm("MOVM", 2, 1, 0), Imm("MOVR", 3, 1, 0),
    Imm("JEQ", 3, 2, 1), MOVI(4, 999), MOVI(5, 123)>>

test_branch_forward_flush ==
  <<Comment, MOVI(1, 1), MOVI(2, 1), Imm("JEQ", 1, 2, 2), MOVI(3, 999), MOVI(4, 7),
    Three("SUB", 5, 4, 1)>>

test_branch_not_taken ==
  <<Comment, MOVI(1, 7), MOVI(2, 8), Imm("JEQ", 1, 2, 2), MOVI(3, 111), MOVI(4, 222),
    MOVI(5, 55)>>

test_branch_taken ==
  <<Comment, MOVI(1, 7), MOVI(2, 7), Imm("JEQ", 1, 2, 2), MOVI(3, 111), MOVI(4, 222),
    MOVI(5, 55)>>

test_consecutive_branches ==
  <<MOVI(1, 0), Imm("JEQ", 1, 0, 2), Imm("JEQ", 0, 0, 1), MOVI(2, 111), MOVI(3, 222),
    MOVI(4, 333)>>

test_consecutive_jumps == <<JMP(2), MOVI(1, 111), JMP(4), MOVI(2, 222), MOVI(3, 333)>>

test_hazard_combo ==
  <<MOVI(1, 1024), MOVI(2, 9), Imm("MOVM", 2, 1, 0), Imm("MOVR", 3, 1, 0),
    Three("ADD", 4, 3, 2), Three("SUB", 5, 4, 3), Imm("JEQ", 5, 2, 1), MOVI(6, 999),
    Three("ADD", 7, 5, 2)>>

test_hazards ==
  <<Comment, MOVI(1, 3), MOVI(2, 4), Three("ADD", 3, 1, 2), Three("SUB", 4, 3, 1),
    Imm("ORI", 5, 4, 8), Imm("LSL", 6, 5, 1)>>

test_immediate_range ==
  <<MOVI(1, 131071), MOVI(2, -131072), MOVI(3, 131072), MOVI(4, -131073)>>

test_jump_flush ==
  <<Comment, MOVI(1, 1), JMP(4), MOVI(2, 200), MOVI(3, 300), MOVI(4, 400)>>

test_load_use ==
  <<MOVI(1, 1024), MOVI(2, 9), Imm("MOVM", 2, 1, 0), Imm("MOVR", 3, 1, 0),
    Three("ADD", 4, 3, 2)>>

test_memory_boundaries ==
  <<MOVI(1, 1024), MOVI(2, 55), Imm("MOVM", 2, 1, 1023), Imm("MOVR", 3, 1, 1023),
    Imm("MOVM", 2, 1, 1024), Imm("MOVR", 4, 1, 1024)>>

test_memory_r0 ==
  <<Comment, MOVI(1, 1024), MOVI(2, 77), Imm("MOVM", 2, 1, 0), Imm("MOVR", 3, 1, 0),
    MOVI(0, 999), Three("ADD", 0, 3, 4)>>

test_negative_branch_oob == <<Imm("JEQ", 0, 0, -2), MOVI(1, 99)>>

test_negative_immediate ==
  <<Comment, MOVI(1, -5), MOVI(2, 2), Three("ADD", 3, 1, 2), Three("SUB", 4, 2, 1),
    Imm("ORI", 5, 1, 1), Imm("LSR", 6, 1, 1)>>

test_parser_validation ==
  <<<<M("MOVI"), R(1)>>, <<M("ADD"), R(1), R(2)>>, <<M("MOVI"), Text, N(5)>>,
    <<M("XORI"), R(2), R(1), Text>>, JMP(-1), MOVI(3, 7)>>

test_positive == <<MOVI(1, 1), MOVI(2, 5), Three("ADD", 3, 1, 2)>>

test_xori_correctness == <<MOVI(1, 5), Imm("XORI", 2, 1, 3)>>

-----------------------------------------------------------------------------

\* What the programs are meant to leave in R0 to R7: read off their text, and off
\* their comments where they have any.
Intended ==
  {<<program,                   <<0, 10, 20, 30, 20, 40, 0, 0>>>>,
   <<test_branch_after_load,    <<0, 1024, 7, 7, 0, 123, 0, 0>>>>,
   <<test_branch_forward_flush, <<0, 1, 1, 0, 0, -1, 0, 0>>>>,
   <<test_branch_not_taken,     <<0, 7, 8, 111, 222, 55, 0, 0>>>>,
   <<test_branch_taken,         <<0, 7, 7, 0, 0, 55, 0, 0>>>>,
   <<test_consecutive_branches, <<0, 0, 0, 222, 333, 0, 0, 0>>>>,
   <<test_consecutive_jumps,    <<0, 0, 0, 333, 0, 0, 0, 0>>>>,
   <<test_hazard_combo,         <<0, 1024, 9, 9, 18, 9, 0, 18>>>>,
   <<test_hazards,              <<0, 3, 4, 7, 4, 12, 24, 0>>>>,
   <<test_immediate_range,      <<0, 131071, -131072, 0, 0, 0, 0, 0>>>>,
   <<test_jump_flush,           <<0, 1, 0, 0, 400, 0, 0, 0>>>>,
   <<test_load_use,             <<0, 1024, 9, 9, 18, 0, 0, 0>>>>,
   <<test_memory_boundaries,    <<0, 1024, 55, 55, 0, 0, 0, 0>>>>,
   <<test_memory_r0,            <<0, 1024, 77, 77, 0, 0, 0, 0>>>>,
   <<test_negative_branch_oob,  <<0, 99, 0, 0, 0, 0, 0, 0>>>>,
   <<test_negative_immediate,   <<0, -5, 2, -3, 7, -6, HALF_WORD - 3, 0>>>>,
   <<test_parser_validation,    <<0, 0, 0, 7, 0, 0, 0, 0>>>>,
   <<test_positive,             <<0, 1, 5, 6, 0, 0, 0, 0>>>>,
   <<test_xori_correctness,     <<0, 5, 6, 0, 0, 0, 0, 0>>>>}

RepositoryFiles == {pair[1] : pair \in Intended}

\* The test programs of the repository end with what they are meant to leave in the
\* registers: branches flush, R0 stays zero, refused lines are skipped and accesses
\* beyond memory have no effect, each in the file that is there to show it.
TestsEndAsIntended ==
  calling = "exit" /\ readable =>
    \E pair \in Intended :
      source = pair[1] /\ registers = [r \in Register |-> pair[2][r + 1]]

=============================================================================
