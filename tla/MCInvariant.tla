----------------------------- MODULE MCInvariant ---------------------------
(***************************************************************************)
(* The inductive invariants of the proofs on a machine with words of eight *)
(* bits, narrow enough for TLC to evaluate the assumption of the proofs on *)
(* C's bit operators for every pair of words.                              *)
(***************************************************************************)
EXTENDS MCPipeline, RefinementProofs

\* Immediates lie in -2 .. 1, data in addresses 4 and 5; R1 reaches them by
\* doubling.
NarrowKernel ==
  {MOVI(1, 1),
   R(OPCODE_ADD, 1, 1, 1),
   I(OPCODE_MOVR, 1, 1, 0),
   I(OPCODE_MOVM, 1, 1, 1),
   I(OPCODE_JEQ, 1, 0, 1),
   I(OPCODE_JEQ, 0, 0, -2),
   J(0), J(6)}

NarrowPrograms == UNION {Strings(NarrowKernel, n) : n \in 0 .. 4}

=============================================================================
