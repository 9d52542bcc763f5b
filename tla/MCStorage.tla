------------------------------ MODULE MCStorage ----------------------------
(***************************************************************************)
(* Model-checking instance of the storage interface: two registers, eight  *)
(* bit words, immediates from -2 to 1, two instruction and two data words. *)
(***************************************************************************)
EXTENDS StorageProps

C == INSTANCE CInt

MCBitAnd(a, b)     == C!CAnd(a, b, WORD_BITS)
MCBitXor(a, b)     == C!CXor(a, b, WORD_BITS)
MCShiftLeft(a, k)  == C!CShiftLeft(a, k, WORD_BITS)
MCShiftRight(a, k) == C!CShiftRight(a, k, WORD_BITS)

\* R1 is base and destination at once; the last one is no memory instruction.
MCWords ==
  {encode_i_type(OPCODE_MOVR, 1, 1, 1),
   encode_i_type(OPCODE_MOVM, 1, 1, -1),
   encode_r_type(OPCODE_ADD, 0, 1, 1, 0)}

\* Both are also data addresses, and with the offsets of MCWords the borders.
MCValues == {2, 3}

\* On both sides of the borders of instruction memory and of memory, and the
\* largest uint32_t, which is -1 as an int.
MCPCs       == {0, 1, 2, WORD_SPACE - 1}
MCCounts    == {-1, 2, MEMORY_SIZE}
MCAddresses == {1, 3, 4, WORD_SPACE - 1}
MCIndices   == {0, 1, REGISTER_COUNT}

=============================================================================
