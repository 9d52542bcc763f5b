------------------------------ MODULE Opcodes ------------------------------
(***************************************************************************)
(* Instruction words: the bit layout, the encoders and the opcode tables   *)
(* of opcodes.h and opcodes.c, and the field extraction that the pipeline  *)
(* does on a raw word (pipeline_sim.c).                                    *)
(*                                                                         *)
(* The layout is that of the code with the field widths as parameters:     *)
(*                                                                         *)
(*   R-format   opcode | R1 | R2 | R3 | shamt                              *)
(*   I-format   opcode | R1 | R2 | immediate                               *)
(*   J-format   opcode | address                                           *)
(*                                                                         *)
(* A shift by a field's position is a multiplication or a division by the  *)
(* unit of that field, a mask is a remainder.  The code has                *)
(* REGISTER_COUNT = 2^5 and SHAMT_SPACE = 2^13, which make the immediate   *)
(* 18 bits, the address 28 bits and the word 32 bits wide.                 *)
(***************************************************************************)
EXTENDS Integers

CONSTANTS
  REGISTER_COUNT,   \* number of registers, the size of a register field
  SHAMT_SPACE       \* number of values of the shift amount field

ASSUME LayoutAssumption ==
  /\ REGISTER_COUNT \in Nat \ {0, 1}
  /\ SHAMT_SPACE \in Nat \ {0}

OPCODE_ADD  == 0
OPCODE_SUB  == 1
OPCODE_MUL  == 2
OPCODE_MOVI == 3
OPCODE_JEQ  == 4
OPCODE_AND  == 5
OPCODE_ORI  == 6
OPCODE_JMP  == 7
OPCODE_LSL  == 8
OPCODE_LSR  == 9
OPCODE_MOVR == 10
OPCODE_MOVM == 11

\* What the four opcode bits of a word can hold.
OpcodeField == 0 .. 15

Register == 0 .. REGISTER_COUNT - 1

R3_UNIT     == SHAMT_SPACE
R2_UNIT     == R3_UNIT * REGISTER_COUNT
R1_UNIT     == R2_UNIT * REGISTER_COUNT
OPCODE_UNIT == R1_UNIT * REGISTER_COUNT

\* The immediate occupies the bits below R2, the address those below the opcode.
IMM_SPACE  == R2_UNIT
ADDR_SPACE == OPCODE_UNIT

\* A uint32_t holds WORD_SPACE values; an int32_t lies on both sides of zero.
HALF_WORD  == 8 * OPCODE_UNIT
WORD_SPACE == 2 * HALF_WORD
RawWord    == 0 .. WORD_SPACE - 1
Int32      == -HALF_WORD .. HALF_WORD - 1

\* (int32_t)v for the mathematical value v: two's complement wrap-around.
ToInt32(v) == ((v + HALF_WORD) % WORD_SPACE) - HALF_WORD

\* (uint32_t)v.
ToUint32(v) == v % WORD_SPACE

-----------------------------------------------------------------------------
(* Encoders.  The fields come from the parser, which has checked them.     *)

encode_r_type(opcode, r1, r2, r3, shamt) ==
  opcode * OPCODE_UNIT + r1 * R1_UNIT + r2 * R2_UNIT + r3 * R3_UNIT
    + (shamt % SHAMT_SPACE)

encode_i_type(opcode, r1, r2, immediate) ==
  opcode * OPCODE_UNIT + r1 * R1_UNIT + r2 * R2_UNIT + (immediate % IMM_SPACE)

\* Mutant of encode_j_type: the address is not masked.
EncodeJUnmasked(opcode, address) == opcode * OPCODE_UNIT + address

encode_j_type(opcode, address) ==
  opcode * OPCODE_UNIT + (address % ADDR_SPACE)

-----------------------------------------------------------------------------
(* Opcode tables.                                                          *)

FormatR == {OPCODE_ADD, OPCODE_SUB, OPCODE_MUL, OPCODE_AND, OPCODE_LSL, OPCODE_LSR}
FormatJ == {OPCODE_JMP}
FormatI == {OPCODE_MOVI, OPCODE_JEQ, OPCODE_ORI, OPCODE_MOVR, OPCODE_MOVM}

opcode_writes_register(opcode) ==
  opcode \in {OPCODE_ADD, OPCODE_SUB, OPCODE_MUL, OPCODE_MOVI, OPCODE_AND,
              OPCODE_ORI, OPCODE_LSL, OPCODE_LSR, OPCODE_MOVR}

-----------------------------------------------------------------------------
(* Field extraction.                                                       *)

sign_extend(value, space) ==
  LET field == value % space
  IN  IF 2 * field >= space THEN field - space ELSE field

OpcodeOf(raw) == (raw \div OPCODE_UNIT) % 16

\* The decoded fields of a raw word; a field its format lacks is zero, and so
\* is the R2 field of a MOVI.  An opcode without a format is not valid.
DecodeFields(raw) ==
  LET opcode == OpcodeOf(raw)
      isR    == opcode \in FormatR
      isI    == opcode \in FormatI
      isJ    == opcode \in FormatJ
  IN  [valid     |-> isR \/ isI \/ isJ,
       opcode    |-> opcode,
       r1        |-> IF isR \/ isI THEN (raw \div R1_UNIT) % REGISTER_COUNT ELSE 0,
       r2        |-> IF isR \/ (isI /\ opcode # OPCODE_MOVI)
                       THEN (raw \div R2_UNIT) % REGISTER_COUNT ELSE 0,
       r3        |-> IF isR THEN (raw \div R3_UNIT) % REGISTER_COUNT ELSE 0,
       shamt     |-> IF isR THEN raw % SHAMT_SPACE ELSE 0,
       immediate |-> IF isI THEN sign_extend(raw, IMM_SPACE) ELSE 0,
       address   |-> IF isJ THEN raw % ADDR_SPACE ELSE 0]

=============================================================================
