---------------------------- MODULE ParserProofs ----------------------------
(***************************************************************************)
(* The proofs of the parser's invariants, of the isolation of the fields   *)
(* and of the refinement of module Assembler, for every layout of words,   *)
(* every buffer size and every file.                                       *)
(***************************************************************************)
EXTENDS ParserProps, CpuProofs, SequenceTheorems, FiniteSetTheorems

-----------------------------------------------------------------------------
(* Words.                                                                  *)

\* What lies below a unit is not seen by a division with that unit.
LEMMA FieldAbove ==
  ASSUME NEW n \in Nat \ {0}, NEW q \in 0 .. 15, NEW r \in 0 .. n - 1
  PROVE  (q * n + r) \div n = q
  BY DivisionUnique

\* A field and what lies below it fill the field above.
LEMMA FieldBelow ==
  ASSUME NEW u \in Nat \ {0}, NEW f \in Register, NEW low \in 0 .. u - 1
  PROVE  f * u + low \in 0 .. u * REGISTER_COUNT - 1
<1>1. f \in Nat /\ f + 1 <= REGISTER_COUNT
  BY LayoutAssumption DEF Register
<1>2. f * u + u <= u * REGISTER_COUNT
  BY <1>1, LayoutAssumption
<1>3. f * u \in Nat
  BY <1>1
<1> QED
  BY <1>2, <1>3, LayoutAssumption

\* The bits of a field, whatever lies above and below it.
LEMMA FieldBetween ==
  ASSUME NEW u \in Nat \ {0}, NEW f \in Register, NEW low \in 0 .. u - 1, NEW high \in Int
  PROVE  ((high * (u * REGISTER_COUNT) + (f * u + low)) \div u) % REGISTER_COUNT = f
<1>1. f \in Int /\ f \in 0 .. REGISTER_COUNT - 1
  BY LayoutAssumption DEF Register
<1>2. high * REGISTER_COUNT + f \in Int
  BY <1>1, LayoutAssumption
<1>3. high * (u * REGISTER_COUNT) + (f * u + low) = (high * REGISTER_COUNT + f) * u + low
  BY <1>1, LayoutAssumption
<1>4. (high * (u * REGISTER_COUNT) + (f * u + low)) \div u = high * REGISTER_COUNT + f
  <2> DEFINE q == high * REGISTER_COUNT + f
  <2>1. (q * u + low) \div u = q
    <3> HIDE DEF q
    <3>1. q \in Int
      BY <1>2 DEF q
    <3> QED
      BY <3>1, DivisionUnique
  <2> QED
    BY <2>1, <1>3
<1>5. (high * REGISTER_COUNT + f) % REGISTER_COUNT = f
  BY <1>1, LayoutAssumption, DivisionUnique
<1> QED
  BY <1>4, <1>5

\* A word of the J-format: the opcode, and one field below it.
LEMMA JWord ==
  ASSUME NEW o \in OpcodeField, NEW low \in 0 .. OPCODE_UNIT - 1
  PROVE  /\ o * OPCODE_UNIT + low \in RawWord
         /\ OpcodeOf(o * OPCODE_UNIT + low) = o
         /\ (o * OPCODE_UNIT + low) % ADDR_SPACE = low
<1>1. o \in 0 .. 15 /\ OPCODE_UNIT \in Nat \ {0}
  BY UnitsPositive DEF OpcodeField
<1>2. (o * OPCODE_UNIT + low) \div OPCODE_UNIT = o /\ (o * OPCODE_UNIT + low) % OPCODE_UNIT = low
  BY <1>1, DivisionUnique
<1>3. o % 16 = o
  BY <1>1
<1>4. o * OPCODE_UNIT + low \in 0 .. 16 * OPCODE_UNIT - 1
  <2>1. ASSUME NEW u \in Nat \ {0}, NEW l \in 0 .. u - 1
        PROVE  o * u + l \in 0 .. 16 * u - 1
    <3>1. o * u + u <= 16 * u /\ o * u \in Nat
      BY <1>1
    <3> QED
      BY <3>1
  <2> QED
    BY <1>1, <2>1
<1>5. 16 * OPCODE_UNIT = WORD_SPACE
  BY <1>1 DEF WORD_SPACE, HALF_WORD
<1> QED
  BY <1>2, <1>3, <1>4, <1>5 DEF OpcodeOf, ADDR_SPACE, RawWord

\* A word of the I-format: the opcode, two registers and what is below them.
LEMMA IWord ==
  ASSUME NEW o \in OpcodeField, NEW a \in Register, NEW b \in Register,
         NEW low \in 0 .. R2_UNIT - 1
  PROVE  LET word == o * OPCODE_UNIT + a * R1_UNIT + b * R2_UNIT + low
         IN  /\ word \in RawWord
             /\ OpcodeOf(word) = o
             /\ (word \div R1_UNIT) % REGISTER_COUNT = a
             /\ (word \div R2_UNIT) % REGISTER_COUNT = b
             /\ word % R2_UNIT = low
<1> DEFINE word == o * OPCODE_UNIT + a * R1_UNIT + b * R2_UNIT + low
           low1 == b * R2_UNIT + low
           low0 == a * R1_UNIT + low1
<1>1. /\ o \in Int /\ a \in Int /\ b \in Int /\ low \in Int
      /\ R2_UNIT \in Nat \ {0} /\ R1_UNIT \in Nat \ {0} /\ OPCODE_UNIT \in Nat \ {0}
  BY UnitsPositive DEF OpcodeField, Register
<1>2. R1_UNIT = R2_UNIT * REGISTER_COUNT /\ OPCODE_UNIT = R1_UNIT * REGISTER_COUNT
  BY DEF R1_UNIT, OPCODE_UNIT
<1>3. low1 \in 0 .. R1_UNIT - 1
  BY <1>1, <1>2, FieldBelow
<1>4. low0 \in 0 .. OPCODE_UNIT - 1
  <2> HIDE DEF low1
  <2> QED
    BY <1>1, <1>2, <1>3, FieldBelow
<1>5. word = o * OPCODE_UNIT + low0
  BY <1>1
<1>6. word \in RawWord /\ OpcodeOf(word) = o
  <2> HIDE DEF low0, word
  <2> QED
    BY <1>4, <1>5, JWord
<1>7. (word \div R1_UNIT) % REGISTER_COUNT = a
  <2>1. ((o * (R1_UNIT * REGISTER_COUNT) + (a * R1_UNIT + low1)) \div R1_UNIT) % REGISTER_COUNT = a
    <3> HIDE DEF low1
    <3> QED
      BY <1>1, <1>3, FieldBetween
  <2> QED
    BY <2>1, <1>2, <1>5
<1>8. word = (o * REGISTER_COUNT + a) * R1_UNIT + low1 /\ o * REGISTER_COUNT + a \in Int
  BY <1>1, <1>2, LayoutAssumption
<1>9. (word \div R2_UNIT) % REGISTER_COUNT = b
  <2> DEFINE h == o * REGISTER_COUNT + a
  <2>1. ((h * (R2_UNIT * REGISTER_COUNT) + (b * R2_UNIT + low)) \div R2_UNIT) % REGISTER_COUNT = b
    <3>1. h \in Int
      BY <1>8
    <3> HIDE DEF h
    <3> QED
      BY <3>1, <1>1, FieldBetween
  <2> QED
    BY <2>1, <1>2, <1>8
<1>10. word % R2_UNIT = low
  <2> DEFINE q == (o * REGISTER_COUNT + a) * REGISTER_COUNT + b
  <2>1. q \in Int
    BY <1>1, LayoutAssumption
  <2>2. word = q * R2_UNIT + low
    <3> DEFINE h == o * REGISTER_COUNT + a
    <3>1. h \in Int /\ word = h * (R2_UNIT * REGISTER_COUNT) + (b * R2_UNIT + low)
      BY <1>2, <1>8
    <3> HIDE DEF h, word
    <3>2. h * (R2_UNIT * REGISTER_COUNT) + (b * R2_UNIT + low) = (h * REGISTER_COUNT + b) * R2_UNIT + low
      BY <3>1, <1>1, LayoutAssumption
    <3> QED
      BY <3>1, <3>2 DEF h
  <2> HIDE DEF q, word
  <2> QED
    BY <2>1, <2>2, <1>1, DivisionUnique
<1> QED
  BY <1>6, <1>7, <1>9, <1>10

\* A word of the R-format: the opcode, three registers and the shift amount.
LEMMA RWord ==
  ASSUME NEW o \in OpcodeField, NEW a \in Register, NEW b \in Register, NEW c \in Register,
         NEW amount \in 0 .. SHAMT_SPACE - 1
  PROVE  LET word == encode_r_type(o, a, b, c, amount)
         IN  /\ word \in RawWord
             /\ OpcodeOf(word) = o
             /\ (word \div R1_UNIT) % REGISTER_COUNT = a
             /\ (word \div R2_UNIT) % REGISTER_COUNT = b
             /\ (word \div R3_UNIT) % REGISTER_COUNT = c
             /\ word % SHAMT_SPACE = amount
<1> DEFINE word == encode_r_type(o, a, b, c, amount)
           low  == c * R3_UNIT + amount
           h    == (o * REGISTER_COUNT + a) * REGISTER_COUNT + b
<1>1. /\ o \in Int /\ a \in Int /\ b \in Int /\ c \in Int /\ amount \in Int
      /\ R3_UNIT \in Nat \ {0} /\ R2_UNIT \in Nat \ {0}
      /\ R1_UNIT \in Nat \ {0} /\ OPCODE_UNIT \in Nat \ {0}
  BY UnitsPositive DEF OpcodeField, Register
<1>2. /\ R2_UNIT = R3_UNIT * REGISTER_COUNT /\ R1_UNIT = R2_UNIT * REGISTER_COUNT
      /\ OPCODE_UNIT = R1_UNIT * REGISTER_COUNT /\ R3_UNIT = SHAMT_SPACE
  BY DEF R2_UNIT, R1_UNIT, OPCODE_UNIT, R3_UNIT
<1>3. amount % SHAMT_SPACE = amount
  BY LayoutAssumption
<1>4. low \in 0 .. R2_UNIT - 1
  BY <1>1, <1>2, FieldBelow
<1>5. word = o * OPCODE_UNIT + a * R1_UNIT + b * R2_UNIT + low
  BY <1>1, <1>3 DEF encode_r_type
<1>6. /\ word \in RawWord
      /\ OpcodeOf(word) = o
      /\ (word \div R1_UNIT) % REGISTER_COUNT = a
      /\ (word \div R2_UNIT) % REGISTER_COUNT = b
  <2> HIDE DEF low, word
  <2> QED
    BY <1>4, <1>5, IWord
<1>7. h \in Int
  BY <1>1, LayoutAssumption
<1>8. word = h * R2_UNIT + low
  <2> DEFINE k == o * REGISTER_COUNT + a
  <2>1. k \in Int
    BY <1>1, LayoutAssumption
  <2>2. o * OPCODE_UNIT + a * R1_UNIT = k * R1_UNIT
    BY <1>1, <1>2, LayoutAssumption
  <2>3. k * R1_UNIT + b * R2_UNIT = (k * REGISTER_COUNT + b) * R2_UNIT
    <3> HIDE DEF k
    <3> QED
      BY <2>1, <1>1, <1>2, LayoutAssumption
  <2> QED
    BY <1>5, <2>2, <2>3
<1>9. (word \div R3_UNIT) % REGISTER_COUNT = c
  <2>1. ((h * (R3_UNIT * REGISTER_COUNT) + (c * R3_UNIT + amount)) \div R3_UNIT) % REGISTER_COUNT = c
    <3> HIDE DEF h
    <3> QED
      BY <1>1, <1>2, <1>7, FieldBetween
  <2> QED
    BY <2>1, <1>2, <1>8
<1>10. word % SHAMT_SPACE = amount
  <2> DEFINE q == h * REGISTER_COUNT + c
  <2>1. q \in Int
    <3> HIDE DEF h
    <3> QED
      BY <1>1, <1>7, LayoutAssumption
  <2>2. word = q * SHAMT_SPACE + amount
    <3> HIDE DEF h, word
    <3> QED
      BY <1>1, <1>2, <1>7, <1>8, LayoutAssumption
  <2> HIDE DEF q, word
  <2> QED
    BY <2>1, <2>2, DivisionUnique, LayoutAssumption
<1> HIDE DEF low, h
<1> QED
  BY <1>6, <1>9, <1>10

-----------------------------------------------------------------------------
(* Decoding is the inverse of encoding.                                    *)

\* What an encoded R-format word is decoded to.
LEMMA RDecode ==
  ASSUME NEW o \in FormatR, NEW a \in Register, NEW b \in Register, NEW c \in Register,
         NEW amount \in 0 .. SHAMT_SPACE - 1
  PROVE  /\ encode_r_type(o, a, b, c, amount) \in RawWord
         /\ DecodeFields(encode_r_type(o, a, b, c, amount)) =
              [valid |-> TRUE, opcode |-> o, r1 |-> a, r2 |-> b, r3 |-> c,
               shamt |-> amount, immediate |-> 0, address |-> 0]
<1> DEFINE word == encode_r_type(o, a, b, c, amount)
<1>1. o \in OpcodeField /\ o \notin FormatI /\ o \notin FormatJ
  BY DEF FormatR, FormatI, FormatJ, OpcodeField, OPCODE_ADD, OPCODE_SUB, OPCODE_MUL,
         OPCODE_AND, OPCODE_LSL, OPCODE_LSR, OPCODE_MOVI, OPCODE_JEQ, OPCODE_ORI,
         OPCODE_MOVR, OPCODE_MOVM, OPCODE_JMP
<1>2. /\ word \in RawWord
      /\ OpcodeOf(word) = o
      /\ (word \div R1_UNIT) % REGISTER_COUNT = a
      /\ (word \div R2_UNIT) % REGISTER_COUNT = b
      /\ (word \div R3_UNIT) % REGISTER_COUNT = c
      /\ word % SHAMT_SPACE = amount
  BY <1>1, RWord
<1> HIDE DEF word
<1>3. DecodeFields(word) =
        [valid |-> TRUE, opcode |-> o, r1 |-> a, r2 |-> b, r3 |-> c,
         shamt |-> amount, immediate |-> 0, address |-> 0]
  BY <1>1, <1>2 DEF DecodeFields
<1> QED
  BY <1>2, <1>3 DEF word

\* What an encoded I-format word is decoded to: the immediate as far as its field holds it.
LEMMA IDecode ==
  ASSUME NEW o \in FormatI, NEW a \in Register, NEW b \in Register, NEW v \in Int
  PROVE  /\ encode_i_type(o, a, b, v) \in RawWord
         /\ DecodeFields(encode_i_type(o, a, b, v)) =
              [valid |-> TRUE, opcode |-> o, r1 |-> a,
               r2 |-> IF o = OPCODE_MOVI THEN 0 ELSE b, r3 |-> 0,
               shamt |-> 0, immediate |-> sign_extend(v, IMM_SPACE), address |-> 0]
<1> DEFINE word == encode_i_type(o, a, b, v)
           low  == v % IMM_SPACE
<1>1. o \in OpcodeField /\ o \notin FormatR /\ o \notin FormatJ
  BY DEF FormatR, FormatI, FormatJ, OpcodeField, OPCODE_ADD, OPCODE_SUB, OPCODE_MUL,
         OPCODE_AND, OPCODE_LSL, OPCODE_LSR, OPCODE_MOVI, OPCODE_JEQ, OPCODE_ORI,
         OPCODE_MOVR, OPCODE_MOVM, OPCODE_JMP
<1>2. low \in 0 .. R2_UNIT - 1
  BY UnitsPositive, RemainderRange DEF IMM_SPACE
<1>3. word = o * OPCODE_UNIT + a * R1_UNIT + b * R2_UNIT + low
  BY DEF encode_i_type
<1> HIDE DEF word, low
<1>4. /\ word \in RawWord
      /\ OpcodeOf(word) = o
      /\ (word \div R1_UNIT) % REGISTER_COUNT = a
      /\ (word \div R2_UNIT) % REGISTER_COUNT = b
      /\ word % R2_UNIT = low
  BY <1>1, <1>2, <1>3, IWord
<1>5. sign_extend(word, IMM_SPACE) = sign_extend(v, IMM_SPACE)
  BY <1>4 DEF sign_extend, IMM_SPACE, low
<1>6. DecodeFields(word) =
        [valid |-> TRUE, opcode |-> o, r1 |-> a,
         r2 |-> IF o = OPCODE_MOVI THEN 0 ELSE b, r3 |-> 0,
         shamt |-> 0, immediate |-> sign_extend(v, IMM_SPACE), address |-> 0]
  BY <1>1, <1>4, <1>5 DEF DecodeFields
<1> QED
  BY <1>4, <1>6 DEF word

\* What an encoded jump is decoded to: the address as far as its field holds it.
LEMMA JDecode ==
  ASSUME NEW v \in Int
  PROVE  /\ encode_j_type(OPCODE_JMP, v) \in RawWord
         /\ DecodeFields(encode_j_type(OPCODE_JMP, v)) =
              [valid |-> TRUE, opcode |-> OPCODE_JMP, r1 |-> 0, r2 |-> 0, r3 |-> 0,
               shamt |-> 0, immediate |-> 0, address |-> v % ADDR_SPACE]
<1> DEFINE word == encode_j_type(OPCODE_JMP, v)
           low  == v % ADDR_SPACE
<1>1. /\ OPCODE_JMP \in OpcodeField
      /\ OPCODE_JMP \notin FormatR /\ OPCODE_JMP \notin FormatI /\ OPCODE_JMP \in FormatJ
  BY DEF FormatR, FormatI, FormatJ, OpcodeField, OPCODE_ADD, OPCODE_SUB, OPCODE_MUL,
         OPCODE_AND, OPCODE_LSL, OPCODE_LSR, OPCODE_MOVI, OPCODE_JEQ, OPCODE_ORI,
         OPCODE_MOVR, OPCODE_MOVM, OPCODE_JMP
<1>2. low \in 0 .. OPCODE_UNIT - 1
  BY UnitsPositive, RemainderRange DEF ADDR_SPACE
<1>3. word = OPCODE_JMP * OPCODE_UNIT + low
  BY DEF encode_j_type
<1> HIDE DEF word, low
<1>4. word \in RawWord /\ OpcodeOf(word) = OPCODE_JMP /\ word % ADDR_SPACE = low
  BY <1>1, <1>2, <1>3, JWord
<1>5. DecodeFields(word) =
        [valid |-> TRUE, opcode |-> OPCODE_JMP, r1 |-> 0, r2 |-> 0, r3 |-> 0,
         shamt |-> 0, immediate |-> 0, address |-> v % ADDR_SPACE]
  BY <1>1, <1>4 DEF DecodeFields, low
<1> QED
  BY <1>4, <1>5 DEF word

\* The numbers that sign extension leaves alone are those of the signed field: the
\* range check of the parser asks for what the field can hold.
LEMMA SignedField ==
  ASSUME NEW v \in Int
  PROVE  sign_extend(v, IMM_SPACE) = v <=> validate_i_type_immediate(v)
<1>1. ASSUME NEW n \in Nat \ {0}
      PROVE  (IF 2 * (v % n) >= n THEN (v % n) - n ELSE v % n) = v
               <=> v >= -(n \div 2) /\ v <= (n + 1) \div 2 - 1
  <2> DEFINE f == v % n
             q == v \div n
  <2>1. f \in 0 .. n - 1 /\ q \in Int /\ v = q * n + f
    OBVIOUS
  <2>2. v \in 0 .. n - 1 => f = v
    OBVIOUS
  <2>3. v \in -n .. -1 => f = v + n
    OBVIOUS
  <2> HIDE DEF f, q
  <2>4. n \div 2 \in Nat /\ 2 * (n \div 2) <= n /\ n <= 2 * (n \div 2) + 1
    OBVIOUS
  <2>5. (n + 1) \div 2 = n - n \div 2
    OBVIOUS
  <2> QED
    BY <2>1, <2>2, <2>3, <2>4, <2>5 DEF f
<1> QED
  BY <1>1, UnitsPositive
     DEF sign_extend, IMM_SPACE, validate_i_type_immediate, I_TYPE_IMMEDIATE_MIN,
         I_TYPE_IMMEDIATE_MAX

-----------------------------------------------------------------------------
(* Accepted lines.                                                         *)

\* The fields that the operands of an instruction give, by its opcode.
OperandFields(opcode) ==
  CASE opcode \in ThreeRegisters -> <<"r1", "r2", "r3">>
    [] opcode \in ShiftOpcode    -> <<"r1", "r2", "shamt">>
    [] opcode = OPCODE_MOVI      -> <<"r1", "immediate">>
    [] opcode = OPCODE_JMP       -> <<"address">>
    [] OTHER                     -> <<"r1", "r2", "immediate">>

\* The two tables of mnemonics agree.
LEMMA MnemonicsAgree ==
  /\ DOMAIN Mnemonic = DOMAIN Syntax
  /\ \A m \in DOMAIN Mnemonic :
       /\ Mnemonic[m] \in FormatR \cup FormatI \cup FormatJ
       /\ Syntax[m].opcode = Mnemonic[m]
       /\ Syntax[m].fields = OperandFields(Mnemonic[m])
<1> USE DEF OPCODE_ADD, OPCODE_SUB, OPCODE_MUL, OPCODE_MOVI, OPCODE_JEQ, OPCODE_AND,
            OPCODE_ORI, OPCODE_JMP, OPCODE_LSL, OPCODE_LSR, OPCODE_MOVR, OPCODE_MOVM
<1>1. DOMAIN Mnemonic = DOMAIN Syntax
  BY DEF Mnemonic, Syntax
<1>2. \A m \in DOMAIN Mnemonic : Mnemonic[m] \in FormatR \cup FormatI \cup FormatJ
  BY DEF Mnemonic, FormatR, FormatI, FormatJ
<1>3. \A m \in DOMAIN Mnemonic : Syntax[m].opcode = Mnemonic[m]
  BY DEF Mnemonic, Syntax, Form, Arithmetic, Shifting, Immediate
<1>4. \A m \in DOMAIN Mnemonic : Syntax[m].fields = OperandFields(Syntax[m].opcode)
  BY DEF Mnemonic, Syntax, Form, Arithmetic, Shifting, Immediate, OperandFields,
         ThreeRegisters, ShiftOpcode
<1> QED
  BY <1>1, <1>2, <1>3, <1>4

\* strtol is the identity on what fits a long.
LEMMA StrtolFacts ==
  /\ \A v \in Long : strtol(v) = v /\ v \in Int
  /\ \A v : strtol(v) \in Register => strtol(v) = v
  /\ Register \subseteq Long
<1>1. LONG_MAX \in Nat /\ REGISTER_COUNT - 1 < LONG_MAX
  <2>1. REGISTER_COUNT <= OPCODE_UNIT /\ OPCODE_UNIT \in Nat \ {0}
    BY UnitsPositive, LayoutAssumption
  <2>2. HALF_WORD = 8 * OPCODE_UNIT
    BY DEF HALF_WORD
  <2> QED
    BY <2>1, <2>2, ParserAssumption, LayoutAssumption
<1>2. \A v \in Long : strtol(v) = v /\ v \in Int
  BY <1>1 DEF Long, strtol
<1>3. LONG_MAX \notin Register /\ -LONG_MAX - 1 \notin Register
  BY <1>1, LayoutAssumption DEF Register
<1>4. \A v : strtol(v) \in Register => strtol(v) = v
  BY <1>3 DEF strtol
<1>5. Register \subseteq Long
  BY <1>1, LayoutAssumption DEF Register, Long
<1> QED
  BY <1>2, <1>4, <1>5

\* A register operand has the value that is written; an immediate is an int32_t.
LEMMA OperandValues ==
  ASSUME NEW token
  PROVE  /\ parses_as_register(token) =>
              /\ token.kind = "register"
              /\ strtol(token.value) = token.value
              /\ token.value \in Register
         /\ parses_as_immediate(token) => immediate_of(token) \in Int32
<1>1. \A n \in Long : n \in Int
  BY StrtolFacts
<1> QED
  BY <1>1, StrtolFacts, ToInt32Type DEF parses_as_register, parses_as_immediate, immediate_of

\* The instruction that the parser makes of an accepted line.
Accepted(tokens) ==
  LET opcode == opcode_from_string(tokens[1])
      r(i)   == tokens[i + 1].value
      imm    == immediate_of(tokens[OperandCount(opcode) + 1])
  IN  [valid     |-> TRUE,
       opcode    |-> opcode,
       r1        |-> IF opcode = OPCODE_JMP THEN 0 ELSE r(1),
       r2        |-> IF opcode \in {OPCODE_JMP, OPCODE_MOVI} THEN 0 ELSE r(2),
       r3        |-> IF opcode \in ThreeRegisters THEN r(3) ELSE 0,
       shamt     |-> IF opcode \in ShiftOpcode THEN imm ELSE 0,
       immediate |-> IF opcode \in FormatI THEN imm ELSE 0,
       address   |-> IF opcode = OPCODE_JMP THEN imm % ADDR_SPACE ELSE 0]

\* It fits a word, and decoding the word gives it back.
LEMMA AcceptedIsStored ==
  ASSUME NEW tokens, accepted(tokens)
  PROVE  /\ encoded(tokens) \in RawWord
         /\ DecodeFields(encoded(tokens)) = Accepted(tokens)
<1> DEFINE o      == opcode_from_string(tokens[1])
           arg(i) == tokens[i + 1]
           v      == immediate_of(arg(OperandCount(o)))
<1> USE DEF OPCODE_ADD, OPCODE_SUB, OPCODE_MUL, OPCODE_MOVI, OPCODE_JEQ, OPCODE_AND,
            OPCODE_ORI, OPCODE_JMP, OPCODE_LSL, OPCODE_LSR, OPCODE_MOVR, OPCODE_MOVM
<1>1. o \in FormatR \cup FormatI \cup FormatJ
  <2>1. o >= 0
    BY DEF accepted
  <2>2. tokens[1].kind \in DOMAIN Mnemonic
    BY <2>1 DEF opcode_from_string
  <2> QED
    BY <2>2, MnemonicsAgree DEF opcode_from_string
<1>2. \A i \in RegisterOperands(o) :
        strtol(arg(i).value) = arg(i).value /\ arg(i).value \in Register
  BY OperandValues DEF accepted
<1>3. o \notin ThreeRegisters => v \in Int32 /\ immediate_in_range(o, v)
  BY OperandValues DEF accepted
<1> HIDE DEF o
<1>4. CASE o \in ThreeRegisters
  <2>1. /\ RegisterOperands(o) = 1 .. 3 /\ o \in FormatR /\ o \notin FormatI
        /\ o \notin ShiftOpcode /\ o # OPCODE_JMP /\ o # OPCODE_MOVI
    BY <1>4 DEF RegisterOperands, ThreeRegisters, ShiftOpcode, FormatR, FormatI
  <2>2. /\ arg(1).value \in Register /\ arg(2).value \in Register /\ arg(3).value \in Register
        /\ encoded(tokens) =
             encode_r_type(o, arg(1).value, arg(2).value, arg(3).value, 0)
    BY <1>2, <1>4, <2>1 DEF encoded, o
  <2>3. 0 \in 0 .. SHAMT_SPACE - 1
    BY LayoutAssumption
  <2>4. Accepted(tokens) =
               [valid |-> TRUE, opcode |-> o, r1 |-> arg(1).value, r2 |-> arg(2).value, r3 |-> arg(3).value,
                shamt |-> 0, immediate |-> 0, address |-> 0]
    BY <1>4, <2>1 DEF Accepted, o
  <2>5. /\ encode_r_type(o, arg(1).value, arg(2).value, arg(3).value, 0) \in RawWord
        /\ DecodeFields(encode_r_type(o, arg(1).value, arg(2).value, arg(3).value, 0)) =
               [valid |-> TRUE, opcode |-> o, r1 |-> arg(1).value, r2 |-> arg(2).value, r3 |-> arg(3).value,
                shamt |-> 0, immediate |-> 0, address |-> 0]
    <3> DEFINE a == arg(1).value
               b == arg(2).value
               c == arg(3).value
    <3>1. a \in Register /\ b \in Register /\ c \in Register
      BY <2>2
    <3> HIDE DEF a, b, c, v
    <3>2. /\ encode_r_type(o, a, b, c, 0) \in RawWord
          /\ DecodeFields(encode_r_type(o, a, b, c, 0)) =
               [valid |-> TRUE, opcode |-> o, r1 |-> a, r2 |-> b, r3 |-> c,
                shamt |-> 0, immediate |-> 0, address |-> 0]
      BY <2>1, <3>1, <2>3, RDecode
    <3> QED
      BY <3>2 DEF a, b, c
  <2> QED
    BY <2>2, <2>4, <2>5
<1>5. CASE o \in ShiftOpcode
  <2>1. /\ RegisterOperands(o) = 1 .. 2 /\ o \in FormatR /\ o \notin FormatI
        /\ o \notin ThreeRegisters /\ o # OPCODE_JMP /\ o # OPCODE_MOVI
        /\ OperandCount(o) = 3
    BY <1>5 DEF RegisterOperands, ThreeRegisters, ShiftOpcode, FormatR, FormatI,
                OperandCount
  <2>2. /\ arg(1).value \in Register /\ arg(2).value \in Register
        /\ encoded(tokens) = encode_r_type(o, arg(1).value, arg(2).value, 0, v)
    BY <1>2, <1>5, <2>1 DEF encoded, o
  <2>3. v \in 0 .. SHAMT_SPACE - 1
    <3>1. v \in Int32 /\ validate_shift_amount(v)
      BY <1>3, <1>5, <2>1 DEF immediate_in_range
    <3> HIDE DEF v
    <3> QED
      BY <3>1, Int32Facts, ParserAssumption, WordAssumption, LayoutAssumption
         DEF validate_shift_amount, SHIFT_AMOUNT_MAX
  <2>4. 0 \in Register
    BY LayoutAssumption DEF Register
  <2>5. Accepted(tokens) =
               [valid |-> TRUE, opcode |-> o, r1 |-> arg(1).value, r2 |-> arg(2).value, r3 |-> 0,
                shamt |-> v, immediate |-> 0, address |-> 0]
    BY <1>5, <2>1 DEF Accepted, o
  <2>6. /\ encode_r_type(o, arg(1).value, arg(2).value, 0, v) \in RawWord
        /\ DecodeFields(encode_r_type(o, arg(1).value, arg(2).value, 0, v)) =
               [valid |-> TRUE, opcode |-> o, r1 |-> arg(1).value, r2 |-> arg(2).value, r3 |-> 0,
                shamt |-> v, immediate |-> 0, address |-> 0]
    <3> DEFINE a == arg(1).value
               b == arg(2).value
    <3>1. a \in Register /\ b \in Register
      BY <2>2
    <3> HIDE DEF a, b, v
    <3>2. /\ encode_r_type(o, a, b, 0, v) \in RawWord
          /\ DecodeFields(encode_r_type(o, a, b, 0, v)) =
               [valid |-> TRUE, opcode |-> o, r1 |-> a, r2 |-> b, r3 |-> 0,
                shamt |-> v, immediate |-> 0, address |-> 0]
      BY <2>1, <3>1, <2>3, <2>4, RDecode
    <3> QED
      BY <3>2 DEF a, b
  <2> QED
    BY <2>2, <2>5, <2>6
<1>6. CASE o = OPCODE_JMP
  <2>1. OperandCount(o) = 1 /\ o \notin ThreeRegisters \cup ShiftOpcode \cup FormatI
    BY <1>6 DEF ThreeRegisters, ShiftOpcode, FormatI, OperandCount
  <2>2. encoded(tokens) = encode_j_type(OPCODE_JMP, v) /\ v \in Int
    BY <1>3, <1>6, <2>1, Int32Facts DEF encoded, o
  <2> QED
    BY <1>6, <2>1, <2>2, JDecode DEF Accepted, o
<1>7. CASE o = OPCODE_MOVI
  <2>1. /\ OperandCount(o) = 2 /\ RegisterOperands(o) = 1 .. 1
        /\ o \notin ThreeRegisters \cup ShiftOpcode /\ o \in FormatI
    BY <1>7 DEF ThreeRegisters, ShiftOpcode, FormatI, OperandCount, RegisterOperands
  <2>2. arg(1).value \in Register /\ encoded(tokens) = encode_i_type(o, arg(1).value, 0, v)
    BY <1>2, <1>7, <2>1 DEF encoded, o
  <2>3. v \in Int /\ sign_extend(v, IMM_SPACE) = v
    <3>1. v \in Int32 /\ validate_i_type_immediate(v)
      BY <1>3, <1>7, <2>1 DEF immediate_in_range, ShiftOpcode
    <3> HIDE DEF v
    <3> QED
      BY <3>1, Int32Facts, SignedField
  <2>4. 0 \in Register
    BY LayoutAssumption DEF Register
  <2>5. Accepted(tokens) =
               [valid |-> TRUE, opcode |-> o, r1 |-> arg(1).value, r2 |-> 0, r3 |-> 0,
                shamt |-> 0, immediate |-> v, address |-> 0]
    <3>1. /\ o \in {OPCODE_JMP, OPCODE_MOVI} /\ o # OPCODE_JMP /\ o \in FormatI
          /\ o \notin ThreeRegisters /\ o \notin ShiftOpcode
      BY <1>7, <2>1
    <3> HIDE DEF OPCODE_JMP, OPCODE_MOVI
    <3> QED
      BY <3>1 DEF Accepted, o
  <2>6. /\ encode_i_type(o, arg(1).value, 0, v) \in RawWord
        /\ DecodeFields(encode_i_type(o, arg(1).value, 0, v)) =
               [valid |-> TRUE, opcode |-> o, r1 |-> arg(1).value, r2 |-> 0, r3 |-> 0,
                shamt |-> 0, immediate |-> v, address |-> 0]
    <3> DEFINE a == arg(1).value
    <3>1. a \in Register
      BY <2>2
    <3> HIDE DEF a, v
    <3>2. /\ encode_i_type(o, a, 0, v) \in RawWord
          /\ DecodeFields(encode_i_type(o, a, 0, v)) =
               [valid |-> TRUE, opcode |-> o, r1 |-> a, r2 |-> 0, r3 |-> 0,
                shamt |-> 0, immediate |-> v, address |-> 0]
      BY <1>7, <2>1, <3>1, <2>3, <2>4, IDecode
    <3> QED
      BY <3>2 DEF a
  <2> QED
    BY <2>2, <2>5, <2>6
<1>8. CASE o \in FormatI \ {OPCODE_MOVI}
  <2>1. /\ OperandCount(o) = 3 /\ RegisterOperands(o) = 1 .. 2 /\ o # OPCODE_JMP
        /\ o \notin ThreeRegisters \cup ShiftOpcode /\ o \in FormatI /\ o # OPCODE_MOVI
    BY <1>8 DEF ThreeRegisters, ShiftOpcode, FormatI, OperandCount, RegisterOperands
  <2>2. /\ arg(1).value \in Register /\ arg(2).value \in Register
        /\ encoded(tokens) = encode_i_type(o, arg(1).value, arg(2).value, v)
    BY <1>2, <1>8, <2>1 DEF encoded, o
  <2>3. v \in Int /\ sign_extend(v, IMM_SPACE) = v
    <3>1. v \in Int32 /\ validate_i_type_immediate(v)
      BY <1>3, <1>8, <2>1 DEF immediate_in_range, ShiftOpcode
    <3> HIDE DEF v
    <3> QED
      BY <3>1, Int32Facts, SignedField
  <2>4. Accepted(tokens) =
               [valid |-> TRUE, opcode |-> o, r1 |-> arg(1).value, r2 |-> arg(2).value, r3 |-> 0,
                shamt |-> 0, immediate |-> v, address |-> 0]
    BY <1>8, <2>1 DEF Accepted, o
  <2>5. /\ encode_i_type(o, arg(1).value, arg(2).value, v) \in RawWord
        /\ DecodeFields(encode_i_type(o, arg(1).value, arg(2).value, v)) =
               [valid |-> TRUE, opcode |-> o, r1 |-> arg(1).value, r2 |-> arg(2).value, r3 |-> 0,
                shamt |-> 0, immediate |-> v, address |-> 0]
    <3> DEFINE a == arg(1).value
               b == arg(2).value
    <3>1. a \in Register /\ b \in Register
      BY <2>2
    <3> HIDE DEF a, b, v
    <3>2. /\ encode_i_type(o, a, b, v) \in RawWord
          /\ DecodeFields(encode_i_type(o, a, b, v)) =
               [valid |-> TRUE, opcode |-> o, r1 |-> a, r2 |-> b, r3 |-> 0,
                shamt |-> 0, immediate |-> v, address |-> 0]
      BY <2>1, <3>1, <2>3, IDecode
    <3> QED
      BY <3>2 DEF a, b
  <2> QED
    BY <2>2, <2>4, <2>5
<1> QED
  BY <1>1, <1>4, <1>5, <1>6, <1>7, <1>8
     DEF FormatR, FormatI, FormatJ, ThreeRegisters, ShiftOpcode

-----------------------------------------------------------------------------
(* Storing.                                                                *)

\* A stored word is fetched as it was, and nothing else has changed.
LEMMA StoreFetch ==
  ASSUME NEW mem \in [Address -> Int32], NEW w \in RawWord,
         NEW a \in 0 .. INSTRUCTION_MEMORY_SIZE - 1,
         NEW stored, stored = memory_store_instruction(mem, a, w)
  PROVE  /\ stored \in [Address -> Int32]
         /\ memory_fetch_instruction(stored, a) = w
         /\ \A b \in Address : b # a =>
              /\ stored[b] = mem[b]
              /\ memory_fetch_instruction(stored, b) = memory_fetch_instruction(mem, b)
<1>1. a \in Address /\ is_instruction_address(a) /\ a \in Int
  BY MemoryAssumption DEF Address, is_instruction_address
<1>2. stored = [mem EXCEPT ![a] = ToInt32(w)]
  BY <1>1 DEF memory_store_instruction
<1>3. ToInt32(w) \in Int32 /\ ToUint32(ToInt32(w)) = w
  BY UnitsPositive, ToInt32Type, WordRoundTrip DEF RawWord
<1>4. stored \in [Address -> Int32] /\ stored[a] = ToInt32(w)
  BY <1>1, <1>2, <1>3
<1>5. \A b \in Address : b # a => stored[b] = mem[b]
  BY <1>1, <1>2
<1> QED
  BY <1>1, <1>3, <1>4, <1>5 DEF memory_fetch_instruction

-----------------------------------------------------------------------------
(* The invariant.                                                          *)

\* What a step of the parser needs to know, besides the types and the stored words.
Progress ==
  /\ parsing \in {"open", "reading"} => instruction_address < INSTRUCTION_MEMORY_SIZE
  /\ parsing # "done" => instructionCount = 0
  /\ parsing = "open" => instruction_address = 0
  /\ parsing = "closing" =>
       line > Len(source) \/ instruction_address = INSTRUCTION_MEMORY_SIZE
  /\ ~ readable =>
       parsing \in {"open", "done"} /\ instruction_address = 0 /\ instructionCount = 0
  /\ InScope => column = 0

ParserInvariant == TypeOK /\ StoredIsValid /\ Progress

OneCell == [kind : STRING, value : Int]
Cells   == Seq(OneCell)

\* The file is a sequence of lines, a line one of cells.
LEMMA SourceType ==
  ASSUME source \in Files
  PROVE  /\ source \in Seq(Cells) /\ Len(source) \in Nat
         /\ \A i \in 1 .. Len(source) : source[i] \in Cells /\ Len(source[i]) \in Nat
<1>1. source \in Seq(Cells)
  BY FilesAssumption DEF Cells, OneCell
<1>2. \A i \in 1 .. Len(source) : source[i] \in Cells
  BY <1>1
<1>3. \A i \in 1 .. Len(source) : Len(source[i]) \in Nat
  BY <1>2 DEF Cells
<1> QED
  BY <1>1, <1>2, <1>3

\* What is left of the current line.
LEMMA UnreadLength ==
  ASSUME TypeOK, line <= Len(source)
  PROVE  /\ Len(Unread) = Len(source[line]) - column
         /\ column = 0 => Unread = source[line]
<1>1. /\ line \in 1 .. Len(source) /\ column \in Nat /\ column <= Len(source[line])
      /\ source[line] \in Cells /\ Len(source[line]) \in Nat
  <2>1. line \in 1 .. Len(source) + 1 /\ column \in Nat /\ source \in Files
    BY DEF TypeOK
  <2>2. Len(source) \in Nat
    BY <2>1, SourceType
  <2>3. line \in 1 .. Len(source)
    BY <2>1, <2>2
  <2>4. source[line] \in Cells /\ Len(source[line]) \in Nat
    BY <2>1, <2>3, SourceType
  <2> QED
    BY <2>1, <2>3, <2>4 DEF TypeOK
<1> DEFINE s == source[line]
           m == column + 1
           n == Len(s)
<1>2. s \in Seq(OneCell) /\ m \in 1 .. n + 1 /\ m \in Int /\ n \in Int
  BY <1>1 DEF Cells
<1>3. \A i \in m .. n : s[i] \in OneCell
  <2> HIDE DEF s, m
  <2> QED
    BY <1>2
<1>4. Len(SubSeq(s, m, n)) = IF m <= n THEN n - m + 1 ELSE 0
  <2> HIDE DEF s, m, n
  <2> QED
    BY <1>2, <1>3, SubSeqProperties
<1>5. Len(Unread) = Len(s) - column
  BY <1>1, <1>4 DEF Unread
<1>6. column = 0 => SubSeq(s, m, n) = s
  <2>1. SubSeq(s, 1, Len(s)) = s
    BY <1>2, SubSeqFull
  <2> QED
    BY <2>1
<1> QED
  BY <1>5, <1>6 DEF Unread

\* fgets stays inside the file, and takes a line of a file in scope as a whole.
LEMMA FgetsStep ==
  ASSUME TypeOK, fgets
  PROVE  /\ line' \in 1 .. Len(source) + 1
         /\ column' \in Nat
         /\ line' <= Len(source) => column' <= Len(source[line'])
         /\ InScope /\ column = 0 =>
              line' = line + 1 /\ column' = 0 /\ Buffer = source[line]
<1>1. line \in 1 .. Len(source) /\ column \in Nat /\ Len(source) \in Nat
  <2>1. line \in 1 .. Len(source) + 1 /\ column \in Nat /\ source \in Files /\ line <= Len(source)
    BY DEF TypeOK, fgets
  <2>2. Len(source) \in Nat
    BY <2>1, SourceType
  <2> QED
    BY <2>1, <2>2
<1>2. \A i \in 1 .. Len(source) : Len(source[i]) \in Nat
  BY SourceType DEF TypeOK
<1>3. Len(Unread) = Len(source[line]) - column /\ (column = 0 => Unread = source[line])
  BY <1>1, UnreadLength
<1>4. LINE_CELLS \in Nat \ {0}
  BY ParserAssumption
<1>5. CASE ReadsLineBreak
  <2>1. line' = line + 1 /\ column' = 0 /\ Buffer = Unread
    BY <1>5 DEF fgets, Buffer
  <2>2. line' <= Len(source) => Len(source[line']) \in Nat
    BY <1>1, <1>2, <2>1
  <2> QED
    BY <1>1, <1>3, <2>1, <2>2
<1>6. CASE ~ ReadsLineBreak
  <2>1. line' = line /\ column' = column + LINE_CELLS
    BY <1>6 DEF fgets
  <2>2. Len(source[line]) \in Nat
    BY <1>1, <1>2
  <2>3. LINE_CELLS <= Len(source[line]) - column
    BY <1>1, <1>3, <1>4, <1>6, <2>2 DEF ReadsLineBreak
  <2>4. ~ (InScope /\ column = 0)
    <3>1. InScope => Len(source[line]) < LINE_CELLS
      <4>1. source \in Seq(Cells)
        BY SourceType DEF TypeOK
      <4>2. line \in DOMAIN source
        BY <4>1, <1>1
      <4> QED
        BY <4>2 DEF InScope
    <3> QED
      BY <3>1, <2>2, <2>3, <1>4
  <2> QED
    BY <1>1, <1>4, <2>1, <2>2, <2>3, <2>4
<1> QED
  BY <1>5, <1>6

\* What the step that stores an instruction does.
LEMMA StoreStep ==
  ASSUME TypeOK, Progress, StoreLine
  PROVE  /\ instruction_address \in 0 .. INSTRUCTION_MEMORY_SIZE - 1
         /\ instruction_address' = instruction_address + 1
         /\ memory' \in [Address -> Int32]
         /\ DecodeFields(memory_fetch_instruction(memory', instruction_address)) =
              Accepted(Tokens)
         /\ \A a \in Address : a # instruction_address =>
              /\ memory'[a] = memory[a]
              /\ memory_fetch_instruction(memory', a) = memory_fetch_instruction(memory, a)
<1> DEFINE tokens == Tokens
           word   == encoded(tokens)
<1>1. /\ accepted(tokens)
      /\ memory' = memory_store_instruction(memory, instruction_address, word)
      /\ instruction_address' = instruction_address + 1
      /\ parsing = "reading"
  BY DEF StoreLine
<1>2. /\ memory \in [Address -> Int32]
      /\ instruction_address \in 0 .. INSTRUCTION_MEMORY_SIZE - 1
  BY <1>1, MemoryAssumption DEF TypeOK, Progress
<1>3. word \in RawWord /\ DecodeFields(word) = Accepted(tokens)
  <2> HIDE DEF tokens
  <2> QED
    BY <1>1, AcceptedIsStored DEF word
<1> HIDE DEF tokens, word
<1>4. /\ memory' \in [Address -> Int32]
      /\ memory_fetch_instruction(memory', instruction_address) = word
      /\ \A a \in Address : a # instruction_address =>
              /\ memory'[a] = memory[a]
              /\ memory_fetch_instruction(memory', a) = memory_fetch_instruction(memory, a)
  BY <1>1, <1>2, <1>3, StoreFetch
<1> QED
  BY <1>1, <1>2, <1>3, <1>4 DEF tokens

\* The instructions stored before stay as they are.
LEMMA StoredGrows ==
  ASSUME TypeOK, Progress, StoreLine
  PROVE  /\ Stored'[instruction_address'] = Accepted(Tokens)
         /\ \A i \in 1 .. instruction_address : Stored'[i] = Stored[i]
<1>1. /\ instruction_address \in 0 .. INSTRUCTION_MEMORY_SIZE - 1
      /\ instruction_address' = instruction_address + 1
  BY StoreStep
<1>2. \A i \in 1 .. instruction_address' :
        Stored'[i] = DecodeFields(memory_fetch_instruction(memory', i - 1))
  BY DEF Stored
<1>3. \A i \in 1 .. instruction_address :
        Stored[i] = DecodeFields(memory_fetch_instruction(memory, i - 1))
  BY DEF Stored
<1>4. Stored'[instruction_address'] = Accepted(Tokens)
  <2>1. instruction_address' \in 1 .. instruction_address'
        /\ instruction_address' - 1 = instruction_address
    BY <1>1, MemoryAssumption
  <2>2. Stored'[instruction_address'] =
          DecodeFields(memory_fetch_instruction(memory', instruction_address))
    BY <1>2, <2>1
  <2> QED
    BY <2>2, StoreStep
<1>5. ASSUME NEW i \in 1 .. instruction_address PROVE Stored'[i] = Stored[i]
  <2>1. i \in 1 .. instruction_address' /\ i - 1 \in Address /\ i - 1 # instruction_address
    BY <1>1, MemoryAssumption DEF Address
  <2>2. memory_fetch_instruction(memory', i - 1) = memory_fetch_instruction(memory, i - 1)
    BY <2>1, StoreStep
  <2> QED
    BY <1>2, <1>3, <2>1, <2>2
<1> QED
  BY <1>4, <1>5

\* The parser starts in the invariant, whatever the file.
LEMMA ParserInit == Init => ParserInvariant
<1> SUFFICES ASSUME Init PROVE ParserInvariant
  OBVIOUS
<1>1. source \in Files /\ Len(source) \in Nat /\ \A i \in 1 .. Len(source) : Len(source[i]) \in Nat
  BY SourceType DEF Init
<1>2. TypeOK
  BY <1>1, Int32Facts, MemoryAssumption DEF Init, TypeOK
<1>3. StoredIsValid
  BY MemoryAssumption DEF Init, StoredIsValid, Address
<1>4. Progress
  BY ParserAssumption, MemoryAssumption DEF Init, Progress
<1> QED
  BY <1>2, <1>3, <1>4 DEF ParserInvariant

\* The file does not change, nor what is claimed about it.
LEMMA FileStays ==
  ASSUME [Next]_parserVars
  PROVE  readable' = readable /\ source' = source /\ InScope' = InScope
<1>1. readable' = readable /\ source' = source
  BY DEF Next, Step, Returned, Open, OpenFails, SkipLine, RejectLine, StoreLine, EndOfFile,
         Close, parserVars, fileVars
<1>2. InScope' = InScope
  BY <1>1 DEF InScope
<1> QED
  BY <1>1, <1>2

\* A step that leaves the stored words alone.
LEMMA MemoryStays ==
  ASSUME StoredIsValid, UNCHANGED <<memory, instruction_address>>,
         (parsing = "done" /\ readable => instructionCount = instruction_address)'
  PROVE  StoredIsValid'
<1>1. Stored' = Stored
  BY DEF Stored
<1> QED
  BY <1>1 DEF StoredIsValid

\* Every step of the parser keeps the invariant.
LEMMA ParserNext == ParserInvariant /\ [Next]_parserVars => ParserInvariant'
<1> SUFFICES ASSUME ParserInvariant, [Next]_parserVars PROVE ParserInvariant'
  OBVIOUS
<1>1. TypeOK /\ StoredIsValid /\ Progress
  BY DEF ParserInvariant
<1>2. readable' = readable /\ source' = source /\ InScope' = InScope
  BY FileStays
<1>3. source \in Files /\ Len(source) \in Nat
  BY <1>1, SourceType DEF TypeOK
<1>4. CASE Open
  <2>1. UNCHANGED <<memory, instructionCount, line, column, instruction_address>>
        /\ readable /\ parsing' = "reading" /\ parsing = "open"
    BY <1>4 DEF Open
  <2>2. TypeOK'
    BY <1>1, <1>2, <2>1 DEF TypeOK
  <2>3. StoredIsValid'
    BY <1>1, <2>1, MemoryStays
  <2>4. Progress'
    BY <1>1, <1>2, <2>1 DEF Progress
  <2> QED
    BY <2>2, <2>3, <2>4 DEF ParserInvariant
<1>5. CASE OpenFails
  <2>1. UNCHANGED <<memory, instructionCount, line, column, instruction_address>>
        /\ ~ readable /\ parsing' = "done" /\ parsing = "open"
    BY <1>5 DEF OpenFails
  <2>2. TypeOK'
    BY <1>1, <1>2, <2>1 DEF TypeOK
  <2>3. StoredIsValid'
    BY <1>1, <1>2, <2>1, MemoryStays
  <2>4. Progress'
    BY <1>1, <1>2, <2>1 DEF Progress
  <2> QED
    BY <2>2, <2>3, <2>4 DEF ParserInvariant
<1>6. CASE SkipLine \/ RejectLine
  <2>1. UNCHANGED <<memory, instructionCount, instruction_address, parsing>>
        /\ fgets /\ parsing = "reading"
    BY <1>6 DEF SkipLine, RejectLine
  <2>2. TypeOK'
    BY <1>1, <1>2, <2>1, FgetsStep DEF TypeOK
  <2>3. StoredIsValid'
    BY <1>1, <2>1, MemoryStays
  <2>4. Progress'
    BY <1>1, <1>2, <2>1, FgetsStep DEF Progress
  <2> QED
    BY <2>2, <2>3, <2>4 DEF ParserInvariant
<1>7. CASE StoreLine
  <2>1. UNCHANGED instructionCount /\ fgets /\ parsing = "reading"
        /\ parsing' = IF IsFull(instruction_address + 1) THEN "closing" ELSE "reading"
    BY <1>7 DEF StoreLine
  <2>2. /\ instruction_address \in 0 .. INSTRUCTION_MEMORY_SIZE - 1
        /\ instruction_address' = instruction_address + 1
        /\ memory' \in [Address -> Int32]
        /\ \A a \in Address : a # instruction_address => memory'[a] = memory[a]
    BY <1>1, <1>7, StoreStep
  <2>3. TypeOK'
    BY <1>1, <1>2, <2>1, <2>2, FgetsStep, MemoryAssumption DEF TypeOK
  <2>4. StoredIsValid'
    <3>1. \A i \in 1 .. instruction_address' : Stored'[i].valid
      <4>1. Stored'[instruction_address'].valid
        BY <1>1, <1>7, StoredGrows DEF Accepted
      <4>2. \A i \in 1 .. instruction_address : Stored'[i].valid
        BY <1>1, <1>7, StoredGrows DEF StoredIsValid
      <4> QED
        BY <2>2, <4>1, <4>2, MemoryAssumption
    <3>2. \A a \in Address : a >= instruction_address' => memory'[a] = 0
      BY <1>1, <2>2, MemoryAssumption DEF StoredIsValid, Address
    <3>3. parsing' # "done"
      BY <2>1
    <3> QED
      BY <3>1, <3>2, <3>3 DEF StoredIsValid
  <2>5. Progress'
    BY <1>1, <1>2, <2>1, <2>2, FgetsStep, MemoryAssumption DEF Progress, IsFull
  <2> QED
    BY <2>3, <2>4, <2>5 DEF ParserInvariant
<1>8. CASE EndOfFile
  <2>1. UNCHANGED <<memory, instructionCount, line, column, instruction_address>>
        /\ line > Len(source) /\ parsing' = "closing" /\ parsing = "reading"
    BY <1>8 DEF EndOfFile
  <2>2. TypeOK'
    BY <1>1, <1>2, <2>1 DEF TypeOK
  <2>3. StoredIsValid'
    BY <1>1, <2>1, MemoryStays
  <2>4. Progress'
    BY <1>1, <1>2, <2>1 DEF Progress
  <2> QED
    BY <2>2, <2>3, <2>4 DEF ParserInvariant
<1>9. CASE Close
  <2>1. UNCHANGED <<memory, line, column, instruction_address>>
        /\ instructionCount' = instruction_address /\ parsing' = "done" /\ parsing = "closing"
    BY <1>9 DEF Close
  <2>2. TypeOK'
    BY <1>1, <1>2, <2>1 DEF TypeOK
  <2>3. StoredIsValid'
    BY <1>1, <2>1, MemoryStays
  <2>4. Progress'
    BY <1>1, <1>2, <2>1 DEF Progress
  <2> QED
    BY <2>2, <2>3, <2>4 DEF ParserInvariant
<1>10. CASE UNCHANGED parserVars
  <2>1. UNCHANGED <<memory, instructionCount, line, column, instruction_address, parsing>>
    BY <1>10 DEF parserVars
  <2>2. TypeOK'
    BY <1>1, <1>2, <2>1 DEF TypeOK
  <2>3. StoredIsValid'
    BY <1>1, <1>2, <2>1, MemoryStays DEF StoredIsValid
  <2>4. Progress'
    BY <1>1, <1>2, <2>1 DEF Progress
  <2> QED
    BY <2>2, <2>3, <2>4 DEF ParserInvariant
<1> QED
  BY <1>4, <1>5, <1>6, <1>7, <1>8, <1>9, <1>10 DEF Next, Step, Returned

\* Types, valid words and the progress of parse_assembly_file hold in every run, for
\* every file, line buffer and memory.
THEOREM ParserInvariance == Spec => []ParserInvariant
<1> QED
  BY ParserInit, ParserNext, PTL DEF Spec

\* The parser stays inside the file, inside instruction memory and inside int32_t,
\* whatever the file holds.
THEOREM ParserTypeCorrect == Spec => []TypeOK
<1>1. ParserInvariant => TypeOK
  BY DEF ParserInvariant
<1> QED
  BY <1>1, ParserInvariance, PTL

\* Whatever the file holds, the words below the next address are valid instructions,
\* nothing is above them, and the count announced is theirs.
THEOREM StoredAlwaysValid == Spec => []StoredIsValid
<1>1. ParserInvariant => StoredIsValid
  BY DEF ParserInvariant
<1> QED
  BY <1>1, ParserInvariance, PTL

-----------------------------------------------------------------------------
(* Fields.                                                                 *)

\* The mnemonic of an accepted line is in both tables.
LEMMA AcceptedMnemonic ==
  ASSUME NEW tokens, opcode_from_string(tokens[1]) >= 0
  PROVE  /\ tokens[1].kind \in DOMAIN Syntax
         /\ Syntax[tokens[1].kind].opcode = opcode_from_string(tokens[1])
         /\ Syntax[tokens[1].kind].fields = OperandFields(opcode_from_string(tokens[1]))
         /\ opcode_from_string(tokens[1]) \in FormatR \cup FormatI \cup FormatJ
<1>1. tokens[1].kind \in DOMAIN Mnemonic
  BY DEF opcode_from_string
<1> QED
  BY <1>1, MnemonicsAgree DEF opcode_from_string

\* The classes of opcodes that the parser tells apart.
LEMMA OpcodeClasses ==
  ASSUME NEW o \in FormatR \cup FormatI \cup FormatJ
  PROVE  \/ /\ o \in ThreeRegisters /\ o \notin ShiftOpcode /\ o \in FormatR
            /\ o \notin FormatI /\ o # OPCODE_JMP /\ o # OPCODE_MOVI
            /\ OperandCount(o) = 3 /\ RegisterOperands(o) = 1 .. 3
         \/ /\ o \notin ThreeRegisters /\ o \in ShiftOpcode /\ o \in FormatR
            /\ o \notin FormatI /\ o # OPCODE_JMP /\ o # OPCODE_MOVI
            /\ OperandCount(o) = 3 /\ RegisterOperands(o) = 1 .. 2
         \/ /\ o \notin ThreeRegisters /\ o \notin ShiftOpcode /\ o \in FormatI
            /\ o # OPCODE_JMP /\ o = OPCODE_MOVI
            /\ OperandCount(o) = 2 /\ RegisterOperands(o) = 1 .. 1
         \/ /\ o \notin ThreeRegisters /\ o \notin ShiftOpcode /\ o \in FormatI
            /\ o # OPCODE_JMP /\ o # OPCODE_MOVI
            /\ OperandCount(o) = 3 /\ RegisterOperands(o) = 1 .. 2
         \/ /\ o \notin ThreeRegisters /\ o \notin ShiftOpcode /\ o \notin FormatI
            /\ o = OPCODE_JMP /\ o # OPCODE_MOVI
            /\ OperandCount(o) = 1 /\ RegisterOperands(o) = 1 .. 0
  BY DEF ThreeRegisters, ShiftOpcode, FormatR, FormatI, FormatJ, OperandCount,
         RegisterOperands, OPCODE_ADD, OPCODE_SUB, OPCODE_MUL, OPCODE_MOVI, OPCODE_JEQ,
         OPCODE_AND, OPCODE_ORI, OPCODE_JMP, OPCODE_LSL, OPCODE_LSR, OPCODE_MOVR, OPCODE_MOVM

\* The fields that hold registers have the values of their tokens.
LEMMA RegistersAsWritten ==
  ASSUME NEW tokens, opcode_from_string(tokens[1]) >= 0,
         NEW i \in 1 .. Len(Syntax[tokens[1].kind].fields),
         Syntax[tokens[1].kind].fields[i] \in {"r1", "r2", "r3"}
  PROVE  Accepted(tokens)[Syntax[tokens[1].kind].fields[i]] = tokens[i + 1].value
<1> DEFINE o == opcode_from_string(tokens[1])
           f == Syntax[tokens[1].kind].fields
<1>1. f = OperandFields(o) /\ o \in FormatR \cup FormatI \cup FormatJ
  BY AcceptedMnemonic
<1>2. /\ Accepted(tokens).r1 = IF o = OPCODE_JMP THEN 0 ELSE tokens[1 + 1].value
      /\ Accepted(tokens).r2 =
           IF o \in {OPCODE_JMP, OPCODE_MOVI} THEN 0 ELSE tokens[2 + 1].value
      /\ Accepted(tokens).r3 = IF o \in ThreeRegisters THEN tokens[3 + 1].value ELSE 0
  BY DEF Accepted
<1>3. i \in 1 .. Len(f) /\ f[i] \in {"r1", "r2", "r3"}
  OBVIOUS
<1> HIDE DEF o, f
<1>4. \/ f[i] = "r1" /\ i = 1 /\ o # OPCODE_JMP
      \/ f[i] = "r2" /\ i = 2 /\ o \notin {OPCODE_JMP, OPCODE_MOVI}
      \/ f[i] = "r3" /\ i = 3 /\ o \in ThreeRegisters
  BY <1>1, <1>3, OpcodeClasses DEF OperandFields
<1>5. Accepted(tokens)[f[i]] = tokens[i + 1].value
  BY <1>2, <1>4
<1> QED
  BY <1>5 DEF f

\* Only StoreLine stores.
LEMMA OnlyStoreLine ==
  ASSUME Next, Stores PROVE StoreLine
  BY DEF Next, Step, Returned, Open, OpenFails, SkipLine, RejectLine, StoreLine, EndOfFile,
         Close, Stores, parserVars

\* However large the numbers of a file, an instruction is stored with the opcode and the
\* registers that are written.
THEOREM FieldsStayApart == Spec => FieldsIsolated
<1> DEFINE Isolated ==
      Stores =>
        LET fields == Syntax[Tokens[1].kind].fields
        IN  /\ Stored'[instruction_address'].opcode = opcode_from_string(Tokens[1])
            /\ \A i \in 1 .. Len(fields) :
                 fields[i] \in {"r1", "r2", "r3"} =>
                   Stored'[instruction_address'][fields[i]] = Tokens[i + 1].value
<1>1. ParserInvariant /\ [Next]_parserVars => [Isolated]_parserVars
  <2> SUFFICES ASSUME ParserInvariant, Next, Stores PROVE Isolated
    BY DEF Isolated
  <2>1. StoreLine
    BY OnlyStoreLine
  <2>2. Stored'[instruction_address'] = Accepted(Tokens)
    BY <2>1, StoredGrows DEF ParserInvariant
  <2>3. opcode_from_string(Tokens[1]) >= 0
    BY <2>1 DEF StoreLine, accepted
  <2>4. Accepted(Tokens).opcode = opcode_from_string(Tokens[1])
    BY DEF Accepted
  <2>5. \A i \in 1 .. Len(Syntax[Tokens[1].kind].fields) :
          Syntax[Tokens[1].kind].fields[i] \in {"r1", "r2", "r3"} =>
            Accepted(Tokens)[Syntax[Tokens[1].kind].fields[i]] = Tokens[i + 1].value
    BY <2>3, RegistersAsWritten
  <2> QED
    BY <2>2, <2>4, <2>5 DEF Isolated
<1>2. [][Isolated]_parserVars <=> FieldsIsolated
  BY PTL DEF FieldsIsolated
<1> HIDE DEF Isolated
<1> QED
  BY <1>1, <1>2, ParserInvariance, PTL DEF Spec

-----------------------------------------------------------------------------
(* The assembler.                                                          *)

\* The assembler speaks of the same texts.
LEMMA SameText ==
  ASSUME NEW text
  PROVE  /\ Assembly!IsInstruction(text) = IsInstruction(text)
         /\ Assembly!Instruction(text) = Instruction(text)
<1>1. Assembly!Syntax = Syntax
  BY DEF Assembly!Syntax, Syntax, Assembly!Form, Form, Assembly!Arithmetic, Arithmetic,
         Assembly!Shifting, Shifting, Assembly!Immediate, Immediate,
         Assembly!OPCODE_ADD, Assembly!OPCODE_SUB, Assembly!OPCODE_MUL, Assembly!OPCODE_AND,
         Assembly!OPCODE_LSL, Assembly!OPCODE_LSR, Assembly!OPCODE_MOVI, Assembly!OPCODE_ORI,
         Assembly!OPCODE_JEQ, Assembly!OPCODE_MOVR, Assembly!OPCODE_MOVM, Assembly!OPCODE_JMP,
         OPCODE_ADD, OPCODE_SUB, OPCODE_MUL, OPCODE_AND, OPCODE_LSL, OPCODE_LSR, OPCODE_MOVI,
         OPCODE_ORI, OPCODE_JEQ, OPCODE_MOVR, OPCODE_MOVM, OPCODE_JMP
<1>2. Assembly!Written(text) = Written(text)
  BY DEF Assembly!Written, Written
<1>3. Assembly!IsInstruction(text) = IsInstruction(text)
  BY <1>1, <1>2
     DEF Assembly!IsInstruction, IsInstruction, Assembly!Admits, Admits, Assembly!Register,
         Register, Assembly!sign_extend, sign_extend, Assembly!IMM_SPACE
<1>4. Assembly!Instruction(text) = Instruction(text)
  BY <1>1, <1>2 DEF Assembly!Instruction, Instruction
<1> QED
  BY <1>3, <1>4

\* A number in scope is parsed as it is written.
LEMMA OperandAgrees ==
  ASSUME NEW token, token.value \in -HALF_WORD .. ADDR_SPACE - 1
  PROVE  /\ token.value \in Int
         /\ parses_as_register(token) <=> token.kind = "register" /\ token.value \in Register
         /\ parses_as_immediate(token) <=> token.kind = "number"
         /\ immediate_of(token) = token.value
<1> DEFINE v == token.value
<1>1. /\ HALF_WORD \in Nat \ {0} /\ ADDR_SPACE \in Nat \ {0} /\ HALF_WORD = 8 * ADDR_SPACE
      /\ LONG_MAX \in Nat /\ HALF_WORD - 1 <= LONG_MAX
  BY UnitsPositive, ParserAssumption DEF ADDR_SPACE, HALF_WORD
<1>2. v \in Int /\ -HALF_WORD <= v /\ v <= HALF_WORD - 1
  BY <1>1
<1>3. v \in Long
  BY <1>1, <1>2 DEF Long
<1>4. strtol(v) = v
  BY <1>3, StrtolFacts
<1>5. ToInt32(v) = v
  <2>1. ASSUME NEW h \in Nat \ {0}, NEW x \in -h .. h - 1
        PROVE  ((x + h) % (2 * h)) - h = x
    OBVIOUS
  <2> HIDE DEF v
  <2> QED
    BY <1>1, <1>2, <2>1 DEF ToInt32, WORD_SPACE
<1> QED
  BY <1>2, <1>3, <1>4, <1>5 DEF parses_as_register, parses_as_immediate, immediate_of

\* A field of an accepted instruction is checked as the assembler checks it.
LEMMA AdmitsAgrees ==
  ASSUME NEW token, token.value \in -HALF_WORD .. ADDR_SPACE - 1
  PROVE  /\ \A name \in {"r1", "r2", "r3"} : parses_as_register(token) <=> Admits(name, token)
         /\ parses_as_immediate(token) /\ validate_shift_amount(immediate_of(token))
              <=> Admits("shamt", token)
         /\ parses_as_immediate(token) /\ validate_i_type_immediate(immediate_of(token))
              <=> Admits("immediate", token)
         /\ parses_as_immediate(token) /\ immediate_of(token) >= 0
              <=> Admits("address", token)
<1> DEFINE v == token.value
<1>1. /\ v \in Int
      /\ parses_as_register(token) <=> token.kind = "register" /\ v \in Register
      /\ parses_as_immediate(token) <=> token.kind = "number"
      /\ immediate_of(token) = v
  BY OperandAgrees
<1>2. v \in -HALF_WORD .. ADDR_SPACE - 1 /\ WORD_BITS \in Nat
      /\ ADDR_SPACE \in Nat /\ HALF_WORD \in Nat
  BY WordAssumption, UnitsPositive DEF ADDR_SPACE
<1>3. \A name \in {"r1", "r2", "r3"} :
        Admits(name, token) <=> token.kind = "register" /\ v \in Register
  BY DEF Admits
<1>4. Admits("shamt", token) <=> token.kind = "number" /\ v \in 0 .. WORD_BITS - 1
  BY DEF Admits
<1>5. Admits("immediate", token) <=>
        token.kind = "number" /\ sign_extend(v, IMM_SPACE) = v
  BY DEF Admits
<1>6. Admits("address", token) <=> token.kind = "number" /\ v \in 0 .. ADDR_SPACE - 1
  BY DEF Admits
<1> HIDE DEF v
<1>7. validate_shift_amount(v) <=> v \in 0 .. WORD_BITS - 1
  BY <1>1, <1>2 DEF validate_shift_amount, SHIFT_AMOUNT_MAX
<1>8. validate_i_type_immediate(v) <=> sign_extend(v, IMM_SPACE) = v
  BY <1>1, SignedField
<1>9. v >= 0 <=> v \in 0 .. ADDR_SPACE - 1
  BY <1>1, <1>2
<1> QED
  BY <1>1, <1>3, <1>4, <1>5, <1>6, <1>7, <1>8, <1>9

\* The lists of operands, field by field.
LEMMA OperandFieldsOf ==
  ASSUME NEW o
  PROVE  /\ o \in ThreeRegisters => OperandFields(o) = <<"r1", "r2", "r3">>
         /\ o \notin ThreeRegisters /\ o \in ShiftOpcode =>
              OperandFields(o) = <<"r1", "r2", "shamt">>
         /\ o \notin ThreeRegisters /\ o \notin ShiftOpcode /\ o = OPCODE_MOVI =>
              OperandFields(o) = <<"r1", "immediate">>
         /\ o \notin ThreeRegisters /\ o \notin ShiftOpcode /\ o # OPCODE_MOVI
              /\ o = OPCODE_JMP => OperandFields(o) = <<"address">>
         /\ o \notin ThreeRegisters /\ o \notin ShiftOpcode /\ o # OPCODE_MOVI
              /\ o # OPCODE_JMP => OperandFields(o) = <<"r1", "r2", "immediate">>
  BY DEF OperandFields, ThreeRegisters, ShiftOpcode, OPCODE_ADD, OPCODE_SUB, OPCODE_MUL,
         OPCODE_AND, OPCODE_LSL, OPCODE_LSR, OPCODE_MOVI, OPCODE_JMP

\* The value that the tokens of a line give a field.
ValueOf(name, fields, tokens) ==
  LET named == {i \in 1 .. Len(fields) : fields[i] = name}
  IN  IF named = {} THEN 0 ELSE tokens[1 + CHOOSE i \in named : TRUE].value

\* The value of a field that is written once is that of its token.
LEMMA ValueFound ==
  ASSUME NEW name, NEW fields, NEW tokens, NEW i \in 1 .. Len(fields),
         \A j \in 1 .. Len(fields) : fields[j] = name <=> j = i
  PROVE  ValueOf(name, fields, tokens) = tokens[1 + i].value
<1> DEFINE named == {j \in 1 .. Len(fields) : fields[j] = name}
<1>1. named = {i}
  OBVIOUS
<1>2. (CHOOSE j \in named : TRUE) = i
  BY <1>1
<1>3. ValueOf(name, fields, tokens) = IF named = {} THEN 0 ELSE tokens[1 + CHOOSE j \in named : TRUE].value
  BY DEF ValueOf
<1> HIDE DEF named
<1> QED
  BY <1>1, <1>2, <1>3

\* The value of a field that is not written is zero.
LEMMA ValueMissing ==
  ASSUME NEW name, NEW fields, NEW tokens, \A j \in 1 .. Len(fields) : fields[j] # name
  PROVE  ValueOf(name, fields, tokens) = 0
<1>1. {j \in 1 .. Len(fields) : fields[j] = name} = {}
  OBVIOUS
<1> QED
  BY <1>1 DEF ValueOf

\* The values in the three kinds of operand lists.
LEMMA ThreeValues ==
  ASSUME NEW a, NEW b, NEW c, NEW tokens, a # b, a # c, b # c
  PROVE  /\ ValueOf(a, <<a, b, c>>, tokens) = tokens[1 + 1].value
         /\ ValueOf(b, <<a, b, c>>, tokens) = tokens[1 + 2].value
         /\ ValueOf(c, <<a, b, c>>, tokens) = tokens[1 + 3].value
<1> DEFINE f == <<a, b, c>>
<1>1. 1 .. Len(f) = 1 .. 3 /\ f[1] = a /\ f[2] = b /\ f[3] = c
  OBVIOUS
<1> HIDE DEF f
<1>2. /\ 1 \in 1 .. Len(f) /\ \A j \in 1 .. Len(f) : f[j] = a <=> j = 1
      /\ 2 \in 1 .. Len(f) /\ \A j \in 1 .. Len(f) : f[j] = b <=> j = 2
      /\ 3 \in 1 .. Len(f) /\ \A j \in 1 .. Len(f) : f[j] = c <=> j = 3
  BY <1>1
<1>4. ValueOf(a, f, tokens) = tokens[1 + 1].value
  BY <1>2, ValueFound
<1>5. ValueOf(b, f, tokens) = tokens[1 + 2].value
  BY <1>2, ValueFound
<1>6. ValueOf(c, f, tokens) = tokens[1 + 3].value
  BY <1>2, ValueFound
<1> QED
  BY <1>4, <1>5, <1>6 DEF f

\* Any other field is zero.
LEMMA ThreeMissing ==
  ASSUME NEW a, NEW b, NEW c, NEW tokens, NEW name,
         name # a, name # b, name # c
  PROVE  ValueOf(name, <<a, b, c>>, tokens) = 0
<1> DEFINE f == <<a, b, c>>
<1>1. 1 .. Len(f) = 1 .. 3 /\ f[1] = a /\ f[2] = b /\ f[3] = c
  OBVIOUS
<1> HIDE DEF f
<1>2. \A j \in 1 .. Len(f) : f[j] # name
  BY <1>1
<1>3. ValueOf(name, f, tokens) = 0
  BY <1>2, ValueMissing
<1> QED
  BY <1>3 DEF f

\* The same for two fields.
LEMMA TwoValues ==
  ASSUME NEW a, NEW b, NEW tokens, a # b
  PROVE  /\ ValueOf(a, <<a, b>>, tokens) = tokens[1 + 1].value
         /\ ValueOf(b, <<a, b>>, tokens) = tokens[1 + 2].value
<1> DEFINE f == <<a, b>>
<1>1. 1 .. Len(f) = 1 .. 2 /\ f[1] = a /\ f[2] = b
  OBVIOUS
<1> HIDE DEF f
<1>2. /\ 1 \in 1 .. Len(f) /\ \A j \in 1 .. Len(f) : f[j] = a <=> j = 1
      /\ 2 \in 1 .. Len(f) /\ \A j \in 1 .. Len(f) : f[j] = b <=> j = 2
  BY <1>1
<1>4. ValueOf(a, f, tokens) = tokens[1 + 1].value
  BY <1>2, ValueFound
<1>5. ValueOf(b, f, tokens) = tokens[1 + 2].value
  BY <1>2, ValueFound
<1> QED
  BY <1>4, <1>5 DEF f

\* Any other field is zero.
LEMMA TwoMissing ==
  ASSUME NEW a, NEW b, NEW tokens, NEW name,
         name # a, name # b
  PROVE  ValueOf(name, <<a, b>>, tokens) = 0
<1> DEFINE f == <<a, b>>
<1>1. 1 .. Len(f) = 1 .. 2 /\ f[1] = a /\ f[2] = b
  OBVIOUS
<1> HIDE DEF f
<1>2. \A j \in 1 .. Len(f) : f[j] # name
  BY <1>1
<1>3. ValueOf(name, f, tokens) = 0
  BY <1>2, ValueMissing
<1> QED
  BY <1>3 DEF f

\* The same for one field.
LEMMA OneValue ==
  ASSUME NEW a, NEW tokens
  PROVE  ValueOf(a, <<a>>, tokens) = tokens[1 + 1].value
<1> DEFINE f == <<a>>
<1>1. 1 .. Len(f) = 1 .. 1 /\ f[1] = a
  OBVIOUS
<1> HIDE DEF f
<1>2. 1 \in 1 .. Len(f) /\ \A j \in 1 .. Len(f) : f[j] = a <=> j = 1
  BY <1>1
<1>4. ValueOf(a, f, tokens) = tokens[1 + 1].value
  BY <1>2, ValueFound
<1> QED
  BY <1>4 DEF f

\* Any other field is zero.
LEMMA OneMissing ==
  ASSUME NEW a, NEW tokens, NEW name,
         name # a
  PROVE  ValueOf(name, <<a>>, tokens) = 0
<1> DEFINE f == <<a>>
<1>1. 1 .. Len(f) = 1 .. 1 /\ f[1] = a
  OBVIOUS
<1> HIDE DEF f
<1>2. \A j \in 1 .. Len(f) : f[j] # name
  BY <1>1
<1>3. ValueOf(name, f, tokens) = 0
  BY <1>2, ValueMissing
<1> QED
  BY <1>3 DEF f

\* What the parser makes of an accepted line in scope is what the line says.
LEMMA AcceptedMeaning ==
  ASSUME NEW text, accepted(Written(text)),
         \A j \in 1 .. Len(Written(text)) :
           Written(text)[j].value \in -HALF_WORD .. ADDR_SPACE - 1
  PROVE  Accepted(Written(text)) = Instruction(text)
<1> DEFINE tokens == Written(text)
           o      == opcode_from_string(tokens[1])
           f      == OperandFields(o)
           count  == OperandCount(o)
           v      == immediate_of(tokens[count + 1])
           val(i) == tokens[1 + i].value
<1>1. o >= 0 /\ Len(tokens) = count + 1
  BY DEF accepted
<1>2. /\ Syntax[tokens[1].kind].opcode = o /\ Syntax[tokens[1].kind].fields = f
      /\ o \in FormatR \cup FormatI \cup FormatJ
  BY <1>1, AcceptedMnemonic
<1>3. Instruction(text) =
        [valid |-> TRUE, opcode |-> o,
         r1 |-> ValueOf("r1", f, tokens), r2 |-> ValueOf("r2", f, tokens),
         r3 |-> ValueOf("r3", f, tokens), shamt |-> ValueOf("shamt", f, tokens),
         immediate |-> ValueOf("immediate", f, tokens),
         address |-> ValueOf("address", f, tokens)]
  BY <1>2 DEF Instruction, ValueOf
<1>4. Accepted(tokens) =
        [valid     |-> TRUE,
         opcode    |-> o,
         r1        |-> IF o = OPCODE_JMP THEN 0 ELSE val(1),
         r2        |-> IF o \in {OPCODE_JMP, OPCODE_MOVI} THEN 0 ELSE val(2),
         r3        |-> IF o \in ThreeRegisters THEN val(3) ELSE 0,
         shamt     |-> IF o \in ShiftOpcode THEN v ELSE 0,
         immediate |-> IF o \in FormatI THEN v ELSE 0,
         address   |-> IF o = OPCODE_JMP THEN v % ADDR_SPACE ELSE 0]
  BY DEF Accepted
<1>5. count \in 1 .. 3
  BY <1>2, OpcodeClasses
<1>6. v = val(count) /\ val(count) \in -HALF_WORD .. ADDR_SPACE - 1
  <2>1. count + 1 \in 1 .. Len(tokens)
    BY <1>1, <1>5
  <2>2. tokens[count + 1].value \in -HALF_WORD .. ADDR_SPACE - 1
    BY <2>1
  <2>3. immediate_of(tokens[count + 1]) = tokens[count + 1].value
    BY <2>2, OperandAgrees
  <2> HIDE DEF count, tokens
  <2>4. 1 + count = count + 1
    BY <1>5
  <2> QED
    BY <2>2, <2>3, <2>4
<1>7. o = OPCODE_JMP => v % ADDR_SPACE = v
  <2>1. ASSUME o = OPCODE_JMP PROVE v >= 0
    <3>1. o \notin ThreeRegisters /\ o \notin ShiftOpcode
      BY <2>1, <1>2, OpcodeClasses
    <3> QED
      BY <2>1, <3>1 DEF accepted, immediate_in_range
  <2>2. ASSUME v >= 0 PROVE v \in 0 .. ADDR_SPACE - 1
    <3> HIDE DEF v
    <3> QED
      BY <1>6, <2>2, UnitsPositive DEF ADDR_SPACE
  <2>3. ASSUME NEW n \in Nat \ {0}, NEW x \in 0 .. n - 1 PROVE x % n = x
    OBVIOUS
  <2>4. ADDR_SPACE \in Nat \ {0}
    BY UnitsPositive DEF ADDR_SPACE
  <2> HIDE DEF v, o
  <2> QED
    BY <2>1, <2>2, <2>3, <2>4
<1>8. /\ ValueOf("r1", f, tokens) = IF o = OPCODE_JMP THEN 0 ELSE val(1)
      /\ ValueOf("r2", f, tokens) = IF o \in {OPCODE_JMP, OPCODE_MOVI} THEN 0 ELSE val(2)
      /\ ValueOf("r3", f, tokens) = IF o \in ThreeRegisters THEN val(3) ELSE 0
      /\ ValueOf("shamt", f, tokens) = IF o \in ShiftOpcode THEN val(count) ELSE 0
      /\ ValueOf("immediate", f, tokens) = IF o \in FormatI THEN val(count) ELSE 0
      /\ ValueOf("address", f, tokens) = IF o = OPCODE_JMP THEN val(count) ELSE 0
  <2>1. \/ /\ f = <<"r1", "r2", "r3">> /\ count = 3
           /\ o \in ThreeRegisters /\ o \notin ShiftOpcode /\ o \notin FormatI
           /\ o # OPCODE_JMP /\ o # OPCODE_MOVI
        \/ /\ f = <<"r1", "r2", "shamt">> /\ count = 3
           /\ o \notin ThreeRegisters /\ o \in ShiftOpcode /\ o \notin FormatI
           /\ o # OPCODE_JMP /\ o # OPCODE_MOVI
        \/ /\ f = <<"r1", "immediate">> /\ count = 2
           /\ o \notin ThreeRegisters /\ o \notin ShiftOpcode /\ o \in FormatI
           /\ o # OPCODE_JMP /\ o = OPCODE_MOVI
        \/ /\ f = <<"r1", "r2", "immediate">> /\ count = 3
           /\ o \notin ThreeRegisters /\ o \notin ShiftOpcode /\ o \in FormatI
           /\ o # OPCODE_JMP /\ o # OPCODE_MOVI
        \/ /\ f = <<"address">> /\ count = 1
           /\ o \notin ThreeRegisters /\ o \notin ShiftOpcode /\ o \notin FormatI
           /\ o = OPCODE_JMP /\ o # OPCODE_MOVI
    BY <1>2, OpcodeClasses, OperandFieldsOf
  <2> HIDE DEF tokens, o, f, count
  <2>2. CASE f = <<"r1", "r2", "r3">>
    <3>1. /\ ValueOf("r1", <<"r1", "r2", "r3">>, tokens) = val(1)
          /\ ValueOf("r2", <<"r1", "r2", "r3">>, tokens) = val(2)
          /\ ValueOf("r3", <<"r1", "r2", "r3">>, tokens) = val(3)
      BY ThreeValues
    <3>2. /\ ValueOf("shamt", <<"r1", "r2", "r3">>, tokens) = 0
          /\ ValueOf("immediate", <<"r1", "r2", "r3">>, tokens) = 0
          /\ ValueOf("address", <<"r1", "r2", "r3">>, tokens) = 0
      BY ThreeMissing
    <3>3. f # <<"r1", "r2", "shamt">> /\ f # <<"r1", "immediate">>
          /\ f # <<"r1", "r2", "immediate">> /\ f # <<"address">>
      BY <2>2
    <3> QED
      BY <2>1, <2>2, <3>1, <3>2, <3>3
  <2>3. CASE f = <<"r1", "r2", "shamt">>
    <3>1. /\ ValueOf("r1", <<"r1", "r2", "shamt">>, tokens) = val(1)
          /\ ValueOf("r2", <<"r1", "r2", "shamt">>, tokens) = val(2)
          /\ ValueOf("shamt", <<"r1", "r2", "shamt">>, tokens) = val(3)
      BY ThreeValues
    <3>2. /\ ValueOf("r3", <<"r1", "r2", "shamt">>, tokens) = 0
          /\ ValueOf("immediate", <<"r1", "r2", "shamt">>, tokens) = 0
          /\ ValueOf("address", <<"r1", "r2", "shamt">>, tokens) = 0
      BY ThreeMissing
    <3>3. f # <<"r1", "r2", "r3">> /\ f # <<"r1", "immediate">>
          /\ f # <<"r1", "r2", "immediate">> /\ f # <<"address">>
      BY <2>3
    <3> QED
      BY <2>1, <2>3, <3>1, <3>2, <3>3
  <2>4. CASE f = <<"r1", "immediate">>
    <3>1. /\ ValueOf("r1", <<"r1", "immediate">>, tokens) = val(1)
          /\ ValueOf("immediate", <<"r1", "immediate">>, tokens) = val(2)
      BY TwoValues
    <3>2. /\ ValueOf("r2", <<"r1", "immediate">>, tokens) = 0
          /\ ValueOf("r3", <<"r1", "immediate">>, tokens) = 0
          /\ ValueOf("shamt", <<"r1", "immediate">>, tokens) = 0
          /\ ValueOf("address", <<"r1", "immediate">>, tokens) = 0
      BY TwoMissing
    <3>3. f # <<"r1", "r2", "r3">> /\ f # <<"r1", "r2", "shamt">>
          /\ f # <<"r1", "r2", "immediate">> /\ f # <<"address">>
      BY <2>4
    <3> QED
      BY <2>1, <2>4, <3>1, <3>2, <3>3
  <2>5. CASE f = <<"r1", "r2", "immediate">>
    <3>1. /\ ValueOf("r1", <<"r1", "r2", "immediate">>, tokens) = val(1)
          /\ ValueOf("r2", <<"r1", "r2", "immediate">>, tokens) = val(2)
          /\ ValueOf("immediate", <<"r1", "r2", "immediate">>, tokens) = val(3)
      BY ThreeValues
    <3>2. /\ ValueOf("r3", <<"r1", "r2", "immediate">>, tokens) = 0
          /\ ValueOf("shamt", <<"r1", "r2", "immediate">>, tokens) = 0
          /\ ValueOf("address", <<"r1", "r2", "immediate">>, tokens) = 0
      BY ThreeMissing
    <3>3. f # <<"r1", "r2", "r3">> /\ f # <<"r1", "r2", "shamt">>
          /\ f # <<"r1", "immediate">> /\ f # <<"address">>
      BY <2>5
    <3> QED
      BY <2>1, <2>5, <3>1, <3>2, <3>3
  <2>6. CASE f = <<"address">>
    <3>1. /\ ValueOf("address", <<"address">>, tokens) = val(1)
      BY OneValue
    <3>2. /\ ValueOf("r1", <<"address">>, tokens) = 0
          /\ ValueOf("r2", <<"address">>, tokens) = 0
          /\ ValueOf("r3", <<"address">>, tokens) = 0
          /\ ValueOf("shamt", <<"address">>, tokens) = 0
          /\ ValueOf("immediate", <<"address">>, tokens) = 0
      BY OneMissing
    <3>3. f # <<"r1", "r2", "r3">> /\ f # <<"r1", "r2", "shamt">>
          /\ f # <<"r1", "immediate">> /\ f # <<"r1", "r2", "immediate">>
      BY <2>6
    <3> QED
      BY <2>1, <2>6, <3>1, <3>2, <3>3
  <2> QED
    BY <2>1, <2>2, <2>3, <2>4, <2>5, <2>6
<1> HIDE DEF tokens, o, f, count, v
<1>9. Accepted(tokens) = Instruction(text)
  BY <1>3, <1>4, <1>6, <1>7, <1>8
<1> QED
  BY <1>9 DEF tokens

\* The parser accepts, of the lines in scope, what the assembler takes for an instruction.
LEMMA AcceptsInstructions ==
  ASSUME NEW text,
         \A j \in 1 .. Len(Written(text)) :
           Written(text)[j].value \in -HALF_WORD .. ADDR_SPACE - 1
  PROVE  IsInstruction(text) <=>
           /\ Written(text) # <<>>
           /\ text[1].kind # "comment"
           /\ accepted(Written(text))
<1> DEFINE tokens == Written(text)
           o      == opcode_from_string(tokens[1])
           f      == OperandFields(o)
           count  == OperandCount(o)
           arg(i) == tokens[i + 1]
           v      == immediate_of(arg(count))
<1>1. IsInstruction(text) <=>
        /\ tokens # <<>>
        /\ text[1].kind # "comment"
        /\ tokens[1].kind \in DOMAIN Syntax
        /\ Len(tokens) = Len(Syntax[tokens[1].kind].fields) + 1
        /\ \A i \in 1 .. Len(Syntax[tokens[1].kind].fields) :
             Admits(Syntax[tokens[1].kind].fields[i], arg(i))
  BY DEF IsInstruction
<1>2. tokens[1].kind \in DOMAIN Syntax <=> o >= 0
  <2>1. tokens[1].kind \in DOMAIN Mnemonic => o \in FormatR \cup FormatI \cup FormatJ
    BY MnemonicsAgree DEF opcode_from_string
  <2>2. \A c \in FormatR \cup FormatI \cup FormatJ : c >= 0
    BY DEF FormatR, FormatI, FormatJ, OPCODE_ADD, OPCODE_SUB, OPCODE_MUL, OPCODE_MOVI,
           OPCODE_JEQ, OPCODE_AND, OPCODE_ORI, OPCODE_JMP, OPCODE_LSL, OPCODE_LSR,
           OPCODE_MOVR, OPCODE_MOVM
  <2>3. tokens[1].kind \notin DOMAIN Mnemonic => o = -1
    BY DEF opcode_from_string
  <2> HIDE DEF o, tokens
  <2> QED
    BY <2>1, <2>2, <2>3, MnemonicsAgree
<1>3. o >= 0 =>
        /\ Syntax[tokens[1].kind].fields = f
        /\ o \in FormatR \cup FormatI \cup FormatJ
  BY AcceptedMnemonic
<1>4. accepted(tokens) <=>
        /\ o >= 0
        /\ Len(tokens) = count + 1
        /\ \A i \in RegisterOperands(o) : parses_as_register(arg(i))
        /\ o \notin ThreeRegisters =>
             parses_as_immediate(arg(count)) /\ immediate_in_range(o, v)
  BY DEF accepted
<1>5. ASSUME o >= 0
      PROVE  /\ Len(f) = count
             /\ Len(tokens) = count + 1 =>
                  ((\A i \in 1 .. count : Admits(f[i], arg(i))) <=>
                     /\ \A i \in RegisterOperands(o) : parses_as_register(arg(i))
                     /\ o \notin ThreeRegisters =>
                          parses_as_immediate(arg(count)) /\ immediate_in_range(o, v))
  <2>1. \/ /\ f = <<"r1", "r2", "r3">> /\ count = 3 /\ RegisterOperands(o) = 1 .. 3
           /\ o \in ThreeRegisters /\ o \notin ShiftOpcode /\ o # OPCODE_JMP
        \/ /\ f = <<"r1", "r2", "shamt">> /\ count = 3 /\ RegisterOperands(o) = 1 .. 2
           /\ o \notin ThreeRegisters /\ o \in ShiftOpcode /\ o # OPCODE_JMP
        \/ /\ f = <<"r1", "immediate">> /\ count = 2 /\ RegisterOperands(o) = 1 .. 1
           /\ o \notin ThreeRegisters /\ o \notin ShiftOpcode /\ o # OPCODE_JMP
        \/ /\ f = <<"r1", "r2", "immediate">> /\ count = 3 /\ RegisterOperands(o) = 1 .. 2
           /\ o \notin ThreeRegisters /\ o \notin ShiftOpcode /\ o # OPCODE_JMP
        \/ /\ f = <<"address">> /\ count = 1 /\ RegisterOperands(o) = 1 .. 0
           /\ o \notin ThreeRegisters /\ o \notin ShiftOpcode /\ o = OPCODE_JMP
    BY <1>3, <1>5, OpcodeClasses, OperandFieldsOf
  <2>2. immediate_in_range(o, v) <=>
          IF o \in ShiftOpcode THEN validate_shift_amount(v)
          ELSE IF o = OPCODE_JMP THEN v >= 0 ELSE validate_i_type_immediate(v)
    BY DEF immediate_in_range, ShiftOpcode, OPCODE_LSL, OPCODE_LSR, OPCODE_JMP
  <2>3. ASSUME Len(tokens) = count + 1, NEW i \in 1 .. count
        PROVE  /\ \A name \in {"r1", "r2", "r3"} :
                    parses_as_register(arg(i)) <=> Admits(name, arg(i))
               /\ parses_as_immediate(arg(i)) /\ validate_shift_amount(immediate_of(arg(i)))
                    <=> Admits("shamt", arg(i))
               /\ parses_as_immediate(arg(i)) /\ validate_i_type_immediate(immediate_of(arg(i)))
                    <=> Admits("immediate", arg(i))
               /\ parses_as_immediate(arg(i)) /\ immediate_of(arg(i)) >= 0
                    <=> Admits("address", arg(i))
    <3>1. i + 1 \in 1 .. Len(tokens)
      <4> HIDE DEF tokens, o, f
      <4> QED
        BY <2>1, <2>3
    <3>2. arg(i).value \in -HALF_WORD .. ADDR_SPACE - 1
      BY <3>1
    <3> HIDE DEF arg
    <3> QED
      BY <3>2, AdmitsAgrees
  <2> HIDE DEF arg, tokens, o, f, count
  <2>4. CASE f = <<"r1", "r2", "r3">> /\ count = 3
    <3>1. Len(f) = 3 /\ f[1] = "r1" /\ f[2] = "r2" /\ f[3] = "r3"
      BY <2>4
    <3>2. RegisterOperands(o) = 1 .. 3 /\ o \in ThreeRegisters
      BY <2>1, <3>1
    <3> QED
      BY <2>3, <2>4, <3>1, <3>2
  <2>5. CASE f = <<"r1", "r2", "shamt">> /\ count = 3
    <3>1. Len(f) = 3 /\ f[1] = "r1" /\ f[2] = "r2" /\ f[3] = "shamt"
      BY <2>5
    <3>2. RegisterOperands(o) = 1 .. 2 /\ o \notin ThreeRegisters /\ o \in ShiftOpcode
      BY <2>1, <3>1
    <3> QED
      BY <2>2, <2>3, <2>5, <3>1, <3>2
  <2>6. CASE f = <<"r1", "immediate">> /\ count = 2
    <3>1. Len(f) = 2 /\ f[1] = "r1" /\ f[2] = "immediate"
      BY <2>6
    <3>2. RegisterOperands(o) = 1 .. 1 /\ o \notin ThreeRegisters /\ o \notin ShiftOpcode
          /\ o # OPCODE_JMP
      BY <2>1, <2>6, <3>1
    <3> QED
      BY <2>2, <2>3, <2>6, <3>1, <3>2
  <2>7. CASE f = <<"r1", "r2", "immediate">> /\ count = 3
    <3>1. Len(f) = 3 /\ f[1] = "r1" /\ f[2] = "r2" /\ f[3] = "immediate"
      BY <2>7
    <3>2. RegisterOperands(o) = 1 .. 2 /\ o \notin ThreeRegisters /\ o \notin ShiftOpcode
          /\ o # OPCODE_JMP
      BY <2>1, <2>7, <3>1
    <3> QED
      BY <2>2, <2>3, <2>7, <3>1, <3>2
  <2>8. CASE f = <<"address">> /\ count = 1
    <3>1. Len(f) = 1 /\ f[1] = "address"
      BY <2>8
    <3>2. RegisterOperands(o) = 1 .. 0 /\ o \notin ThreeRegisters /\ o \notin ShiftOpcode
          /\ o = OPCODE_JMP
      BY <2>1, <2>8, <3>1
    <3> QED
      BY <2>2, <2>3, <2>8, <3>1, <3>2
  <2> QED
    BY <2>1, <2>4, <2>5, <2>6, <2>7, <2>8
<1> HIDE DEF tokens, o, f, count, arg, v
<1>6. IsInstruction(text) <=> tokens # <<>> /\ text[1].kind # "comment" /\ accepted(tokens)
  BY <1>1, <1>2, <1>3, <1>4, <1>5
<1> QED
  BY <1>6 DEF tokens

\* A line of a file in scope: what the step that reads it sees, and what the assembler
\* thinks of it.
LEMMA LineInScope ==
  ASSUME ParserInvariant, InScope, fgets
  PROVE  /\ line \in 1 .. Len(source) /\ line' = line + 1
         /\ ~ IgnoredLine /\ accepted(Tokens) <=> IsInstruction(source[line])
         /\ accepted(Tokens) => Accepted(Tokens) = Instruction(source[line])
<1>1. TypeOK /\ column = 0
  BY DEF ParserInvariant, Progress
<1>2. line' = line + 1 /\ Buffer = source[line]
  BY <1>1, FgetsStep
<1>3. line \in 1 .. Len(source)
  BY <1>1, SourceType DEF TypeOK, fgets
<1>4. line \in DOMAIN source
  <2>1. source \in Seq(Cells)
    BY <1>1, SourceType DEF TypeOK
  <2> QED
    BY <2>1, <1>3
<1> DEFINE text == source[line]
<1>5. \A j \in 1 .. Len(Written(text)) :
        Written(text)[j].value \in -HALF_WORD .. ADDR_SPACE - 1
  BY <1>4 DEF InScope
<1>6. Tokens = Written(text)
  BY <1>2 DEF Tokens, Written
<1>7. ~ IgnoredLine <=> Written(text) # <<>> /\ text[1].kind # "comment"
  BY <1>2, <1>6 DEF IgnoredLine
<1> HIDE DEF text
<1>8. /\ IsInstruction(text) <=>
           Written(text) # <<>> /\ text[1].kind # "comment" /\ accepted(Written(text))
      /\ accepted(Written(text)) => Accepted(Written(text)) = Instruction(text)
  BY <1>5, AcceptsInstructions, AcceptedMeaning
<1> QED
  BY <1>2, <1>3, <1>6, <1>7, <1>8 DEF text

\* The lines that are left, one after the other.
LEMMA LinesLeft ==
  ASSUME source \in Files, line \in 1 .. Len(source)
  PROVE  /\ SubSeq(source, line, Len(source)) # <<>>
         /\ Head(SubSeq(source, line, Len(source))) = source[line]
         /\ Tail(SubSeq(source, line, Len(source))) = SubSeq(source, line + 1, Len(source))
<1>1. source \in Seq(Cells) /\ Len(source) \in Nat
  BY SourceType
<1>2. Len(source) \in line .. Len(source)
  BY <1>1
<1>3. \A i \in line .. Len(source) : source[i] \in Cells
  BY <1>1
<1>4. Len(SubSeq(source, line, Len(source))) = Len(source) - line + 1
  <2> DEFINE n == Len(source)
  <2>1. line \in Int /\ n \in Int /\ line <= n
    BY <1>1
  <2>2. \A i \in line .. n : source[i] \in Cells
    BY <1>3
  <2> HIDE DEF n
  <2>3. Len(SubSeq(source, line, n)) = IF line <= n THEN n - line + 1 ELSE 0
    BY <2>1, <2>2, SubSeqProperties
  <2> QED
    BY <2>1, <2>3 DEF n
<1>5. SubSeq(source, line, Len(source)) # <<>>
  <2> DEFINE left == SubSeq(source, line, Len(source))
  <2>1. Len(left) # 0
    BY <1>1, <1>4
  <2> HIDE DEF left
  <2>2. left # <<>>
    BY <2>1
  <2> QED
    BY <2>2 DEF left
<1>6. /\ Head(SubSeq(source, line, Len(source))) = source[line]
      /\ Tail(SubSeq(source, line, Len(source))) = SubSeq(source, line + 1, Len(source))
  BY <1>1, <1>2, HeadTailOfSubSeq
<1> QED
  BY <1>5, <1>6

\* The instructions stored are a sequence, which the step that stores one appends to.
LEMMA StoredAppends ==
  ASSUME TypeOK, Progress, StoreLine
  PROVE  Stored' = Append(Stored, Accepted(Tokens)) /\ Len(Stored) = instruction_address
<1> DEFINE n == instruction_address
           x == Accepted(Tokens)
           D == [i \in 1 .. n |-> DecodeFields(memory_fetch_instruction(memory, i - 1))]
<1>1. n \in 0 .. INSTRUCTION_MEMORY_SIZE - 1 /\ instruction_address' = n + 1
  BY StoreStep
<1>2. n \in Nat
  BY <1>1, MemoryAssumption
<1>3. /\ Stored'[n + 1] = x
      /\ \A i \in 1 .. n : Stored'[i] = Stored[i]
  BY <1>1, StoredGrows
<1>4. Stored = D /\ DOMAIN Stored = 1 .. n
  BY DEF Stored
<1>5. Len(Stored) = n
  BY <1>2, <1>4
<1>6. Stored' = [i \in 1 .. n + 1 |-> Stored'[i]]
  BY <1>1 DEF Stored
<1> DEFINE S == {x} \cup {Stored[i] : i \in 1 .. n}
<1>7. Stored \in [1 .. n -> S] /\ Stored' \in [1 .. n + 1 -> S]
  <2> HIDE DEF x, n, D
  <2>1. Stored \in [1 .. n -> S]
    BY <1>4, Zenon DEF Stored, n
  <2>2. \A i \in 1 .. n + 1 : Stored'[i] \in S
    BY <1>2, <1>3
  <2> QED
    BY <1>6, <2>1, <2>2
<1> HIDE DEF S, x, n
<1>8. Stored \in Seq(S) /\ Stored' \in Seq(S) /\ Len(Stored') = n + 1 /\ x \in S
  BY <1>2, <1>7 DEF S
<1>9. /\ Append(Stored, x) \in Seq(S)
      /\ Len(Append(Stored, x)) = n + 1
      /\ \A i \in 1 .. n : Append(Stored, x)[i] = Stored[i]
      /\ Append(Stored, x)[n + 1] = x
  BY <1>5, <1>8, AppendProperties
<1>10. Stored' = Append(Stored, x)
  BY <1>2, <1>3, <1>8, <1>9, SeqEqual
<1> QED
  BY <1>5, <1>10 DEF x, n

\* The variables of the assembler, as the mapping gives them.
AssemblyLines   == IF InScope THEN SubSeq(source, line, Len(source)) ELSE <<>>
AssemblyProgram == IF InScope THEN Stored ELSE <<>>
AssemblyCount   == IF InScope THEN instructionCount ELSE 0

\* Its actions under the mapping.
LEMMA AssemblyActions ==
  /\ Assembly!Assemble <=>
       /\ AssemblyLines # <<>>
       /\ Len(AssemblyProgram) < INSTRUCTION_MEMORY_SIZE
       /\ AssemblyLines' = Tail(AssemblyLines)
       /\ AssemblyProgram' =
            IF IsInstruction(Head(AssemblyLines))
              THEN Append(AssemblyProgram, Instruction(Head(AssemblyLines)))
              ELSE AssemblyProgram
       /\ AssemblyCount' = AssemblyCount
  /\ Assembly!Announce <=>
       /\ AssemblyLines = <<>> \/ ~ (Len(AssemblyProgram) < INSTRUCTION_MEMORY_SIZE)
       /\ AssemblyCount' = Len(AssemblyProgram)
       /\ UNCHANGED <<AssemblyLines, AssemblyProgram>>
<1>1. Assembly!Assemble <=>
       /\ AssemblyLines # <<>>
       /\ Len(AssemblyProgram) < INSTRUCTION_MEMORY_SIZE
       /\ AssemblyLines' = Tail(AssemblyLines)
       /\ AssemblyProgram' =
            IF IsInstruction(Head(AssemblyLines))
              THEN Append(AssemblyProgram, Instruction(Head(AssemblyLines)))
              ELSE AssemblyProgram
       /\ AssemblyCount' = AssemblyCount
  BY SameText
     DEF Assembly!Assemble, Assembly!HasRoom, AssemblyLines, AssemblyProgram, AssemblyCount
<1>2. Assembly!Announce <=>
       /\ AssemblyLines = <<>> \/ ~ (Len(AssemblyProgram) < INSTRUCTION_MEMORY_SIZE)
       /\ AssemblyCount' = Len(AssemblyProgram)
       /\ UNCHANGED <<AssemblyLines, AssemblyProgram>>
  BY DEF Assembly!Announce, Assembly!HasRoom, AssemblyLines, AssemblyProgram, AssemblyCount
<1> QED
  BY <1>1, <1>2

\* The parser starts where the assembler may start.
LEMMA AssemblyInit == Init => Assembly!Init
<1> SUFFICES ASSUME Init PROVE Assembly!Init
  OBVIOUS
<1>1. source \in Seq(Cells) /\ line = 1 /\ instruction_address = 0 /\ instructionCount = 0
  BY SourceType DEF Init
<1>2. Stored = <<>>
  BY <1>1 DEF Stored
<1>3. SubSeq(source, line, Len(source)) = source
  BY <1>1, SubSeqFull
<1>4. source \in Seq(Seq([kind : STRING, value : Int]))
  BY <1>1 DEF Cells, OneCell
<1>5. /\ AssemblyProgram = <<>> /\ AssemblyCount = 0
      /\ AssemblyLines \in Seq(Seq([kind : STRING, value : Int]))
  BY <1>1, <1>2, <1>3, <1>4 DEF AssemblyProgram, AssemblyCount, AssemblyLines
<1> QED
  BY <1>5 DEF Assembly!Init, AssemblyProgram, AssemblyCount, AssemblyLines

\* Every step of the parser is a step of the assembler or none.
LEMMA AssemblyStep ==
  ParserInvariant /\ [Next]_parserVars =>
    \/ Assembly!Assemble
    \/ Assembly!Announce
    \/ UNCHANGED <<AssemblyLines, AssemblyProgram, AssemblyCount>>
<1> SUFFICES ASSUME ParserInvariant, [Next]_parserVars
             PROVE  \/ Assembly!Assemble
                    \/ Assembly!Announce
                    \/ UNCHANGED <<AssemblyLines, AssemblyProgram, AssemblyCount>>
  OBVIOUS
<1>1. TypeOK /\ Progress
  BY DEF ParserInvariant
<1>2. source' = source /\ InScope' = InScope
  BY FileStays
<1>3. source \in Files /\ Len(source) \in Nat
  BY <1>1, SourceType DEF TypeOK
<1>4. instruction_address \in Nat
  BY <1>1 DEF TypeOK
<1>5. Len(Stored) = instruction_address
  BY <1>4 DEF Stored
<1>6. CASE ~ InScope
  BY <1>2, <1>6 DEF AssemblyLines, AssemblyProgram, AssemblyCount
<1>7. CASE InScope
  <2>1. /\ AssemblyLines = SubSeq(source, line, Len(source))
        /\ AssemblyProgram = Stored /\ AssemblyCount = instructionCount
        /\ AssemblyLines' = SubSeq(source, line', Len(source))
        /\ AssemblyProgram' = Stored' /\ AssemblyCount' = instructionCount'
    BY <1>2, <1>7 DEF AssemblyLines, AssemblyProgram, AssemblyCount
  <2>2. UNCHANGED <<memory, instruction_address>> => Stored' = Stored
    BY DEF Stored
  <2>3. CASE UNCHANGED <<memory, instruction_address, instructionCount, line>>
    BY <2>1, <2>2, <2>3
  <2>4. CASE SkipLine \/ RejectLine \/ StoreLine
    <3>1. fgets /\ parsing = "reading" /\ UNCHANGED instructionCount
      BY <2>4 DEF SkipLine, RejectLine, StoreLine
    <3>2. /\ AssemblyLines # <<>> /\ Head(AssemblyLines) = source[line]
          /\ AssemblyLines' = Tail(AssemblyLines)
      BY <1>3, <1>7, <2>1, <3>1, LineInScope, LinesLeft
    <3>3. Len(AssemblyProgram) < INSTRUCTION_MEMORY_SIZE
      BY <1>1, <1>5, <2>1, <3>1 DEF Progress
    <3>4. AssemblyProgram' =
            IF IsInstruction(source[line])
              THEN Append(AssemblyProgram, Instruction(source[line])) ELSE AssemblyProgram
      <4>1. CASE StoreLine
        <5>1. ~ IgnoredLine /\ accepted(Tokens)
          BY <4>1 DEF StoreLine
        <5>2. IsInstruction(source[line]) /\ Accepted(Tokens) = Instruction(source[line])
          BY <1>7, <3>1, <5>1, LineInScope
        <5>3. Stored' = Append(Stored, Accepted(Tokens))
          BY <1>1, <4>1, StoredAppends
        <5> QED
          BY <2>1, <5>2, <5>3
      <4>2. CASE SkipLine \/ RejectLine
        <5>1. ~ (~ IgnoredLine /\ accepted(Tokens))
              /\ UNCHANGED <<memory, instruction_address>>
          BY <4>2 DEF SkipLine, RejectLine
        <5>2. ~ IsInstruction(source[line])
          BY <1>7, <3>1, <5>1, LineInScope
        <5> QED
          BY <2>1, <2>2, <5>1, <5>2
      <4> QED
        BY <2>4, <4>1, <4>2
    <3> QED
      BY <2>1, <3>1, <3>2, <3>3, <3>4, AssemblyActions
  <2>5. CASE Close
    <3>1. parsing = "closing" /\ instructionCount' = instruction_address
          /\ UNCHANGED <<memory, instruction_address, line>>
      BY <2>5 DEF Close
    <3>2. line > Len(source) \/ instruction_address = INSTRUCTION_MEMORY_SIZE
      BY <1>1, <3>1 DEF Progress
    <3>3. line > Len(source) => AssemblyLines = <<>>
      <4>1. line \in Int
        BY <1>1, <1>3 DEF TypeOK
      <4> QED
        BY <1>3, <2>1, <4>1, SubSeqEmpty
    <3>4. AssemblyLines = <<>> \/ ~ (Len(AssemblyProgram) < INSTRUCTION_MEMORY_SIZE)
      BY <1>5, <2>1, <3>2, <3>3, MemoryAssumption
    <3> QED
      BY <1>5, <2>1, <2>2, <3>1, <3>4, AssemblyActions
  <2> QED
    BY <2>3, <2>4, <2>5
       DEF Next, Step, Returned, Open, OpenFails, EndOfFile, parserVars
<1> QED
  BY <1>6, <1>7

\* The parser implements the assembler: of a file whose lines fit the buffer and whose
\* numbers fit an int32_t and a jump address it makes, instruction by instruction, the
\* program that is written, however long the file is.
THEOREM ParserImplementsAssembler == Spec => ImplementsAssembler
<1>1. ParserInvariant /\ [Next]_parserVars =>
        [Assembly!Assemble \/ Assembly!Announce]_<<AssemblyLines, AssemblyProgram, AssemblyCount>>
  BY AssemblyStep
<1>2. Init => Assembly!Init
  BY AssemblyInit
<1>3. Spec => Assembly!Init /\ [][Assembly!Assemble \/ Assembly!Announce]_<<AssemblyLines, AssemblyProgram, AssemblyCount>>
  BY <1>1, <1>2, ParserInvariance, PTL DEF Spec
<1> QED
  BY <1>3 DEF ImplementsAssembler, Assembly!Spec, AssemblyLines, AssemblyProgram, AssemblyCount

-----------------------------------------------------------------------------
(* The program as it is written: the lines counted by their rank.          *)

\* The instructions among the lines up to a line.
UpTo(lines, n) == {m \in InstructionLines(lines) : m <= n}

\* There are finitely many of them.
LEMMA LinesFinite ==
  ASSUME NEW lines \in Seq(Cells)
  PROVE  /\ IsFiniteSet(InstructionLines(lines))
         /\ Cardinality(InstructionLines(lines)) \in Nat
         /\ \A n \in Int : /\ IsFiniteSet(UpTo(lines, n))
                           /\ Cardinality(UpTo(lines, n)) \in Nat
                           /\ Cardinality(UpTo(lines, n)) <= Cardinality(InstructionLines(lines))
<1>1. DOMAIN lines = 1 .. Len(lines) /\ Len(lines) \in Int
  OBVIOUS
<1>2. IsFiniteSet(1 .. Len(lines))
  BY <1>1, FS_Interval
<1>3. InstructionLines(lines) \in SUBSET (1 .. Len(lines))
  BY <1>1 DEF InstructionLines
<1>4. IsFiniteSet(InstructionLines(lines))
  BY <1>2, <1>3, FS_Subset
<1>5. Cardinality(InstructionLines(lines)) \in Nat
  BY <1>4, FS_CardinalityType
<1>6. ASSUME NEW n \in Int
      PROVE  /\ IsFiniteSet(UpTo(lines, n))
             /\ Cardinality(UpTo(lines, n)) \in Nat
             /\ Cardinality(UpTo(lines, n)) <= Cardinality(InstructionLines(lines))
  <2>1. UpTo(lines, n) \in SUBSET InstructionLines(lines)
    BY DEF UpTo
  <2>2. /\ IsFiniteSet(UpTo(lines, n))
        /\ Cardinality(UpTo(lines, n)) <= Cardinality(InstructionLines(lines))
    BY <1>4, <2>1, FS_Subset
  <2> QED
    BY <2>2, FS_CardinalityType
<1> QED
  BY <1>4, <1>5, <1>6

\* An instruction adds one to the count, another line nothing.
LEMMA CountGrows ==
  ASSUME NEW lines \in Seq(Cells), NEW n \in 1 .. Len(lines)
  PROVE  Cardinality(UpTo(lines, n)) =
           IF IsInstruction(lines[n]) THEN Cardinality(UpTo(lines, n - 1)) + 1
                                      ELSE Cardinality(UpTo(lines, n - 1))
<1>1. DOMAIN lines = 1 .. Len(lines) /\ \A m \in DOMAIN lines : m \in Int
  OBVIOUS
<1>2. IsFiniteSet(UpTo(lines, n - 1)) /\ n \notin UpTo(lines, n - 1)
  BY LinesFinite DEF UpTo
<1>3. CASE IsInstruction(lines[n])
  <2>1. UpTo(lines, n) = UpTo(lines, n - 1) \cup {n}
    BY <1>1, <1>3 DEF UpTo, InstructionLines
  <2> QED
    BY <1>2, <1>3, <2>1, FS_AddElement
<1>4. CASE ~ IsInstruction(lines[n])
  <2>1. UpTo(lines, n) = UpTo(lines, n - 1)
    BY <1>1, <1>4 DEF UpTo, InstructionLines
  <2> QED
    BY <1>4, <2>1
<1> QED
  BY <1>3, <1>4

\* No two instructions have the same rank.
LEMMA RankUnique ==
  ASSUME NEW lines \in Seq(Cells),
         NEW m \in InstructionLines(lines), NEW n \in InstructionLines(lines),
         Rank(lines, m) = Rank(lines, n)
  PROVE  m = n
<1>1. m \in Int /\ n \in Int
  BY DEF InstructionLines
<1>2. ASSUME NEW a \in InstructionLines(lines), NEW b \in InstructionLines(lines),
             a \in Int, b \in Int, a < b
      PROVE  Rank(lines, a) # Rank(lines, b)
  <2>1. IsFiniteSet(UpTo(lines, b))
    BY <1>2, LinesFinite
  <2>2. UpTo(lines, a) \in SUBSET UpTo(lines, b) /\ b \in UpTo(lines, b) /\ b \notin UpTo(lines, a)
    <3>1. \A k \in InstructionLines(lines) : k \in Int
      BY DEF InstructionLines
    <3>2. \A k \in UpTo(lines, a) : k \in UpTo(lines, b)
      BY <1>2, <3>1 DEF UpTo
    <3>3. b \in UpTo(lines, b) /\ b \notin UpTo(lines, a)
      BY <1>2 DEF UpTo
    <3> QED
      BY <3>2, <3>3
  <2>3. Cardinality(UpTo(lines, a)) # Cardinality(UpTo(lines, b))
    BY <2>1, <2>2, FS_Subset
  <2> QED
    BY <2>3 DEF Rank, UpTo
<1> QED
  BY <1>1, <1>2

\* What has been stored of a file in scope: the instructions among the lines read, each
\* in its place.  It holds while they are read.
Assembled ==
  InScope =>
    /\ instruction_address = Cardinality(UpTo(source, line - 1))
    /\ \A i \in 1 .. instruction_address :
         \E n \in InstructionLines(source) :
           Rank(source, n) = i /\ Stored[i] = Instruction(source[n])
    /\ parsing \in {"closing", "done"} /\ readable =>
         line > Len(source) \/ instruction_address = INSTRUCTION_MEMORY_SIZE

\* Nothing is stored before the first line is read.
LEMMA AssembledInit == Init => Assembled
<1> SUFFICES ASSUME Init PROVE Assembled
  OBVIOUS
<1>1. source \in Seq(Cells) /\ line = 1 /\ instruction_address = 0 /\ parsing = "open"
  BY SourceType DEF Init
<1>2. UpTo(source, 0) = {}
  BY <1>1 DEF UpTo, InstructionLines
<1> QED
  BY <1>1, <1>2, FS_EmptySet DEF Assembled

\* Every step of the parser keeps it: a line it skips holds no instruction, a line it stores
\* holds the next one.
LEMMA AssembledNext == ParserInvariant /\ Assembled /\ [Next]_parserVars => Assembled'
<1> SUFFICES ASSUME ParserInvariant, Assembled, [Next]_parserVars, InScope' PROVE Assembled'
  BY DEF Assembled
<1>1. TypeOK /\ Progress
  BY DEF ParserInvariant
<1>2. source' = source /\ readable' = readable /\ InScope
  BY FileStays
<1>3. source \in Files /\ source \in Seq(Cells) /\ Len(source) \in Nat
  BY <1>1, SourceType DEF TypeOK
<1>4. /\ instruction_address = Cardinality(UpTo(source, line - 1))
      /\ \A i \in 1 .. instruction_address :
           \E n \in InstructionLines(source) :
             Rank(source, n) = i /\ Stored[i] = Instruction(source[n])
      /\ parsing \in {"closing", "done"} /\ readable =>
           line > Len(source) \/ instruction_address = INSTRUCTION_MEMORY_SIZE
  BY <1>2 DEF Assembled
<1>5. line \in Int /\ instruction_address \in Nat
  BY <1>1, <1>3 DEF TypeOK
<1>6. CASE UNCHANGED <<memory, instruction_address, line>>
  <2>1. Stored' = Stored
    BY <1>6 DEF Stored
  <2>2. parsing' \in {"closing", "done"} /\ readable =>
          line > Len(source) \/ instruction_address = INSTRUCTION_MEMORY_SIZE
    <3>1. CASE Open \/ SkipLine \/ RejectLine
      BY <3>1 DEF Open, SkipLine, RejectLine
    <3>2. CASE OpenFails
      BY <3>2 DEF OpenFails
    <3>3. CASE StoreLine
      <4>1. instruction_address' = instruction_address + 1
        BY <3>3 DEF StoreLine
      <4> QED
        BY <1>5, <1>6, <4>1
    <3>4. CASE EndOfFile
      BY <3>4 DEF EndOfFile
    <3>5. CASE Close
      BY <1>4, <3>5 DEF Close
    <3>6. CASE Returned \/ UNCHANGED parserVars
      <4>1. parsing' = parsing
        BY <3>6 DEF Returned, parserVars
      <4> QED
        BY <1>4, <4>1
    <3> QED
      BY <3>1, <3>2, <3>3, <3>4, <3>5, <3>6 DEF Next, Step
  <2> QED
    BY <1>2, <1>4, <1>6, <2>1, <2>2 DEF Assembled
<1>7. CASE SkipLine \/ RejectLine
  <2>1. /\ fgets /\ parsing = "reading" /\ parsing' = "reading"
        /\ UNCHANGED <<memory, instruction_address>>
        /\ ~ (~ IgnoredLine /\ accepted(Tokens))
    BY <1>7 DEF SkipLine, RejectLine
  <2>2. line \in 1 .. Len(source) /\ line' = line + 1 /\ ~ IsInstruction(source[line])
    BY <1>2, <2>1, LineInScope
  <2>3. Cardinality(UpTo(source, line)) = Cardinality(UpTo(source, line - 1))
    BY <1>3, <2>2, CountGrows
  <2>4. line' - 1 = line
    BY <2>2
  <2>5. Stored' = Stored
    BY <2>1 DEF Stored
  <2> QED
    BY <1>2, <1>4, <2>1, <2>3, <2>4, <2>5 DEF Assembled
<1>8. CASE StoreLine
  <2>1. /\ fgets /\ parsing = "reading" /\ ~ IgnoredLine /\ accepted(Tokens)
        /\ instruction_address' = instruction_address + 1
        /\ parsing' = IF IsFull(instruction_address + 1) THEN "closing" ELSE "reading"
    BY <1>8 DEF StoreLine
  <2>2. /\ line \in 1 .. Len(source) /\ line' = line + 1
        /\ IsInstruction(source[line]) /\ Accepted(Tokens) = Instruction(source[line])
    BY <1>2, <2>1, LineInScope
  <2>3. Cardinality(UpTo(source, line)) = instruction_address + 1
    BY <1>3, <1>4, <2>2, CountGrows
  <2>4. line' - 1 = line
    BY <2>2
  <2>5. /\ Stored'[instruction_address'] = Instruction(source[line])
        /\ \A i \in 1 .. instruction_address : Stored'[i] = Stored[i]
    BY <1>1, <1>8, <2>2, StoredGrows
  <2>6. line \in InstructionLines(source) /\ Rank(source, line) = instruction_address + 1
    BY <1>3, <2>2, <2>3 DEF InstructionLines, Rank, UpTo
  <2>7. ASSUME NEW i \in 1 .. instruction_address'
        PROVE  \E n \in InstructionLines(source) :
                 Rank(source, n) = i /\ Stored'[i] = Instruction(source[n])
    <3>1. CASE i = instruction_address'
      BY <2>1, <2>5, <2>6, <3>1
    <3>2. CASE i \in 1 .. instruction_address
      BY <1>4, <2>5, <3>2
    <3> QED
      BY <1>5, <2>1, <3>1, <3>2
  <2>8. parsing' \in {"closing", "done"} => instruction_address' = INSTRUCTION_MEMORY_SIZE
    <3>1. instruction_address < INSTRUCTION_MEMORY_SIZE
      BY <1>1, <2>1 DEF Progress
    <3> QED
      BY <1>5, <2>1, <3>1, MemoryAssumption DEF IsFull
  <2> QED
    BY <1>2, <2>1, <2>3, <2>4, <2>7, <2>8 DEF Assembled
<1> QED
  BY <1>6, <1>7, <1>8 DEF Next, Step, Returned, Open, OpenFails, EndOfFile, Close, parserVars

\* So at the end the words are the program.
LEMMA AssembledProgram == ParserInvariant /\ Assembled => StoresTheFile
<1> SUFFICES ASSUME ParserInvariant, Assembled, parsing = "done", readable, InScope
             PROVE  Stored = ProgramOf(source)
  BY DEF StoresTheFile
<1>1. TypeOK
  BY DEF ParserInvariant
<1>2. source \in Seq(Cells) /\ Len(source) \in Nat
  BY <1>1, SourceType DEF TypeOK
<1>3. /\ instruction_address = Cardinality(UpTo(source, line - 1))
      /\ \A i \in 1 .. instruction_address :
           \E n \in InstructionLines(source) :
             Rank(source, n) = i /\ Stored[i] = Instruction(source[n])
      /\ line > Len(source) \/ instruction_address = INSTRUCTION_MEMORY_SIZE
  BY DEF Assembled
<1>4. line \in Int /\ instruction_address \in 0 .. INSTRUCTION_MEMORY_SIZE
  BY <1>1, <1>2 DEF TypeOK
<1> DEFINE written == InstructionLines(source)
           size == IF Cardinality(written) < INSTRUCTION_MEMORY_SIZE
                     THEN Cardinality(written) ELSE INSTRUCTION_MEMORY_SIZE
<1>5. /\ Cardinality(written) \in Nat
      /\ instruction_address <= Cardinality(written)
  <2>1. line - 1 \in Int
    BY <1>4
  <2> QED
    BY <1>2, <1>3, <2>1, LinesFinite
<1>6. line > Len(source) => instruction_address = Cardinality(written)
  <2>1. ASSUME line > Len(source) PROVE UpTo(source, line - 1) = written
    BY <1>2, <1>4, <2>1 DEF UpTo, InstructionLines
  <2> QED
    BY <1>3, <2>1
<1>7. size = instruction_address
  BY <1>3, <1>4, <1>5, <1>6, MemoryAssumption
<1>8. ASSUME NEW i \in 1 .. instruction_address
      PROVE  Stored[i] = Instruction(source[CHOOSE n \in written : Rank(source, n) = i])
  <2>1. PICK n \in written : Rank(source, n) = i /\ Stored[i] = Instruction(source[n])
    BY <1>3
  <2> DEFINE c == CHOOSE m \in written : Rank(source, m) = i
  <2>2. c \in written /\ Rank(source, c) = i
    BY <2>1
  <2>3. c = n
    <3> HIDE DEF c
    <3> QED
      BY <1>2, <2>1, <2>2, RankUnique
  <2> QED
    BY <2>1, <2>3
<1>9. Stored = [i \in 1 .. instruction_address |->
                  Instruction(source[CHOOSE n \in written : Rank(source, n) = i])]
  <2>1. Stored = [i \in 1 .. instruction_address |-> Stored[i]]
    BY DEF Stored
  <2> QED
    BY <1>8, <2>1
<1> QED
  BY <1>7, <1>9 DEF ProgramOf

\* When the parser returns, the instructions stored are those of the file: in scope
\* nothing written is lost, misplaced or changed, and nothing else is stored.
THEOREM FileIsStored == Spec => []StoresTheFile
<1>1. Spec => []Assembled
  BY AssembledInit, AssembledNext, ParserInvariance, PTL DEF Spec
<1> QED
  BY <1>1, AssembledProgram, ParserInvariance, PTL

=============================================================================
