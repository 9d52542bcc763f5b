------------------------------ MODULE CpuProofs ----------------------------
(***************************************************************************)
(* Facts about the operators of modules Opcodes and Cpu: the ranges of     *)
(* decoded fields, of arithmetic results and of what the register file and *)
(* the memory return, for every instruction layout and memory size.        *)
(***************************************************************************)
EXTENDS Cpu, TLAPS

(***************************************************************************)
(* C's bit operators stay within int32_t.  The assumption is stated here   *)
(* and not in module Cpu because TLC evaluates it on every pair of words:  *)
(* a model that extends this module needs narrow words.                    *)
(***************************************************************************)
ASSUME BitOperatorsAssumption ==
  /\ \A a, b \in Int32 : BitAnd(a, b) \in Int32 /\ BitXor(a, b) \in Int32
  /\ \A a \in Int32, k \in 0 .. WORD_BITS - 1 :
       ShiftLeft(a, k) \in Int32 /\ ShiftRight(a, k) \in Int32

\* The units of the instruction fields are positive and grow to the left.
LEMMA UnitsPositive ==
  /\ R3_UNIT \in Nat \ {0} /\ R2_UNIT \in Nat \ {0}
  /\ R1_UNIT \in Nat \ {0} /\ OPCODE_UNIT \in Nat \ {0}
  /\ HALF_WORD \in Nat \ {0} /\ WORD_SPACE \in Nat \ {0}
  /\ R3_UNIT <= R2_UNIT /\ R2_UNIT <= R1_UNIT /\ R1_UNIT <= OPCODE_UNIT
  /\ REGISTER_COUNT <= R2_UNIT
<1>1. ASSUME NEW u \in Nat \ {0}
      PROVE  u * REGISTER_COUNT \in Nat \ {0} /\ u <= u * REGISTER_COUNT
                /\ REGISTER_COUNT <= u * REGISTER_COUNT
  BY LayoutAssumption
<1>2. R3_UNIT \in Nat \ {0}
  BY LayoutAssumption DEF R3_UNIT
<1>3. R2_UNIT \in Nat \ {0} /\ R3_UNIT <= R2_UNIT /\ REGISTER_COUNT <= R2_UNIT
  BY <1>1, <1>2 DEF R2_UNIT
<1>4. R1_UNIT \in Nat \ {0} /\ R2_UNIT <= R1_UNIT
  BY <1>1, <1>3 DEF R1_UNIT
<1>5. OPCODE_UNIT \in Nat \ {0} /\ R1_UNIT <= OPCODE_UNIT
  BY <1>1, <1>4 DEF OPCODE_UNIT
<1>6. HALF_WORD \in Nat \ {0} /\ WORD_SPACE \in Nat \ {0}
  BY <1>5 DEF HALF_WORD, WORD_SPACE
<1> QED
  BY <1>2, <1>3, <1>4, <1>5, <1>6

\* A remainder lies below its modulus.
LEMMA RemainderRange ==
  ASSUME NEW v \in Int, NEW n \in Nat \ {0}
  PROVE  v % n \in 0 .. n - 1
OBVIOUS

\* Division with remainder is unique.
LEMMA DivisionUnique ==
  ASSUME NEW n \in Nat \ {0}, NEW q \in Int, NEW r \in 0 .. n - 1
  PROVE  (q * n + r) % n = r /\ (q * n + r) \div n = q
OBVIOUS

\* A multiple of the modulus does not show in the remainder.
LEMMA MultipleVanishes ==
  ASSUME NEW n \in Nat \ {0}, NEW v \in Int, NEW k \in Int
  PROVE  (v - k * n) % n = v % n
<1> DEFINE q == (v \div n) - k
           r == v % n
<1>1. r \in 0 .. n - 1 /\ v = (v \div n) * n + r
  OBVIOUS
<1>2. q \in Int /\ v \div n \in Int
  OBVIOUS
<1>3. v - k * n = q * n + r
  <2> HIDE DEF r
  <2> QED
    BY <1>1, <1>2
<1> HIDE DEF q, r
<1>4. (q * n + r) % n = r
  BY <1>1, <1>2, DivisionUnique
<1> QED
  BY <1>3, <1>4 DEF r

\* The cast to int32_t lands in int32_t, whatever is cast.
LEMMA ToInt32Type ==
  ASSUME NEW v \in Int PROVE ToInt32(v) \in Int32
<1>1. (v + HALF_WORD) % WORD_SPACE \in 0 .. WORD_SPACE - 1
  BY UnitsPositive, RemainderRange
<1> QED
  BY <1>1, UnitsPositive DEF ToInt32, Int32, WORD_SPACE

\* Casting a raw word to int32_t and back gives the word.
LEMMA WordRoundTrip ==
  ASSUME NEW w \in RawWord PROVE ToUint32(ToInt32(w)) = w
<1>1. ASSUME NEW h \in Nat \ {0}, NEW v \in 0 .. 2 * h - 1
      PROVE  (((v + h) % (2 * h)) - h) % (2 * h) = v
  OBVIOUS
<1> QED
  BY <1>1, UnitsPositive DEF ToUint32, ToInt32, RawWord, WORD_SPACE

\* Casting an int32_t to a word and back gives the int32_t.
LEMMA CastRoundTrip ==
  ASSUME NEW v \in Int32 PROVE ToInt32(ToUint32(v)) = v
<1>1. ASSUME NEW h \in Nat \ {0}, NEW x \in -h .. h - 1
      PROVE  (((x % (2 * h)) + h) % (2 * h)) - h = x
  OBVIOUS
<1> QED
  BY <1>1, UnitsPositive DEF ToUint32, ToInt32, Int32, WORD_SPACE

\* A natural number below half the words is the same as a word.
LEMMA SmallWord ==
  ASSUME NEW v \in 0 .. HALF_WORD - 1 PROVE ToUint32(v) = v
<1>1. ASSUME NEW h \in Nat \ {0}, NEW x \in 0 .. h - 1 PROVE x % (2 * h) = x
  OBVIOUS
<1> QED
  BY <1>1, UnitsPositive DEF ToUint32, WORD_SPACE

\* int32_t contains zero, and its members are integers.
LEMMA Int32Facts == 0 \in Int32 /\ \A v \in Int32 : v \in Int
  BY UnitsPositive DEF Int32

\* The fields of a decoded instruction.
DecodedFields ==
  [valid : BOOLEAN, opcode : OpcodeField, r1 : Register, r2 : Register,
   r3 : Register, shamt : Int32, immediate : Int32, address : Int32]

\* Sign extension of the immediate.
LEMMA SignExtendRange ==
  ASSUME NEW raw \in Int PROVE sign_extend(raw, IMM_SPACE) \in -IMM_SPACE .. IMM_SPACE - 1
<1> DEFINE f == raw % IMM_SPACE
<1>1. IMM_SPACE \in Nat \ {0}
  BY UnitsPositive DEF IMM_SPACE
<1>2. f \in 0 .. IMM_SPACE - 1
  BY <1>1, RemainderRange
<1>3. sign_extend(raw, IMM_SPACE) = IF 2 * f >= IMM_SPACE THEN f - IMM_SPACE ELSE f
  BY DEF sign_extend
<1> HIDE DEF f
<1> QED
  BY <1>1, <1>2, <1>3

\* A sign-extended immediate is an int32_t.
LEMMA SignExtendType ==
  ASSUME NEW raw \in Int PROVE sign_extend(raw, IMM_SPACE) \in Int32
<1>1. IMM_SPACE \in Nat \ {0} /\ IMM_SPACE <= HALF_WORD
  BY UnitsPositive DEF IMM_SPACE, HALF_WORD
<1> QED
  BY <1>1, SignExtendRange, UnitsPositive DEF Int32

\* The opcode bits of a raw word.
LEMMA OpcodeOfType == ASSUME NEW raw \in RawWord PROVE OpcodeOf(raw) \in OpcodeField
<1>1. raw \div OPCODE_UNIT \in Int
  BY UnitsPositive DEF RawWord
<1> QED
  BY <1>1 DEF OpcodeOf, OpcodeField

\* Decoding any raw word gives fields in their ranges.
LEMMA DecodeFieldsType ==
  ASSUME NEW raw \in RawWord PROVE DecodeFields(raw) \in DecodedFields
<1>1. raw \in Int
  BY UnitsPositive DEF RawWord
<1>2. ASSUME NEW u \in Nat \ {0} PROVE raw \div u \in Int
  BY <1>1
<1>3. ASSUME NEW u \in Nat \ {0} PROVE (raw \div u) % REGISTER_COUNT \in Register
  <2>1. raw \div u \in Int
    BY <1>2
  <2> QED
    BY <2>1, LayoutAssumption, RemainderRange DEF Register
<1>4. OpcodeOf(raw) \in OpcodeField
  BY OpcodeOfType
<1>5. raw % SHAMT_SPACE \in Int32
  <2>1. raw % SHAMT_SPACE \in 0 .. SHAMT_SPACE - 1
    BY <1>1, LayoutAssumption, RemainderRange
  <2> QED
    BY <2>1, UnitsPositive DEF Int32, HALF_WORD, R3_UNIT
<1>6. raw % ADDR_SPACE \in Int32
  <2>1. raw % ADDR_SPACE \in 0 .. ADDR_SPACE - 1
    BY <1>1, UnitsPositive, RemainderRange DEF ADDR_SPACE
  <2> QED
    BY <2>1, UnitsPositive DEF Int32, HALF_WORD, ADDR_SPACE
<1>7. 0 \in Register
  BY LayoutAssumption DEF Register
<1> QED
  BY <1>1, <1>3, <1>4, <1>5, <1>6, <1>7, Int32Facts, SignExtendType, UnitsPositive
     DEF DecodeFields, DecodedFields

\* The ALU maps int32_t operands to an int32_t result.
LEMMA AluResultType ==
  ASSUME NEW opcode \in OpcodeField, NEW a \in Int32, NEW b \in Int32,
         NEW immediate \in Int32, NEW shamt \in Int32, NEW old \in Int32
  PROVE  AluResult(opcode, a, b, immediate, shamt, old) \in Int32
<1>1. a + b \in Int /\ a - b \in Int /\ a * b \in Int
  BY Int32Facts
<1>2. ToInt32(a + b) \in Int32 /\ ToInt32(a - b) \in Int32 /\ ToInt32(a * b) \in Int32
  BY <1>1, ToInt32Type
<1>3. BitAnd(a, b) \in Int32 /\ BitXor(a, immediate) \in Int32
  BY BitOperatorsAssumption
<1>4. ShiftInRange(shamt) => ShiftLeft(a, shamt) \in Int32 /\ ShiftRight(a, shamt) \in Int32
  <2>1. ShiftInRange(shamt) => shamt \in 0 .. WORD_BITS - 1
    BY Int32Facts, WordAssumption DEF ShiftInRange
  <2> QED
    BY <2>1, BitOperatorsAssumption
<1> QED
  BY <1>2, <1>3, <1>4, Int32Facts DEF AluResult

\* Reading a register of a well-typed file gives an int32_t.
LEMMA ReadRegisterType ==
  ASSUME NEW regs \in [Register -> Int32], NEW r PROVE readRegister(regs, r) \in Int32
  BY Int32Facts DEF readRegister

\* Writing a register keeps the file well-typed.
LEMMA WriteRegisterType ==
  ASSUME NEW regs \in [Register -> Int32], NEW r, NEW value \in Int32
  PROVE  writeRegister(regs, r, value) \in [Register -> Int32]
  BY Int32Facts DEF writeRegister

\* A data read gives an int32_t, also outside the data segment.
LEMMA ReadMemoryType ==
  ASSUME NEW mem \in [Address -> Int32], NEW a \in Int PROVE readMemory(mem, a) \in Int32
  BY Int32Facts, MemoryAssumption DEF readMemory, is_data_address, Address

\* A data write keeps memory well-typed and leaves every instruction alone.
LEMMA WriteMemoryType ==
  ASSUME NEW mem \in [Address -> Int32], NEW a \in Int, NEW value \in Int32
  PROVE  /\ writeMemory(mem, a, value) \in [Address -> Int32]
         /\ \A i \in 0 .. INSTRUCTION_MEMORY_SIZE - 1 : writeMemory(mem, a, value)[i] = mem[i]
  BY MemoryAssumption DEF writeMemory, is_data_address, Address

\* A fetch gives a raw word, also outside instruction memory.
LEMMA FetchType ==
  ASSUME NEW mem \in [Address -> Int32], NEW a \in Int
  PROVE  memory_fetch_instruction(mem, a) \in RawWord
<1>1. ASSUME is_instruction_address(a) PROVE ToUint32(mem[a]) \in RawWord
  <2>1. a \in Address
    BY <1>1, MemoryAssumption DEF is_instruction_address, Address
  <2>2. mem[a] \in Int32
    BY <2>1
  <2>3. mem[a] \in Int
    BY <2>2, Int32Facts
  <2> QED
    BY <2>3, UnitsPositive, RemainderRange DEF ToUint32, RawWord
<1>2. 0 \in RawWord
  BY UnitsPositive DEF RawWord
<1> QED
  BY <1>1, <1>2 DEF memory_fetch_instruction

=============================================================================
