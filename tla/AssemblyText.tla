---------------------------- MODULE AssemblyText ---------------------------
(***************************************************************************)
(* The instruction set as it is written: which operands each mnemonic      *)
(* takes, and the instruction that a line means.  There are no words, no   *)
(* buffer and no int32_t here: an instruction is the record of its fields  *)
(* and a number is what has been written.  Lines are sequences of cells as *)
(* in module Parser.                                                       *)
(***************************************************************************)
EXTENDS Cpu, FiniteSets

\* An instruction's opcode and the fields that its operands give, as written.
Form(opcode, fields) == [opcode |-> opcode, fields |-> fields]

Arithmetic(opcode) == Form(opcode, <<"r1", "r2", "r3">>)
Shifting(opcode)   == Form(opcode, <<"r1", "r2", "shamt">>)
Immediate(opcode)  == Form(opcode, <<"r1", "r2", "immediate">>)

Syntax ==
  [ADD  |-> Arithmetic(OPCODE_ADD),
   SUB  |-> Arithmetic(OPCODE_SUB),
   MUL  |-> Arithmetic(OPCODE_MUL),
   AND  |-> Arithmetic(OPCODE_AND),
   LSL  |-> Shifting(OPCODE_LSL),
   LSR  |-> Shifting(OPCODE_LSR),
   MOVI |-> Form(OPCODE_MOVI, <<"r1", "immediate">>),
   ORI  |-> Immediate(OPCODE_ORI),
   XORI |-> Immediate(OPCODE_ORI),
   JEQ  |-> Immediate(OPCODE_JEQ),
   MOVR |-> Immediate(OPCODE_MOVR),
   MOVM |-> Immediate(OPCODE_MOVM),
   JMP  |-> Form(OPCODE_JMP, <<"address">>)]

\* The operand tokens that a field admits: a register, or a number the field's
\* bits can hold.
Admits(field, token) ==
  CASE field \in {"r1", "r2", "r3"} ->
         token.kind = "register" /\ token.value \in Register
    [] field = "shamt" ->
         token.kind = "number" /\ token.value \in 0 .. WORD_BITS - 1
    [] field = "immediate" ->
         token.kind = "number" /\ sign_extend(token.value, IMM_SPACE) = token.value
    [] field = "address" ->
         token.kind = "number" /\ token.value \in 0 .. ADDR_SPACE - 1

Written(text) == SelectSeq(text, LAMBDA cell : cell.kind # "comma")

\* A line that is an instruction: not a comment, and a mnemonic with its operands.
IsInstruction(text) ==
  LET tokens == Written(text)
  IN  /\ tokens # <<>>
      /\ text[1].kind # "comment"
      /\ tokens[1].kind \in DOMAIN Syntax
      /\ LET fields == Syntax[tokens[1].kind].fields
         IN  /\ Len(tokens) = Len(fields) + 1
             /\ \A i \in 1 .. Len(fields) : Admits(fields[i], tokens[i + 1])

\* That instruction: its fields as DecodeFields would give them, zero if not written.
Instruction(text) ==
  LET tokens == Written(text)
      form   == Syntax[tokens[1].kind]
      Named(name) == {i \in 1 .. Len(form.fields) : form.fields[i] = name}
      Field(name) ==
        IF Named(name) = {} THEN 0 ELSE tokens[1 + CHOOSE i \in Named(name) : TRUE].value
  IN  [valid |-> TRUE, opcode |-> form.opcode,
       r1 |-> Field("r1"), r2 |-> Field("r2"), r3 |-> Field("r3"),
       shamt |-> Field("shamt"), immediate |-> Field("immediate"),
       address |-> Field("address")]

\* Which lines of a file are instructions.
InstructionLines(lines) == {n \in DOMAIN lines : IsInstruction(lines[n])}

\* The place of line n among them.
Rank(lines, n) == Cardinality({m \in InstructionLines(lines) : m <= n})

\* The program that the lines of a file make: those that are instructions, in their
\* order, as far as there is room.
ProgramOf(lines) ==
  LET written == InstructionLines(lines)
      size    == IF Cardinality(written) < INSTRUCTION_MEMORY_SIZE
                   THEN Cardinality(written) ELSE INSTRUCTION_MEMORY_SIZE
  IN  [i \in 1 .. size |->
         Instruction(lines[CHOOSE n \in written : Rank(lines, n) = i])]

=============================================================================
