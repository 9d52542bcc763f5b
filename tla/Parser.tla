------------------------------- MODULE Parser ------------------------------
(***************************************************************************)
(* The parser, parser.c: it reads an assembly file line by line through a  *)
(* buffer of fixed size, encodes every instruction it accepts and stores   *)
(* the words from address 0 on.  A line it does not accept only prints a   *)
(* message.                                                                *)
(*                                                                         *)
(* A line is a sequence of cells.  A cell is a token with the white space  *)
(* around it, or a comma; the text of a token matters only as far as       *)
(* strcmp and strtol tell tokens apart:                                    *)
(*                                                                         *)
(*   kind "ADD", "SUB", ...   a mnemonic                                   *)
(*   kind "register"          R followed by the number value               *)
(*   kind "number"            a number that strtol accepts to its end      *)
(*   kind "comment"           a token that begins with # or ;              *)
(*   kind "comma"             a separator                                  *)
(*   kind "text"              any other token                              *)
(*                                                                         *)
(* The buffer, LINE_BUFFER_SIZE characters in the code, holds LINE_CELLS   *)
(* cells.  A cut in the middle of a token makes two tokens of it, so files *)
(* with those two tokens in their place stand for that case.               *)
(***************************************************************************)
EXTENDS Cpu

CONSTANTS
  Files,         \* the files (sequences of lines) that may be parsed
  LINE_CELLS,    \* what fgets reads at most at a time
  LONG_MAX       \* the largest value of a C long

ASSUME ParserAssumption ==
  /\ LINE_CELLS \in Nat \ {0}
  /\ LONG_MAX \in Nat
  /\ HALF_WORD - 1 <= LONG_MAX       \* a long is at least as wide as an int32_t
  /\ WORD_BITS <= SHAMT_SPACE        \* a legal shift amount fits its field
  /\ INSTRUCTION_MEMORY_SIZE > 0     \* the loop looks for room after it has stored

ASSUME FilesAssumption ==
  \A file \in Files : file \in Seq(Seq([kind : STRING, value : Int]))

VARIABLES
  memory, instructionCount,  \* the CPU, as far as the parser writes it
  readable,                  \* whether the file can be opened
  source,                    \* what is in the file
  line, column,              \* the file position: the next cell to read
  instruction_address,
  parsing                    \* where parse_assembly_file is

fileVars   == <<readable, source>>
parserVars == <<memory, instructionCount, fileVars, line, column,
                instruction_address, parsing>>

-----------------------------------------------------------------------------
(* Tokens.                                                                 *)

Mnemonic ==
  [ADD  |-> OPCODE_ADD,  SUB |-> OPCODE_SUB, MUL  |-> OPCODE_MUL,  MOVI |-> OPCODE_MOVI,
   JEQ  |-> OPCODE_JEQ,  AND |-> OPCODE_AND, ORI  |-> OPCODE_ORI,  XORI |-> OPCODE_ORI,
   JMP  |-> OPCODE_JMP,  LSL |-> OPCODE_LSL, LSR  |-> OPCODE_LSR,
   MOVR |-> OPCODE_MOVR, MOVM |-> OPCODE_MOVM]

opcode_from_string(token) ==
  IF token.kind \in DOMAIN Mnemonic THEN Mnemonic[token.kind] ELSE -1

\* strtol stops at the limits of a long.
strtol(n) ==
  IF n > LONG_MAX THEN LONG_MAX ELSE IF n < -LONG_MAX - 1 THEN -LONG_MAX - 1 ELSE n

parses_as_register(token) ==
  token.kind = "register" /\ strtol(token.value) \in Register

Long == -LONG_MAX - 1 .. LONG_MAX

parses_as_immediate(token) ==
  token.kind = "number" /\ strtol(token.value) \in Long

\* The long is cut to an int32_t before any range check sees it.
immediate_of(token) == ToInt32(strtol(token.value))

I_TYPE_IMMEDIATE_MIN == -(IMM_SPACE \div 2)
I_TYPE_IMMEDIATE_MAX == (IMM_SPACE + 1) \div 2 - 1
SHIFT_AMOUNT_MAX     == WORD_BITS - 1

\* Mutant of validate_i_type_immediate: the limit itself is let through.
ImmediateUpToLimit(v) ==
  v >= I_TYPE_IMMEDIATE_MIN /\ v <= I_TYPE_IMMEDIATE_MAX + 1

validate_i_type_immediate(v) ==
  v >= I_TYPE_IMMEDIATE_MIN /\ v <= I_TYPE_IMMEDIATE_MAX

validate_shift_amount(v) == v >= 0 /\ v <= SHIFT_AMOUNT_MAX

-----------------------------------------------------------------------------
(* One instruction: the tokens of a line, the mnemonic first.              *)

ThreeRegisters == {OPCODE_ADD, OPCODE_SUB, OPCODE_MUL, OPCODE_AND}
ShiftOpcode    == {OPCODE_LSL, OPCODE_LSR}

OperandCount(opcode) ==
  CASE opcode = OPCODE_JMP  -> 1
    [] opcode = OPCODE_MOVI -> 2
    [] OTHER                -> 3

\* The operands are registers, but for the last one of most instructions.
RegisterOperands(opcode) ==
  IF opcode \in ThreeRegisters THEN 1 .. 3 ELSE 1 .. OperandCount(opcode) - 1

immediate_in_range(opcode, v) ==
  CASE opcode \in ShiftOpcode -> validate_shift_amount(v)
    [] opcode = OPCODE_JMP    -> v >= 0
    [] OTHER                  -> validate_i_type_immediate(v)

\* None of the conditions holds under which the loop goes on to the next line.
accepted(tokens) ==
  LET opcode == opcode_from_string(tokens[1])
      arg(i) == tokens[i + 1]
      count  == OperandCount(opcode)
  IN  /\ opcode >= 0
      /\ Len(tokens) = count + 1
      /\ \A i \in RegisterOperands(opcode) : parses_as_register(arg(i))
      /\ opcode \notin ThreeRegisters =>
           /\ parses_as_immediate(arg(count))
           /\ immediate_in_range(opcode, immediate_of(arg(count)))

\* Mutant of encoded: a store names its registers in the other order.
EncodedSwappingStore(tokens) ==
  LET opcode == opcode_from_string(tokens[1])
      r(i)   == strtol(tokens[i + 1].value)
      imm(i) == immediate_of(tokens[i + 1])
  IN  CASE opcode \in ThreeRegisters -> encode_r_type(opcode, r(1), r(2), r(3), 0)
        [] opcode \in ShiftOpcode    -> encode_r_type(opcode, r(1), r(2), 0, imm(3))
        [] opcode = OPCODE_MOVI      -> encode_i_type(opcode, r(1), 0, imm(2))
        [] opcode = OPCODE_JMP       -> encode_j_type(opcode, imm(1))
        [] opcode = OPCODE_MOVM      -> encode_i_type(opcode, r(2), r(1), imm(3))
        [] OTHER                     -> encode_i_type(opcode, r(1), r(2), imm(3))

encoded(tokens) ==
  LET opcode == opcode_from_string(tokens[1])
      r(i)   == strtol(tokens[i + 1].value)
      imm(i) == immediate_of(tokens[i + 1])
  IN  CASE opcode \in ThreeRegisters -> encode_r_type(opcode, r(1), r(2), r(3), 0)
        [] opcode \in ShiftOpcode    -> encode_r_type(opcode, r(1), r(2), 0, imm(3))
        [] opcode = OPCODE_MOVI      -> encode_i_type(opcode, r(1), 0, imm(2))
        [] opcode = OPCODE_JMP       -> encode_j_type(opcode, imm(1))
        [] OTHER                     -> encode_i_type(opcode, r(1), r(2), imm(3))

-----------------------------------------------------------------------------
(* Reading.                                                                *)

\* The cells of the current line that have not been read.
Unread == SubSeq(source[line], column + 1, Len(source[line]))

\* The line break is read with the last cells if it still fits the buffer.
ReadsLineBreak == Len(Unread) < LINE_CELLS

\* What fgets leaves in the buffer.
Buffer == IF ReadsLineBreak THEN Unread ELSE SubSeq(Unread, 1, LINE_CELLS)

\* Mutant of fgets: a long line is read from its beginning again.
FgetsRereads ==
  /\ line <= Len(source)
  /\ line'   = IF ReadsLineBreak THEN line + 1 ELSE line
  /\ column' = 0

\* fgets moves the file position; a long line goes on with the next call.
fgets ==
  /\ line <= Len(source)
  /\ line'   = IF ReadsLineBreak THEN line + 1 ELSE line
  /\ column' = IF ReadsLineBreak THEN 0 ELSE column + LINE_CELLS

\* strtok knows no commas.
Tokens == SelectSeq(Buffer, LAMBDA cell : cell.kind # "comma")

\* Blank, a comment, or nothing but separators.
IgnoredLine == Tokens # <<>> => Buffer[1].kind = "comment"

-----------------------------------------------------------------------------
(* parse_assembly_file.                                                    *)

\* After cpu_reset and memory_init, with any of the files given.
Init ==
  /\ memory = [a \in Address |-> 0]
  /\ instructionCount = 0
  /\ readable \in BOOLEAN
  /\ source \in Files
  /\ line = 1
  /\ column = 0
  /\ instruction_address = 0
  /\ parsing = "open"

Open ==
  /\ parsing = "open"
  /\ readable
  /\ parsing' = "reading"
  /\ UNCHANGED <<memory, instructionCount, fileVars, line, column, instruction_address>>

\* fopen fails: the CPU stays as it is and main goes on.
OpenFails ==
  /\ parsing = "open"
  /\ ~ readable
  /\ parsing' = "done"
  /\ UNCHANGED <<memory, instructionCount, fileVars, line, column, instruction_address>>

SkipLine ==
  /\ parsing = "reading"
  /\ fgets
  /\ IgnoredLine
  /\ UNCHANGED <<memory, instructionCount, fileVars, instruction_address, parsing>>

RejectLine ==
  /\ parsing = "reading"
  /\ fgets
  /\ ~ IgnoredLine
  /\ ~ accepted(Tokens)
  /\ UNCHANGED <<memory, instructionCount, fileVars, instruction_address, parsing>>

\* Mutant of IsFull: one word more than instruction memory has.
FullAfterLimit(count) == count > INSTRUCTION_MEMORY_SIZE

IsFull(count) == count >= INSTRUCTION_MEMORY_SIZE

\* Mutant of StoreLine: the address is incremented before the word is stored.
StoreAfterIncrement ==
  /\ parsing = "reading"
  /\ fgets
  /\ ~ IgnoredLine
  /\ accepted(Tokens)
  /\ memory' = memory_store_instruction(memory, instruction_address + 1, encoded(Tokens))
  /\ instruction_address' = instruction_address + 1
  /\ parsing' = IF IsFull(instruction_address + 1) THEN "closing" ELSE "reading"
  /\ UNCHANGED <<instructionCount, fileVars>>

\* The loop ends with the instruction that fills instruction memory.
StoreLine ==
  /\ parsing = "reading"
  /\ fgets
  /\ ~ IgnoredLine
  /\ accepted(Tokens)
  /\ memory' = memory_store_instruction(memory, instruction_address, encoded(Tokens))
  /\ instruction_address' = instruction_address + 1
  /\ parsing' = IF IsFull(instruction_address + 1) THEN "closing" ELSE "reading"
  /\ UNCHANGED <<instructionCount, fileVars>>

EndOfFile ==
  /\ parsing = "reading"
  /\ line > Len(source)
  /\ parsing' = "closing"
  /\ UNCHANGED <<memory, instructionCount, fileVars, line, column, instruction_address>>

Close ==
  /\ parsing = "closing"
  /\ instructionCount' = instruction_address
  /\ parsing' = "done"
  /\ UNCHANGED <<memory, fileVars, line, column, instruction_address>>

\* One call of the parser goes on until it has returned.
Step ==
  \/ Open
  \/ OpenFails
  \/ SkipLine
  \/ RejectLine
  \/ StoreLine
  \/ EndOfFile
  \/ Close

\* The parser is called once.
Returned == parsing = "done" /\ UNCHANGED parserVars

Next == Step \/ Returned

Spec == Init /\ [][Next]_parserVars

=============================================================================
