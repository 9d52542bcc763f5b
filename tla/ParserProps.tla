----------------------------- MODULE ParserProps ---------------------------
(***************************************************************************)
(* The correctness properties of the parser, and the refinement mapping    *)
(* under which it implements the assembler of module Assembler.            *)
(***************************************************************************)
EXTENDS Parser, AssemblyText

\* The words stored so far, decoded as the pipeline will decode them.
Stored ==
  [i \in 1 .. instruction_address |->
     DecodeFields(memory_fetch_instruction(memory, i - 1))]

\* The files that Assembler speaks of: their lines fit the buffer, their numbers an
\* int32_t and a jump address.
InScope ==
  \A i \in DOMAIN source :
    /\ Len(source[i]) < LINE_CELLS
    /\ LET tokens == Written(source[i])
       IN  \A j \in 1 .. Len(tokens) : tokens[j].value \in -HALF_WORD .. ADDR_SPACE - 1

\* Any other file is mapped to an empty one: nothing is claimed about it here.
Assembly == INSTANCE Assembler WITH
  lines   <- IF InScope THEN SubSeq(source, line, Len(source)) ELSE <<>>,
  program <- IF InScope THEN Stored ELSE <<>>,
  count   <- IF InScope THEN instructionCount ELSE 0

\* The type invariant of the parser, with the bounds that keep parser.c inside
\* the file and inside instruction memory.
TypeOK ==
  /\ memory \in [Address -> Int32]
  /\ instructionCount \in 0 .. INSTRUCTION_MEMORY_SIZE
  /\ readable \in BOOLEAN
  /\ source \in Files
  /\ line \in 1 .. Len(source) + 1
  /\ column \in Nat
  /\ line <= Len(source) => column <= Len(source[line])
  /\ instruction_address \in 0 .. INSTRUCTION_MEMORY_SIZE
  /\ parsing \in {"open", "reading", "closing", "done"}

\* What the lines of a file say is what the pipeline will decode, instruction by
\* instruction and field by field, up to the room there is: a rejected line, a
\* comment or a separator too many changes no other instruction, and the count
\* announces exactly what is stored.  For files in scope.
ImplementsAssembler == Assembly!Spec

\* What pipeline_sim.c relies on: the words below the next address are valid
\* instructions, the memory above is as reset left it, and the count set at the
\* end is that of the words.
StoredIsValid ==
  /\ \A i \in 1 .. instruction_address : Stored[i].valid
  /\ \A a \in Address : a >= instruction_address => memory[a] = 0
  /\ parsing = "done" /\ readable => instructionCount = instruction_address

\* When the parser returns, the instructions stored are those written in the file, all
\* of them or as many as there is room for.  For files in scope.
StoresTheFile ==
  parsing = "done" /\ readable /\ InScope => Stored = ProgramOf(source)

\* A step that stores an instruction.
Stores == instruction_address' # instruction_address

\* However large the number on a line, no bit of it reaches another field: opcode
\* and registers are stored as written.
FieldsIsolated ==
  [][Stores =>
       LET fields == Syntax[Tokens[1].kind].fields
       IN  /\ Stored'[instruction_address'].opcode = opcode_from_string(Tokens[1])
           /\ \A i \in 1 .. Len(fields) :
                fields[i] \in {"r1", "r2", "r3"} =>
                  Stored'[instruction_address'][fields[i]] = Tokens[i + 1].value]_parserVars

-----------------------------------------------------------------------------
(* Statements of the repository that the code does not keep.               *)

\* The messages of parser.c say which operands are refused: immediates outside
\* the signed field, shift amounts beyond the word, negative jump addresses.
RangeEnforced ==
  [][Stores =>
       LET last == Tokens[Len(Tokens)]
       IN  last.kind = "number" =>
             immediate_in_range(opcode_from_string(Tokens[1]), last.value)]_parserVars

\* A comment in parser.c says that comments are ignored.
CommentsIgnored ==
  [][Stores => source[line][1].kind # "comment"]_parserVars

=============================================================================
