---------------------------- MODULE ExecuteUnit ----------------------------
(***************************************************************************)
(* Execute.c, an execute stage with flags that the engine does not use.    *)
(* As it stands the file does not compile: it has a case for ALU_OP_OR,    *)
(* which decode_types.h does not have.  It is taken without that case, so  *)
(* that the operation of ORI, ALU_OP_XOR, comes to the default.            *)
(*                                                                         *)
(* It is compared with the engine on the instructions that reach EX there, *)
(* with the operands they have latched.                                    *)
(***************************************************************************)
EXTENDS PipelineProps

\* Execute.c does not look at a shift amount, and C leaves a shift by WORD_BITS or
\* more undefined.  The parser refuses one (validate_shift_amount).
ASSUME ShiftAmountsAssumption ==
  \A program \in Programs : \A a \in 1 .. Len(program) :
    LET d == DecodeFields(program[a])
    IN  d.opcode \in {OPCODE_LSL, OPCODE_LSR} => ShiftInRange(d.shamt)

opcode_alu_operation(opcode) ==
  CASE opcode = OPCODE_ADD  -> "ADD"
    [] opcode = OPCODE_SUB  -> "SUB"
    [] opcode = OPCODE_MUL  -> "MUL"
    [] opcode = OPCODE_AND  -> "AND"
    [] opcode = OPCODE_ORI  -> "XOR"
    [] opcode = OPCODE_LSL  -> "SHIFT_LEFT"
    [] opcode = OPCODE_LSR  -> "SHIFT_RIGHT"
    [] opcode = OPCODE_MOVI -> "PASS_B"
    [] OTHER                -> "NONE"

\* The result of executeALU.
alu_result(operation, a, b, shamt) ==
  CASE operation = "ADD"         -> ToInt32(a + b)
    [] operation = "SUB"         -> ToInt32(a - b)
    [] operation = "MUL"         -> ToInt32(a * b)
    [] operation = "AND"         -> BitAnd(a, b)
    [] operation = "SHIFT_LEFT"  -> ShiftLeft(a, shamt)
    [] operation = "SHIFT_RIGHT" -> ShiftRight(a, shamt)
    [] operation = "PASS_B"      -> b
    [] OTHER                     -> 0

add_overflow(a, b, result) ==
  \/ a > 0 /\ b > 0 /\ result < 0
  \/ a < 0 /\ b < 0 /\ result > 0

\* Mutant of sub_overflow: the sign of the second operand as for a sum.
SubOverflowAsAdd(a, b, result) ==
  \/ a > 0 /\ b > 0 /\ result < 0
  \/ a < 0 /\ b < 0 /\ result > 0

sub_overflow(a, b, result) ==
  \/ a > 0 /\ b < 0 /\ result < 0
  \/ a < 0 /\ b > 0 /\ result > 0

executeALU(operation, a, b, shamt) ==
  LET result == alu_result(operation, a, b, shamt)
  IN  [result   |-> result,
       zero     |-> result = 0,
       negative |-> result < 0,
       carry    |-> operation = "ADD" /\ ToUint32(a) + ToUint32(b) > WORD_SPACE - 1,
       overflow |-> \/ operation = "ADD" /\ add_overflow(a, b, result)
                    \/ operation = "SUB" /\ sub_overflow(a, b, result)]

\* The flags and the result for the instruction in a stage.
Alu(reg) == executeALU(opcode_alu_operation(reg.opcode), reg.operand1, reg.operand2, reg.shamt)

\* Mutant of executeStage: the offset of an address is left out.
AddressWithoutOffset(reg) ==
  IF reg.opcode \in {OPCODE_MOVR, OPCODE_MOVM}
    THEN [reg EXCEPT !.aluResult = Alu(reg).result,
                     !.address = reg.operand1,
                     !.memoryData = reg.operand2]
    ELSE [reg EXCEPT !.aluResult = Alu(reg).result]

executeStage(reg) ==
  IF reg.opcode \in {OPCODE_MOVR, OPCODE_MOVM}
    THEN [reg EXCEPT !.aluResult = Alu(reg).result,
                     !.address = ToInt32(reg.operand1 + reg.immediate),
                     !.memoryData = reg.operand2]
    ELSE [reg EXCEPT !.aluResult = Alu(reg).result]

\* Whether evaluateBranch says that a branch is taken.
evaluateBranch(reg) ==
  \/ reg.opcode = OPCODE_JEQ /\ reg.operand1 = reg.operand2
  \/ reg.opcode = OPCODE_JMP

\* Mutant of targetPC: the branch is relative to its own address.
TargetFromItself(reg) ==
  IF reg.opcode = OPCODE_JEQ THEN ToUint32(reg.pc + reg.immediate) ELSE jump_target(reg)

\* The target, as an unsigned word that no bound is applied to.
targetPC(reg) ==
  IF reg.opcode = OPCODE_JEQ THEN ToUint32(reg.pc + 1 + reg.immediate) ELSE jump_target(reg)

-----------------------------------------------------------------------------

\* The instruction that completes EX in this tick.
InEX        == slot["EX"].reg
CompletesEX == phase = "EX" /\ Completes("EX")

\* On every instruction that reaches EX executeStage does what the engine does,
\* but for ORI: the same result and address, and nothing else touched.  For
\* instructions without an ALU operation this needs that the result is still zero.
ResultAgrees ==
  CompletesEX /\ InEX.opcode # OPCODE_ORI => executeStage(InEX) = complete_ex_stage(InEX)

\* A branch goes the same way: the engine takes exactly those that evaluateBranch
\* takes with a target, as an unsigned word, inside instruction memory; a target
\* below zero does not come out inside by wrapping round.
BranchAgrees ==
  CompletesEX =>
    /\ branch_taken(InEX) <=>
         evaluateBranch(InEX) /\ is_instruction_address(ToInt32(targetPC(InEX)))
    /\ branch_taken(InEX) => targetPC(InEX) = branch_target(InEX)

\* What the operation gives without wrapping.
TrueResult(reg) ==
  IF reg.opcode = OPCODE_ADD THEN reg.operand1 + reg.operand2
                             ELSE reg.operand1 - reg.operand2

\* The two overflows that the signs do not show.
EscapesNotice(reg) ==
  /\ reg.operand2 = -HALF_WORD
  /\ reg.operand1 = (IF reg.opcode = OPCODE_ADD THEN -HALF_WORD ELSE 0)

\* No flag is raised in vain: where a sum or a difference is said to overflow, its
\* true value is no int32_t, and the sign is that of the wrapped result.  And none is
\* missing where the true value is no int32_t, but for the sum of two smallest numbers
\* and for zero less the smallest number.
OverflowFlagged ==
  CompletesEX /\ InEX.opcode \in {OPCODE_ADD, OPCODE_SUB} =>
    /\ Alu(InEX).overflow =>
         TrueResult(InEX) \notin Int32 /\ (Alu(InEX).negative <=> TrueResult(InEX) > 0)
    /\ ~ Alu(InEX).overflow => TrueResult(InEX) \in Int32 \/ EscapesNotice(InEX)

=============================================================================
