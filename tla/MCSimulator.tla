----------------------------- MODULE MCSimulator ---------------------------
(***************************************************************************)
(* Model-checking instances of the whole program: four registers,          *)
(* immediates of six bits, four instruction addresses and two data words.  *)
(***************************************************************************)
EXTENDS SimulatorProps, SequencesExt

C == INSTANCE CInt

MCBitAnd(a, b)     == C!CAnd(a, b, WORD_BITS)
MCBitXor(a, b)     == C!CXor(a, b, WORD_BITS)
MCShiftLeft(a, k)  == C!CShiftLeft(a, k, WORD_BITS)
MCShiftRight(a, k) == C!CShiftRight(a, k, WORD_BITS)

Cell(kind, value) == [kind |-> kind, value |-> value]

M(mnemonic) == Cell(mnemonic, 0)
R(n)        == Cell("register", n)
N(n)        == Cell("number", n)
Comment     == Cell("comment", 0)
Text        == Cell("text", 0)

\* Two of these lines are no instructions.
LineKernel ==
  {<<M("MOVI"), R(1), N(4)>>,
   <<M("MOVI"), R(2), N(32)>>,
   <<Comment, M("MOVI"), R(1), N(1)>>,
   <<M("XORI"), R(2), R(1), N(-3)>>,
   <<M("MOVM"), R(1), R(1), N(1)>>,
   <<M("MOVR"), R(2), R(1), N(1)>>,
   <<M("SUB"), R(1), R(1), R(2)>>,
   <<M("JEQ"), R(2), R(0), N(1)>>,
   <<M("JEQ"), R(1), R(1), N(-2)>>,
   <<M("JMP"), N(2)>>}

\* Files with one instruction more than there is room for.
LongKernel ==
  {<<M("MOVI"), R(1), N(4)>>,
   <<M("MOVM"), R(1), R(1), N(0)>>,
   <<M("JMP"), N(3)>>}

SmallFiles == BoundedSeq(LineKernel, 3) \cup SeqOf(LongKernel, 5)

\* Loops, refused lines, and a line longer than the buffer.
LoopFiles ==
  BoundedSeq({<<M("MOVI"), R(1), N(4)>>,
              <<M("JEQ"), R(1), R(1), N(-2)>>,
              <<M("JMP"), N(0)>>,
              <<Text, R(1)>>,
              [i \in 1 .. 14 |-> Text]}, 3)

WholeFiles == SmallFiles \cup LoopFiles

=============================================================================
