------------------------------ MODULE MCParser -----------------------------
(***************************************************************************)
(* Model-checking instances of the parser: four registers, shift amounts   *)
(* of four bits, immediates of six (-32 .. 31), jump addresses of ten and  *)
(* words of fourteen, and the families of files that the configurations    *)
(* choose from.                                                            *)
(***************************************************************************)
EXTENDS ParserProps, SequencesExt

C == INSTANCE CInt

MCBitAnd(a, b)     == C!CAnd(a, b, WORD_BITS)
MCBitXor(a, b)     == C!CXor(a, b, WORD_BITS)
MCShiftLeft(a, k)  == C!CShiftLeft(a, k, WORD_BITS)
MCShiftRight(a, k) == C!CShiftRight(a, k, WORD_BITS)

Cell(kind, value) == [kind |-> kind, value |-> value]

M(mnemonic) == Cell(mnemonic, 0)
R(n)        == Cell("register", n)
N(n)        == Cell("number", n)
Comment     == Cell("comment", 0)
Comma       == Cell("comma", 0)
Text        == Cell("text", 0)

-----------------------------------------------------------------------------
(* One line: every mnemonic, and two first tokens that are none, with every *)
(* operand list, legal or not.                                             *)

Heads    == {M(m) : m \in DOMAIN Mnemonic} \cup {Text, R(1)}
Operands == {R(0), R(1), R(3), R(4), R(-1), Text,
             N(-33), N(-32), N(-1), N(0), N(13), N(14), N(31), N(32), N(1023)}

Lines(heads, operands, n) ==
  {<<h>> \o ops : h \in heads, ops \in BoundedSeq(operands, n)}

OneLineFiles ==
  {<<l>> : l \in Lines(Heads, Operands, 3) \cup Lines(Heads, {R(1), N(1), Comment}, 4)}

-----------------------------------------------------------------------------
(* Several lines: what is skipped, refused and stored in any order, also   *)
(* beyond the end of instruction memory.                                   *)

LineKernel ==
  {<<>>, <<Comma, Comma>>, <<Comment, M("JMP"), N(1)>>,
   <<M("MOVI"), R(1), Comma, N(31)>>,
   <<M("ADD"), R(1), R(2), R(3)>>,
   <<M("MOVM"), R(1), R(2), N(-32)>>,
   <<M("JMP"), N(2)>>,
   <<M("MOVI"), R(1), N(32)>>,
   <<M("MOVI"), R(1), N(5), Comment, Text>>,
   <<Text, R(1), N(1)>>}

ShortLineFiles == BoundedSeq(LineKernel, 4) \cup OneLineFiles

-----------------------------------------------------------------------------
(* Numbers of any size, and lines longer than the buffer.                  *)

WideNumbers ==
  {32, -33, 63, 64, 1023, 1024, 8191, 8192, -8192, -8193, 16383, 16384, 16385,
   16384 * 3 + 2, -16384 + 3, 131071, 131072, 200000, -131072, -131073, -200000}

WideLines ==
  {<<M("JMP"), N(v)>> : v \in WideNumbers}
    \cup {<<M("MOVI"), R(3), N(v)>> : v \in WideNumbers}
    \cup {<<M("LSL"), R(3), R(2), N(v)>> : v \in WideNumbers}
    \cup {<<M("JEQ"), R(v), R(1), N(v)>> : v \in WideNumbers \cup {1}}
    \cup {<<M("MOVR"), R(1), R(3), N(v)>> : v \in WideNumbers}

\* Lines cut by a buffer of six cells, at, before and behind an instruction.
LongLines ==
  {SubSeq(<<Comment, Text, Text, Text, Text, Text, Text>>, 1, k)
      \o <<M("MOVI"), R(1), N(7)>> : k \in 1 .. 7}
    \cup {<<M("MOVI"), R(1), N(7), Comma, Comma, Comma>> \o tail :
             tail \in {<<>>, <<Comma>>, <<N(1)>>, <<M("JMP"), N(3)>>}}
    \cup {<<M("ADD"), R(1), Comma, R(2), Comma, R(3), Comma, R(1)>>}

WideFiles == BoundedSeq(WideLines, 1) \cup
  {<<l, k>> : l \in WideLines, k \in LongLines} \cup BoundedSeq(LongLines, 2)

ParserFiles == ShortLineFiles \cup WideFiles

\* Numbers strictly between the limits of a long: strtol gives each as it is written, and
\* only the cut to an int32_t changes it.
WideNumberFiles ==
  {<<l>> : l \in {k \in WideLines : \A i \in 1 .. Len(k) :
                     k[i].kind = "number" => k[i].value \in -LONG_MAX .. LONG_MAX - 1}}
LongLineFiles   == {<<l>> : l \in LongLines}

=============================================================================
