# A specification of the Fillet-O-Neumann pipeline simulator

This directory holds TLA+ models of the simulator in `src/`, TLC
configurations that check them, and theorems about them checked by TLAPS.

## 1. The system

The program is a single-threaded C simulator of a five stage processor with one
memory for instructions and data. `main.c` resets the CPU, has the parser load
an assembly file into instruction memory, and runs the pipeline engine until the
program has drained. Its concurrency is simulated: five instructions are in
flight, each stage takes its own number of cycles, and the stages act on the
shared registers, memory and PC one after another within a cycle.

| component | state | operations | what makes it correct |
|---|---|---|---|
| pipeline engine, `pipeline_sim.c` | five stage slots (pipeline register, cycles left, completed), cycle counter, the flag that a taken branch is outstanding | per cycle: fetch, hazard evaluation, one tick of WB, MEM, EX, ID, IF, transfer, self check | executes programs as a machine without a pipeline would; program order through stalls and flushes; IF and MEM never meet at the memory port; always gets on; takes the cycles it announces |
| register file and memory, `cpu.c`, accessors of `memory.c` | 32 registers, 2048 words, PC, instruction count | read and write of a register, of a data word; fetch | R0 stays zero; data accesses stay in the data segment |
| instruction words, `opcodes.c`, `opcodes.h` | none | encode, decode, opcode tables | fields come back as they went in |
| parser, `parser.c` | file position, next address | open, one buffer of text to one word, skipped or rejected, close | what is stored is what was written; rejected input does not change what else is run; the count is that of the words stored |
| memory stage functions, `memory.c`, and fetch, `fetch.c`, `cpu.c` | none of their own | load, store, the memory stage on a stage record, fetch at PC | the same effect as the instruction; a failure changes nothing; no access leaves its segment |
| execute functions, `Execute.c` | none | ALU with flags, branch test | the same results as the engine's EX; the file does not compile and nothing calls it |
| main program, `main.c` | none | reset, parse, run | the engine starts on a reset CPU with what was parsed; what is in the file is executed; the program ends |
| dumps, trace | none | output | - |

Interaction is by calls and by the global `cpu`: the parser writes instruction
memory and the instruction count through `memory_store_instruction` and
`cpu_set_instruction_count`, the engine reads and writes the CPU through the
accessors.

What is hard: the order of effects. A branch redirects in EX, a store happens in
MEM, a register is written in WB; an operand is looked for in EX, WB, MEM and the
register file; a load's consumer has to wait in ID; two younger instructions have
to vanish when a branch is taken; the stall decision is made before the stages
tick and used after; the fetch cadence and the stage latencies share one memory
port. Around the engine it is sizes: a line longer than the buffer, a number wider
than an `int32_t`, one instruction more than there is room for, a refused line that
moves the ones after it, an address at a border of the data segment.
`PROJECT.json` lists these hazards at their lines.

## 2. Modules

| module | models | remarks |
|---|---|---|
| `Opcodes` | `opcodes.h`, `opcodes.c`, decoding in `pipeline_sim.c` | the bit layout by two parameters, REGISTER_COUNT and SHAMT_SPACE; the code has 2^5 and 2^13 |
| `Cpu` | registers, memory, int32_t arithmetic | operators on a register file and a memory; memory sizes and C's bit operators are parameters |
| `CInt` | C's `& ^ << >>` | used by the instances only |
| `Isa` | what the engine promises: one whole instruction per step | abstract specification |
| `Pipeline` | the engine, one action per call of the loop body | `Spec`, and `FairSpec` with fairness |
| `PipelineProps` | its properties, refinement mapping to `Isa` | |
| `PipelineTiming` | `Pipeline` with two history variables, for the cycles it takes | `TimedSpec` |
| `PipelineInv`, `PipelineProofs` | the lock step of stages and cycles, and the structural theorems | |
| `RefinementInv`, `RefinementProofs` | why the pipeline computes what `Isa` computes, and the refinement | |
| `TimingInv`, `TimingProofs` | the row of instructions and their turns of MEM, and the timing theorems | |
| `CpuProofs` | lemmas about the operators of `Opcodes` and `Cpu` | |
| `ExecuteUnit` | `Execute.c`, as operators on the stage that the engine has in EX | no state |
| `ExecuteProofs` | its agreement with the engine, proved | |
| `Parser` | `parse_assembly_file` | `Spec` |
| `AssemblyText` | the instruction set as it is written: mnemonics, operands, the instruction that a line means | no words, buffers or int32_t |
| `Assembler` | what the parser promises: every line that is an instruction becomes one | abstract specification |
| `ParserProps` | the parser's properties, refinement mapping to `Assembler` | |
| `ParserProofs` | encoder and decoder are inverse, the parser's invariant, its refinement, what it has stored at the end | |
| `Simulator` | `main`: `Parser` and `Pipeline` on one CPU | `Spec`, `FairSpec` |
| `Interpreter` | what the program promises: the lines of the file are executed one at a time | abstract specification, `Isa` on `AssemblyText` |
| `SimulatorProps` | properties of the whole program | |
| `SimulatorProofs` | the theorems of parser and engine put together, up to the refinement of `Interpreter` | |
| `Storage` | all of `cpu.c`, `memory.c`, `fetch.c` that changes the CPU, with a client that makes any calls in any order | `Spec` |
| `StorageProps`, `StorageProofs` | its properties, and their proofs | |
| `ProgramFamilies`, `MC...` | model-checking instances | |

Dependencies: `Opcodes` <- `Cpu` <- {`Isa`, `Pipeline`, `Parser`, `Storage`,
`AssemblyText`}; `Simulator` instantiates the modules of parser and engine, their proofs
included, over one set of CPU variables.

### The engine: `Pipeline` and `pipeline_sim_run`

| code | model |
|---|---|
| loop test, `cycle += 1`, fetch, `evaluate_id_hazard` | `StartCycle`, or `Finish` when the test fails |
| `tick_slot` of WB, MEM, EX, ID, IF, with the `complete_*_stage` it calls | `TickWB`, `TickMEM`, `TickEX`, `TickID`, `TickIF` |
| `transfer_completed_stages` | `Transfer` |
| `engine.*_stage` | `slot[...]` |
| locals `hazard.stalled`, `fetched_this_cycle`, `mem_active_at_cycle_start` | `stalled`, `fetched`, `mem_active` |
| position in the loop body | `phase` |

- The decoded format and the control signals are functions of the opcode and not
  stored apart; `memoryBusy` is set and cleared within single accessors and only
  a warning reads it, so it is left out, as is all output.
- The cycle bound is `MaxCycles`; the code passes 0, which means INT_MAX.
- Signed overflow of `+ - *`, undefined in C, wraps: the operands are known at run
  time only and the build emits the machine instruction.
- An opcode field outside the table makes an instruction invalid
  in `decode_raw_instruction`. The parser stores encoded words only
  (`StoredIsValid`), so `ProgramsAssumption` demands valid words.
- The initial state is that after `cpu_reset`, `memory_init` and the load of any
  of the given `Programs`. That main really calls the engine in such a state is
  `EngineFindsProgram`.

### The parser: `Parser` and `parse_assembly_file`

| code | model |
|---|---|
| `fopen`, the early return | `Open`, `OpenFails` |
| `fgets` into `line[LINE_BUFFER_SIZE]` | `fgets`, `Buffer`: at most LINE_CELLS cells of a line, the rest with the next call |
| `continue` for blank lines, comments, lines of separators | `SkipLine` |
| `continue` after a message | `RejectLine`, when `accepted` does not hold |
| encode, store, `++instruction_address`, `break` when full | `StoreLine` |
| `fgets` returns NULL | `EndOfFile` |
| `cpu_set_instruction_count`, `fclose` | `Close` |

A line is a sequence of cells, a cell a token with its kind (mnemonic, register,
number, comment, comma, other text) and its number: this is what `strtok`, `strcmp`
and `strtol` tell apart. Numbers are unbounded in the file, saturate at LONG_MAX in
`strtol` and are cut to int32_t where the code casts. A message has no effect on
state, so all the reasons for one are conjuncts of `accepted`.

### The program: `Simulator` and `main`

| code | model |
|---|---|
| `cpu_reset`, `memory_init` | `Reset` |
| `parse_assembly_file` | `Load`, a step of `Parser` |
| call of `pipeline_sim_run` | `StartEngine` |
| its body | `Run`, a step of `Pipeline` |
| return from `main` | `Exit` |

The CPU variables are shared: `Parser` writes `memory` and `instructionCount`,
`Pipeline` reads them and writes `PC`, `registers` and `memory`. Neither assumes the
other: `Simulator` starts at zero-initialised storage and lets them run.

### The storage interface and the execute functions

`Storage` has one action per operation of `cpu.c`, `memory.c` and `fetch.c` that changes
the CPU (`CpuReset`, `MemoryInit`, `SetPC`, `IncrementPC`, `Fetch`,
`SetInstructionCount`, `StoreInstruction`, `WriteRegister`, `LoadToRegister`,
`WriteData`, `StoreFromRegister`, `ExecuteStage`, `ExecuteInput`). `writeRegister` and
`writeMemory` are operators of `Cpu` and no actions: `cpu_write_register` and
`memory_write_data` pass their arguments on to them and report besides whether they were
in range. Nothing in the
repository calls the memory stage functions, so nothing says in which order they
may be called; the client calls in any.

`ExecuteUnit` is compared with the engine on each instruction that completes EX,
with the operands it has there. `Execute.c` uses an enumerator, `ALU_OP_OR`, that
`decode_types.h` does not have; it is taken without that case, so that ORI comes to the
default and is left out of the comparison.

Some operators have a mutant next to them, named and commented as such: a
plausible bug in the code, used to see that a property notices it. No
specification uses them.

## 3. What is checked

| run | instance, programs or files | properties |
|---|---|---|
| `data_hazards` | `MCPipeline`: all programs of length 4 over seven instructions, all of length 3 over sixteen after two MOVI, the empty one; three instructions over sixteen on R1 = -512, a quarter of the smallest number | `ImplementsIsa`, `LoadUseStalls`, `ProgramUnchanged`, `ResultAgrees`, `BranchAgrees`, `OverflowFlagged` |
| `branches` | `MCPipeline`: all of length 4 over nine instructions, five of them branches and jumps | `ImplementsIsa`, `TypeOK`, `RedirectClean`, `InOrder`, `PCInRange`, `PortConflictFree`, `ForwardingUnambiguous` |
| `progress` | `MCPipeline`: all up to length 3 over the same nine | `ForwardDrains`, `RedirectEnds` |
| `timing` | `MCTiming`: all up to length 4 over eight, loads, their uses, branches of every kind; a load before any two of the sixteen | `OnTime`, `StopsAtOnce`, `DrainsInTime`, `TimingInvariant` |
| `invariant` | `MCInvariant`: all up to length 4 over eight instructions of an 8 bit machine with two registers | `IInv`, `RefinementInvariant` |
| `short_lines` | `MCParser`: every mnemonic with every operand list up to three, files up to four lines over ten, numbers of any size, lines cut by the buffer | `ImplementsAssembler`, `StoresTheFile`, `StoredIsValid`, `FieldsIsolated`, `TypeOK` |
| `whole_runs` | `MCSimulator`: files up to three lines over ten, of five instructions where four fit, with loops and long lines; readable or not | `RunsTheFile`, `CompletesTheFile`, `EngineFindsProgram`, `FetchesStored`, `ExecutesStored`, `AlwaysExits` |
| `repository` | `MCRepository`: nineteen of the twenty programs of `input/` | `TestsEndAsIntended` |
| `storage` | `MCStorage`: any calls | `StageExecutesInstruction`, `PathsAgree`, `FetchGivesInstruction`, `FailureIsHarmless`, `InstructionsKept`, `TypeOK` |
| `wide_jump` | `MCPipeline`: three jumps | `JumpTargetLow26`, violated |
| `wide_numbers` | `MCParser`: lines with numbers that a long holds | `RangeEnforced`, violated |
| `long_comment` | `MCParser`: lines cut by the buffer | `CommentsIgnored`, violated |

The sizes of the instances:

| instance | registers | word | immediate | address field | instructions + data | bound |
|---|---|---|---|---|---|---|
| `MCPipeline`, `MCTiming` | 4 | 12 bits | 4 bits | 8 bits | 6 + 2 | 30, 17, 19, 25 cycles |
| `MCInvariant` | 2 | 8 | 2 | 4 | 4 + 2 | 17 cycles |
| `MCParser` | 4 | 14 | 6 | 10 | 3 + 1 | six cells a line, long of 18 bits |
| `MCSimulator` | 4 | 14 | 6 | 10 | 4 + 2 | the same, 19 cycles |
| `MCRepository` | 8 | 28 | 18 | 24 | 1024 + 1024 | sixteen cells, 60 cycles |
| `MCStorage` | 2 | 8 | 2 | 4 | 2 + 2 | |

Why the bounds are enough. *Engine:* at most five instructions are in
flight and at most four of them before WB, so four instructions in a row show
every pair of producer and consumer at every distance at which forwarding, a
stall or a flush can matter. The families contain each kind of producer (ALU,
immediate, load, R0 as destination) and of consumer (either operand, store data,
address, comparison). A fetch takes two cycles; 30 cycles let every straight-line
program of five drain with all its stalls (7 + 2*4 + 2*4 = 23), 17 cycles let a
branching one loop at least twice, and 19 let every program of three that cannot
loop drain (6*3 + 1). Addresses 6 and 7 of data follow instruction addresses 0 to 5
directly, as 1024 follows 1023 in the code, so both sides of the border are hit.
*Parser:* lines do not depend on each other except through the next address, so that
single lines with every operand list, and short files beyond the three instruction
addresses there are, show what one line can do and what it can do to the next. The
numbers lie on both sides of every border: of the immediate, the shift amount, the
address field, the int32_t and the long. Long lines are cut before, in and behind an
instruction. *Storage:* addresses on both sides of every border of the memory,
registers that exist and one that does not, stages kept over other calls.

What the central properties say:

- `ImplementsIsa`. An instruction takes effect in the abstract
  machine when it completes MEM; `ArchRegisters` adds the write that then still waits
  for WB, and `ArchPC` is the oldest instruction that has not taken effect. Every
  step of the engine then is one whole step of `Isa` or leaves it unchanged.
- `OnTime` and `StopsAtOnce`. The cycle in which an instruction completes MEM follows
  from the one before it alone: two cycles later, two more if that is a load and is
  read from, a whole pipeline later if that is a taken branch. Not a cycle earlier or
  later, whatever happened before; and no cycle is added at the end.
- `DrainsInTime`. A program of n instructions whose branches lead forward only is through
  after at most 6n + 1 cycles: six for each, the way of a taken branch and of what follows
  it, and the last write back. Given that many, the engine returns with the pipeline
  empty. The bound of run `timing` is that of four instructions, 25 = 6*4 + 1, so that the
  second half is not empty for any of its programs.
- `RedirectEnds`. A taken branch sets a flag that blocks fetching. Whenever it is set, it is
  cleared and the target, if it lies in the program, has been fetched within two cycles, also
  in programs that loop. Only a wait in the last two cycles before the bound is left out.
- `ImplementsAssembler`. The words stored, decoded, are the instructions of the lines
  read; a line that is none leaves no trace. It speaks of files whose lines fit the
  buffer and whose numbers fit an int32_t and a jump address (`InScope`): for others
  the code does differently, see below, and `StoredIsValid` and `FieldsIsolated` say
  what is kept.
- `StoresTheFile`. The same at the end and for the file as a whole: when the parser
  returns, the words are the instructions of the file (`ProgramOf`), the n-th word that of
  the n-th line that is one. `ImplementsAssembler` says how each step gets there, this is
  what `RunsTheFile` builds on.
- `ExecutesStored`. Whatever has been stored, of files in scope or not, is executed as
  `Isa` does it: this is `ImplementsIsa` without an assumption on what is loaded.
- `RunsTheFile`. End to end: from text through words, pipeline and forwarding to
  the registers, the program does what an interpreter of the lines does.
- `CompletesTheFile`. `RunsTheFile` would hold of a program that gives up half way, or that
  prints before the last write back. This says that at the end of `main` the registers are
  those that the last instruction of the file leaves, or the cycle bound was reached; and a
  bound of 6n + 1 is not reached early unless a branch goes back (19 = 6*3 + 1 in
  `whole_runs`, so all its files of up to three lines that cannot loop end by themselves).
- `PathsAgree`. A load or store by register, by stage record and by stage input
  comes to the same, at every address.

`repository` runs the repository's own programs, with the memory sizes and the
immediates of the code, and compares the registers at the end with those that their
comments and text intend. Words have 28 bits, as TLC computes with 32 bit integers;
`test_shift_edges.asm`, which needs the last four, is left out. `RunsTheFile` is not checked
again there: `FileIsExecuted` proves it for every file in scope, of any size.

Fairness: `FairSpec` of `Pipeline` and of `Simulator` ask weak fairness of `Next`. The
program has one thread and no call in it blocks, so the next step is always made.
`ForwardDrains` is stated for programs that have no backward branch: others
may loop for ever and are stopped by the cycle bound, which is what `AlwaysExits`
rests on for them.

The condition on MEM and the branch wait in `can_fetch_this_cycle` turn out never to
decide anything: fetches are on odd cycles and MEM is busy on even
ones (`PortConflictFree`). Likewise the order in which forwarding asks WB before MEM
would be wrong if both held a producer, and never does (`ForwardingUnambiguous`).

### Disagreements between code and repository

- `input/test_jump_flush.asm:1` says "Jump target is absolute in the low 26 bits";
  the encoder, decoder and branch logic use 28 (`ADDR_MASK`). Run `wide_jump`.
- The messages of `parser.c` say that operands outside their range are refused;
  `parse_immediate` cuts the number to int32_t first, so that `MOVI R1 4294967297`
  stores 1. Run `wide_numbers`.
- `parser.c:142` says that comments are ignored; the rest of a comment longer than
  127 characters is read as a line and may be stored. Run `long_comment`.

Smaller observations, without a run:

- `parser.c:41` says "Supports decimal and 0x-prefixed hex immediates"; base 0 of
  `strtol` also takes `010` for eight.
- The `\r` of a CRLF line end belongs to the last operand, and the instruction is
  refused.
- A number beyond a long is not refused either: `strtol` answers its limit, and `JMP` with
  any number below the smallest long is stored as a jump to 0.
- A jump address of 2^28 or more is masked without a message (`FieldsIsolated` says
  that it reaches no other field).
- `input/test_branch_taken.asm:1` speaks of the MOVI at PC 4, where the flushed
  `MOVI R3` is at PC 3.
- `dump_nonzero_memory_only` is passed along and not looked at.
- A load outside the data segment writes 0 to its register in the engine; the stage
  functions of `memory.c` leave the register and invalidate the stage.
- `memory_store_from_register` with a register that does not exist stores 0 and
  reports success. `cpu_set_instruction_count` takes any count that is not negative.
- `fetchInstruction` answers 0 outside the program, which decodes as `ADD R0 R0 R0`.
- `executeMOVR` with the same base and destination is not idempotent: a stage must
  be executed once.
- `add_overflow` misses the sum of two smallest numbers, which wraps to zero;
  `sub_overflow` misses 0 minus the smallest number. `OverflowFlagged` says that
  these are the only two, and that no flag is raised in vain.
- `Execute.c:77` uses an enumerator that does not exist; `executeALU` means OR by ORI
  where the engine computes XOR.

## 4. What is proved

Every theorem holds for every REGISTER_COUNT of at least 2, every SHAMT_SPACE, the word
width that goes with them, every memory with the instruction segment below the data
segment and addressable by a jump, every set of programs, files or calls, and every cycle
bound. The assumptions are the named ASSUMEs:

| assumption | module | says |
|---|---|---|
| `LayoutAssumption`, `MemoryAssumption`, `WordAssumption` | `Opcodes`, `Cpu` | the sizes fit together as above |
| `BitOperatorsAssumption` | `CpuProofs` | C's bit operators map int32_t to int32_t |
| `ProgramsAssumption`, `MaxCyclesAssumption` | `Pipeline` | the programs are valid words and fit (for the whole program this is a theorem, see below) |
| `ShiftAmountsAssumption` | `ExecuteUnit` | their shifts are shorter than a word, as `validate_shift_amount` demands; `Execute.c` shifts without a test of its own |
| `ParserAssumption`, `FilesAssumption` | `Parser` | there is a buffer and an instruction address, a long holds an int32_t, a shift amount fits its field; a file is a sequence of lines of cells |
| `StorageAssumption` | `Storage` | the arguments have the C types |
| `SimulatorAssumption` | `Simulator` | what `Parser` and `Pipeline` assume |

TLC evaluates all of them; run `invariant` has narrow words because it evaluates
`BitOperatorsAssumption` for every pair of words.

| theorem | says |
|---|---|
| `TypeCorrect`, `Invariance` | `TypeOK` and `IInv` of the pipeline always |
| `PortIsFree`, `ForwardingIsUnambiguous`, `LoadsAreAwaited` | `PortConflictFree`, `ForwardingUnambiguous`, `LoadUseStalls` always |
| `ProgramOrder`, `RedirectIsClean`, `PCStaysInRange` | `InOrder`, `RedirectClean`, `PCInRange` always |
| `ProgramIsUnchanged` | no step changes instruction memory |
| `RefinementInvariance`, `PipelineImplementsIsa` | `RefinementInvariant` always; the pipeline implements `Isa` |
| `ResultsAgree`, `BranchesAgree`, `OverflowsAreFlagged` | `Execute.c` and the engine's EX agree, `ResultAgrees`, `BranchAgrees`, `OverflowFlagged` always |
| `TimingInvariance`, `InstructionsAreOnTime`, `EngineStopsAtOnce` | `TimingInvariant`, `OnTime`, `StopsAtOnce` always |
| `ForwardEndsInTime` | `DrainsInTime` always: programs without backward branches end within 6n + 1 cycles |
| `StorageTypeCorrect`, `StagesExecuteInstructions`, `PathsAgreeAlways`, `FailuresAreHarmless`, `InstructionsAreKept`, `FetchesGiveInstructions` | all properties of the storage interface |
| `ParserInvariance`, `ParserTypeCorrect`, `StoredAlwaysValid`, `FieldsStayApart` | `ParserInvariant`, `TypeOK`, `StoredIsValid`, `FieldsIsolated` |
| `ParserImplementsAssembler`, `FileIsStored` | the parser implements `Assembler` for files in scope, and `StoresTheFile` |
| `SimulatorInvariance`, `EngineAlwaysFindsProgram`, `StoredIsFetched`, `StoredIsExecuted` | `EngineFindsProgram`, `FetchesStored` always, and `ExecutesStored` |
| `FileIsExecuted` | the whole program implements `Interpreter`, `RunsTheFile`, if the file is in scope |
| `FileIsCompleted` | and has come to the end of the file when it returns, `CompletesTheFile`, for the same files |

**Structure.** None of the structural properties is inductive. That MEM is free in odd
cycles follows from EX having been entered at the end of an odd cycle and taking two,
which follows from ID having been entered at the end of an odd cycle, and so on back to
the fetch, through stalls and flushes. `LockStep` in `PipelineInv` says this for each
point of the cycle: `BeforeOdd` and `BeforeEven` between cycles, `DuringOdd` and
`DuringEven` within one, by which ticks are behind. A stall takes two cycles,
because the load leaves EX at the end of the odd one, and so keeps the parity; a flush
only empties slots. `StallCurrent` says that the stall decision still describes
the slots when ID is ticked: only EX ticks in between, and it changes neither the
load nor, since a load takes no branch, the instruction in ID. The proof has one lemma per
action (`TickEXLockStep`, `TransferLockStep`, ...), on top of lemmas about what each
operator returns (`LatchFacts`, `CompleteExFacts`, `TickedFacts`, `MovedFacts`). `InOrder`
and `RedirectClean` are then inductive relative to `IInv`.

**Refinement.** `ImplementsIsa` compares registers, memory and order only when an
instruction takes effect. `RefinementInvariant` says what leads there: every slot before
WB holds the word at its address (`SlotsFetched`); what is latched in ID, EX and MEM is
the decoded word with operands read from the register file *as the instructions ahead
will leave it* (`RegsAfterWB`, `RegsAfterMEM`, `RegsAfterEX`); a load in MEM is not read
by the instruction behind it (`LoadDistance`); and each instruction is followed by its
successor (`Flow`). Forwarding is then a lemma, `ForwardedValue`: what it returns is a
register of `RegsAfterEX`. Where the invariant needs a stage to be free or a stall to have
happened it cites `IInv`. `StepMaps` maps each step: only the tick that completes MEM is a
step of `Isa`.

**Timing.** MEM acts in even cycles. `TimingInvariant` gives each instruction before MEM
its turn there, two cycles for each stage that is left, and says that the row has no gap
but those of a taken branch, a load that is used at once, and the end of the program.
`TimedSpec` is `Spec` with history variables, so the two invariants above are used
in its proof.

`DrainsInTime` counts cycles, so it is a safety property, and needs an invariant on the turns:
`Punctual`. Of a program without backward branches, the instruction at address a has its
turn before a + 1 taken branches would have had theirs (`TurnInTime`), so has the one that
has just left (`LastInTime`), and the loop does not end before its test fails (`LoopTest`).
The step that matters is the one that completes MEM (`CompletionMovesTurn`): the row moves
on to the successor, which lies ahead (`ForwardSuccessor`), and no gap of `Dense` is longer
than one taken branch (`CostBound`). `WorkInTime` ties the loop test to it: while there is
work, some instruction still has its turn to come.

**Execute functions.** The agreement needs `RefinementInvariant`: the branch target
that `Execute.c` carries as an unsigned word comes back as the engine's because the
instruction lies in instruction memory, and the result of an instruction without an ALU
operation is the one that decoding has reset.

**Storage.** Any call may follow any other, so the invariant is `TypeOK` with R0 zero, and
the properties of single calls follow from it by cases on the address.

**Parser.** The lemmas `RDecode`, `IDecode` and `JDecode` say what decoding makes of an
encoded word: every field comes back as far as it fits. `AcceptedIsStored` applies
them to what `accepted` lets through, `AcceptedMeaning` compares the result with
`Instruction` of `AssemblyText`, and `AcceptsInstructions` shows that in scope exactly
the lines that are instructions are accepted. `ParserInvariant` is `TypeOK`,
`StoredIsValid` and `Progress`: there is room while the parser reads, nothing is announced before it
has finished, a file in scope is read in whole lines. In `AssemblyStep` each step stores the
next line's instruction, drops the line, announces the count, or is invisible.

`ProgramOf` names the n-th instruction of a file by its rank, the number of instructions up
to it, rather than by filtering the lines with `SelectSeq`, whose recursion would need
induction over data. `CountGrows` and `RankUnique` say that the rank grows
by one with each instruction and tells any two apart. `Assembled` is the invariant: the
next address is the number of instructions among the lines read (`UpTo`), and each word
is the instruction of its rank. `FileIsStored` is what it says at the end.

**Whole program.** The theorems about parser and pipeline are cited for the two instances
in `Simulator`; `EngineStarts` is the link. What the parser leaves satisfies the engine's
invariants, so that `StoredIsExecuted` needs no assumption on programs. `FetchesStored`
speaks of WB too, which `SlotsFetched` does not, and has `WBFetched` for it.

`FileIsExecuted` joins everything. `FileHolds` carries `Assembled` through the
loading and, from the call of the engine on, says that the words up to the count are the
program (`Words = Program`): the parser's `StoresTheFile` gives it at the call, `WordsStay`
keeps it. `SequentialStep` maps the steps. Until the engine is called nothing shows,
because nothing but instruction memory has been written (`NoDataYet`); a step of the
engine is a step of `Engine!ISA` or invisible (`EngineRefines`), and a step of `Engine!ISA`
on the words is one of `Interpreter` on the instructions (`WordIsInstruction`), which
sees memory through its data part only (`DataView`). The hypothesis is `InScope` of the
given file and nothing else: a file with one long line or one large number is the only
case in which the theorem says nothing, and `ExecutesStored` and `StoredIsValid` hold there.

`FileIsCompleted` cites `Dense` and `Punctual` for the engine that `Simulator` contains
(`EngineInTime`). By `LoopTest` the engine returns for one of two reasons (`ExitComplete`). If no work
is left, `ArchPC` is `PC`, past the program, and `ArchRegisters` are the registers printed, so
that the `Interpreter` has ended. If the bound was reached, `RunningInTime` says what it must have been less than,
once it is known that words without backward branches are what instructions without them
become (`ForwardWords`).

Model-checked only:

- `TestsEndAsIntended`: it is about the given programs of `input/`, which end as their
  comments say, not about every program.
- The liveness properties `ForwardDrains`, `RedirectEnds` and `AlwaysExits`, which are out
  of the prover's reach. What they say of a run that has come to its end is proved as safety: that
  nothing is left in the pipeline then, and after how many cycles at most (`DrainsInTime`), and
  that the file has been executed to its last line (`CompletesTheFile`). What remains for TLC is
  that the next step is always made.
- What the code does with a file out of scope beyond `StoredIsValid`, `FieldsIsolated` and
  `ExecutesStored`; the runs that expect a violation show it.

## 5. Not modelled

Output: the trace of the pipeline, the dumps of registers and memory, messages. They
read the state and change none of it. The self check `validatePipeline` is output, too:
what it looks at has been tested by `can_fetch_this_cycle` or set by `set_slot` in the same
cycle, so a property about it would repeat those; that IF and MEM do not collide is
`PortConflictFree`. `test_shift_edges.asm`, see above. The text of
tokens, below their kinds and numbers. `is_shift_opcode` in `encode_r_type`
decides nothing: the shift amount is masked with or without it.

## 6. Plan

In order of importance. All of them are done.

1. `Opcodes`, `Cpu`, `Isa`, `Pipeline`: the engine against the sequential machine.
2. `PipelineProps`, `MCPipeline`: structure, progress.
3. `CpuProofs`, `PipelineInv`, `PipelineProofs`: types and lock step.
4. `PipelineProofs`: program order, redirect, PC range.
5. `Parser`, `AssemblyText`, `Assembler`: from the lines of the file to words.
6. `Simulator`, `Interpreter`: reset, parse, run against an interpreter of the text;
   the repository's test programs.
7. `PipelineTiming`: cycles, with history variables.
8. `Storage` and `ExecuteUnit`: the rest of `cpu.c` and `memory.c`, and `Execute.c`.
9. `RefinementInv`, `RefinementProofs`: the refinement `Spec => ISA!Spec`, and with it
   `ExecuteProofs`.
10. `StorageProofs`, and `TimingInv`, `TimingProofs`: the storage interface, the timing.
11. `ParserProofs`: encoding and decoding, the parser's invariant and its refinement.
12. `SimulatorProofs`: the engine starts from what its model assumes, and executes it.
13. `FileIsStored` in `ParserProofs` and `FileIsExecuted` in `SimulatorProofs`: end to end,
    the program implements `Interpreter`.
14. `DrainsInTime` and `CompletesTheFile`, with `ForwardEndsInTime` in `TimingProofs` and
    `FileIsCompleted` in `SimulatorProofs`: progress, with a bound on the cycles.
