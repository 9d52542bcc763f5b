------------------------------- MODULE Storage -----------------------------
(***************************************************************************)
(* The whole interface of cpu.c, memory.c and fetch.c to the global cpu.   *)
(* The engine and the parser use a part of it; the rest, the memory stage  *)
(* functions among it, is offered to callers that the repository does not  *)
(* have any more.  Here a client makes any of the calls in any order.      *)
(*                                                                         *)
(* A stage is the part of a PipelineRegister that memory.c works on.  An   *)
(* address is a uint32_t, a register index a uint8_t.                      *)
(***************************************************************************)
EXTENDS Cpu

CONSTANTS
  Words,      \* the instruction words that the client stores
  Values,     \* the values it writes
  PCs,        \* the values PC is set or counted to
  Counts,     \* the instruction counts it sets
  Addresses,  \* the addresses it names
  Indices     \* the register indices it names

ASSUME StorageAssumption ==
  /\ Words \subseteq RawWord
  /\ Values \subseteq Int32
  /\ PCs \subseteq RawWord
  /\ Counts \subseteq Int32
  /\ Addresses \subseteq RawWord
  /\ Indices \subseteq Nat

VARIABLES
  PC, registers, memory, instructionCount,
  stage,      \* the pipeline register that the client works with
  success     \* whether the last call reported success

storageVars == <<PC, registers, memory, instructionCount, stage, success>>

-----------------------------------------------------------------------------
(* The functions that return something.                                    *)

memory_read_data(a) ==
  [success |-> is_data_address(ToInt32(a)), value |-> readMemory(memory, ToInt32(a))]

cpu_write_register(r, value) ==
  [success |-> r < REGISTER_COUNT, registers |-> writeRegister(registers, r, value)]

\* Mutant of memory_load_to_register: the result of the read is not looked at.
LoadWhateverIsRead(r, a) == cpu_write_register(r, memory_read_data(a).value)

memory_load_to_register(r, a) ==
  IF memory_read_data(a).success
    THEN cpu_write_register(r, memory_read_data(a).value)
    ELSE [success |-> FALSE, registers |-> registers]

memory_write_data(a, value) ==
  [success |-> is_data_address(ToInt32(a)),
   memory  |-> writeMemory(memory, ToInt32(a), value)]

\* A register that does not exist is stored as zero, with success.
memory_store_from_register(r, a) == memory_write_data(a, readRegister(registers, r))

\* Mutant of fetchInstruction: the whole memory bounds PC.
FetchBelowCount ==
  IF PC >= ToUint32(instructionCount) \/ PC >= MEMORY_SIZE
    THEN [raw |-> 0, pc |-> PC]
    ELSE [raw |-> ToUint32(memory[PC]), pc |-> ToUint32(PC + 1)]

fetchInstruction ==
  IF PC >= ToUint32(instructionCount) \/ ~ is_instruction_address(ToInt32(PC))
    THEN [raw |-> 0, pc |-> PC]
    ELSE [raw |-> ToUint32(memory[PC]), pc |-> ToUint32(PC + 1)]

\* memory_execute_stage: what goes in, and what comes out of it.
StageInput(access, a, data, value, r, write) ==
  [access |-> access, address |-> a, write_data |-> data, passthrough_value |-> value,
   destination_register |-> r, register_write |-> write]

memory_execute_stage(input) ==
  LET read    == memory_read_data(input.address)
      written == memory_write_data(input.address, input.write_data)
      Output(ok, value, write, mem) ==
        [success |-> ok, write_back_value |-> value, register_write |-> write,
         destination_register |-> input.destination_register, memory |-> mem]
  IN  CASE input.access = "none"  ->
             Output(TRUE, input.passthrough_value, input.register_write, memory)
        [] input.access = "load"  ->
             Output(read.success, read.value, read.success /\ input.register_write, memory)
        [] input.access = "store" ->
             Output(written.success, input.passthrough_value, FALSE, written.memory)
        [] OTHER -> Output(FALSE, input.passthrough_value, FALSE, memory)

-----------------------------------------------------------------------------
(* The memory stage on a pipeline register.                                *)

Decode(raw) ==
  LET d == DecodeFields(raw)
  IN  [valid |-> d.valid, opcode |-> d.opcode, r1 |-> d.r1, r2 |-> d.r2,
       immediate |-> d.immediate, address |-> d.address, memoryData |-> 0]

effective_address(s) == ToInt32(readRegister(registers, s.r2) + s.immediate)

\* An access outside the data segment invalidates the stage.
Addressed(s) ==
  [s EXCEPT !.address = effective_address(s),
            !.valid   = is_data_address(effective_address(s))]

\* Mutant of executeMOVR: a load from outside the data segment is carried out.
ExecuteMOVRUnchecked(s) ==
  LET value == readMemory(memory, effective_address(s))
  IN  [stage     |-> [Addressed(s) EXCEPT !.memoryData = value],
       registers |-> writeRegister(registers, s.r1, value),
       memory    |-> memory]

executeMOVR(s) ==
  LET value == readMemory(memory, effective_address(s))
  IN  IF Addressed(s).valid
        THEN [stage     |-> [Addressed(s) EXCEPT !.memoryData = value],
              registers |-> writeRegister(registers, s.r1, value),
              memory    |-> memory]
        ELSE [stage |-> Addressed(s), registers |-> registers, memory |-> memory]

executeMOVM(s) ==
  LET value == readRegister(registers, s.r1)
  IN  [stage     |-> [Addressed(s) EXCEPT !.memoryData = value],
       registers |-> registers,
       memory    |-> writeMemory(memory, effective_address(s), value)]

executeMemoryStage(s) ==
  CASE s.opcode = OPCODE_MOVR -> executeMOVR(s)
    [] s.opcode = OPCODE_MOVM -> executeMOVM(s)
    [] OTHER -> [stage |-> s, registers |-> registers, memory |-> memory]

-----------------------------------------------------------------------------
(* The client.                                                             *)

Init ==
  /\ PC = 0
  /\ registers = [r \in Register |-> 0]
  /\ memory = [a \in Address |-> 0]
  /\ instructionCount = 0
  /\ stage = Decode(0)
  /\ success = TRUE

\* A call that can only succeed, or returns nothing.
Done == success' = TRUE

CpuReset ==
  /\ PC' = 0
  /\ registers' = [r \in Register |-> 0]
  /\ memory' = [a \in Address |-> 0]
  /\ instructionCount' = 0
  /\ UNCHANGED stage
  /\ Done

MemoryInit ==
  /\ memory' = [a \in Address |-> 0]
  /\ UNCHANGED <<PC, registers, instructionCount, stage>>
  /\ Done

SetPC(value) ==
  /\ PC' = value
  /\ UNCHANGED <<registers, memory, instructionCount, stage>>
  /\ Done

\* The client stops counting where PCs ends.
IncrementPC ==
  /\ ToUint32(PC + 1) \in PCs
  /\ PC' = ToUint32(PC + 1)
  /\ UNCHANGED <<registers, memory, instructionCount, stage>>
  /\ Done

\* fetch_instruction; its caller decodes what it gets.
Fetch ==
  /\ fetchInstruction.pc \in PCs
  /\ PC' = fetchInstruction.pc
  /\ stage' = Decode(fetchInstruction.raw)
  /\ UNCHANGED <<registers, memory, instructionCount>>
  /\ Done

SetInstructionCount(count) ==
  /\ instructionCount' = IF count < 0 THEN 0 ELSE count
  /\ UNCHANGED <<PC, registers, memory, stage>>
  /\ Done

StoreInstruction(a, word) ==
  /\ memory' = memory_store_instruction(memory, ToInt32(a), word)
  /\ success' = is_instruction_address(ToInt32(a))
  /\ UNCHANGED <<PC, registers, instructionCount, stage>>

WriteRegister(r, value) ==
  /\ registers' = cpu_write_register(r, value).registers
  /\ success' = cpu_write_register(r, value).success
  /\ UNCHANGED <<PC, memory, instructionCount, stage>>

LoadToRegister(r, a) ==
  /\ registers' = memory_load_to_register(r, a).registers
  /\ success' = memory_load_to_register(r, a).success
  /\ UNCHANGED <<PC, memory, instructionCount, stage>>

WriteData(a, value) ==
  /\ memory' = memory_write_data(a, value).memory
  /\ success' = memory_write_data(a, value).success
  /\ UNCHANGED <<PC, registers, instructionCount, stage>>

StoreFromRegister(r, a) ==
  /\ memory' = memory_store_from_register(r, a).memory
  /\ success' = memory_store_from_register(r, a).success
  /\ UNCHANGED <<PC, registers, instructionCount, stage>>

\* executeMemoryStage, or one of the functions it calls: those have wrappers of
\* their own and do not look at the opcode.
ExecuteStage ==
  /\ stage.valid
  /\ \E result \in {executeMemoryStage(stage), executeMOVR(stage), executeMOVM(stage)} :
       /\ stage' = result.stage
       /\ registers' = result.registers
       /\ memory' = result.memory
       /\ success' = result.stage.valid
  /\ UNCHANGED <<PC, instructionCount>>

\* memory_execute_stage, with the write back that its output asks for.
ExecuteInput(input) ==
  LET output == memory_execute_stage(input)
  IN  /\ memory' = output.memory
      /\ registers' =
           IF output.register_write
             THEN cpu_write_register(output.destination_register,
                                     output.write_back_value).registers
             ELSE registers
      /\ success' = output.success
      /\ UNCHANGED <<PC, instructionCount, stage>>

Next ==
  \/ CpuReset \/ MemoryInit \/ IncrementPC \/ Fetch \/ ExecuteStage
  \/ \E value \in PCs : SetPC(value)
  \/ \E count \in Counts : SetInstructionCount(count)
  \/ \E a \in Addresses, word \in Words : StoreInstruction(a, word)
  \/ \E r \in Indices, value \in Values : WriteRegister(r, value)
  \/ \E r \in Indices, a \in Addresses : LoadToRegister(r, a)
  \/ \E r \in Indices, a \in Addresses : StoreFromRegister(r, a)
  \/ \E a \in Addresses, value \in Values : WriteData(a, value)
  \/ \E access \in {"none", "load", "store", "unknown"}, a \in Addresses, r \in Indices,
        data \in Values, write \in BOOLEAN :
       ExecuteInput(StageInput(access, a, data, data, r, write))

Spec == Init /\ [][Next]_storageVars

=============================================================================
