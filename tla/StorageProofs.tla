---------------------------- MODULE StorageProofs --------------------------
(***************************************************************************)
(* Proofs about the storage interface: any calls of cpu.c, memory.c and    *)
(* fetch.c in any order, for every layout, memory and set of arguments     *)
(* that the C types admit.                                                 *)
(***************************************************************************)
EXTENDS StorageProps, CpuProofs

-----------------------------------------------------------------------------
(* What the functions return.                                              *)

\* An address named by the client becomes an integer in the cast to int.
LEMMA AddressType ==
  ASSUME NEW a \in RawWord PROVE ToInt32(a) \in Int32 /\ ToInt32(a) \in Int
  BY UnitsPositive, ToInt32Type, Int32Facts DEF RawWord

\* R0 holds zero whatever is written to whatever register.
LEMMA ZeroKept ==
  ASSUME NEW regs \in [Register -> Int32], regs[0] = 0, NEW r, NEW value
  PROVE  writeRegister(regs, r, value)[0] = 0
  BY LayoutAssumption DEF writeRegister, Register

\* Decoding a word gives a stage.
LEMMA DecodeType == ASSUME NEW raw \in RawWord PROVE Decode(raw) \in StageRegister
<1> DEFINE d == DecodeFields(raw)
<1>1. d \in DecodedFields
  BY DecodeFieldsType
<1> HIDE DEF d
<1>2. /\ d.valid \in BOOLEAN /\ d.opcode \in OpcodeField /\ d.r1 \in Register
      /\ d.r2 \in Register /\ d.immediate \in Int32 /\ d.address \in Int32
  BY <1>1 DEF DecodedFields
<1> QED
  BY <1>2, Int32Facts DEF Decode, StageRegister, d

\* What the cast makes of an address: the upper half of the words is negative.
LEMMA WordAsInt ==
  ASSUME NEW a \in RawWord
  PROVE  ToInt32(a) = IF a < HALF_WORD THEN a ELSE a - WORD_SPACE
<1>1. ASSUME NEW h \in Nat \ {0}, NEW x \in 0 .. 2 * h - 1
      PROVE  ((x + h) % (2 * h)) - h = IF x < h THEN x ELSE x - 2 * h
  OBVIOUS
<1> QED
  BY <1>1, UnitsPositive DEF ToInt32, RawWord, WORD_SPACE

\* So an address that the bounds accept is the one the client named.
LEMMA AddressKept ==
  ASSUME NEW a \in RawWord
  PROVE  /\ is_instruction_address(ToInt32(a)) => ToInt32(a) = a /\ a \in InstructionAddress
         /\ is_data_address(ToInt32(a)) => ToInt32(a) = a /\ a \in DataAddress
<1>1. WORD_SPACE = 2 * HALF_WORD /\ HALF_WORD \in Nat /\ a \in 0 .. WORD_SPACE - 1
  BY UnitsPositive DEF WORD_SPACE, RawWord
<1> QED
  BY <1>1, WordAsInt, MemoryAssumption
     DEF is_instruction_address, is_data_address, InstructionAddress, DataAddress

\* A fetch gives the instruction at PC and goes on, or stays and gives zero.
LEMMA FetchInstructionFacts ==
  ASSUME TypeOK
  PROVE  \/ /\ fetchInstruction = [raw |-> 0, pc |-> PC]
         \/ /\ PC < instructionCount
            /\ PC \in InstructionAddress
            /\ fetchInstruction = [raw |-> memory_fetch_instruction(memory, PC), pc |-> PC + 1]
<1>1. PC \in RawWord /\ instructionCount \in 0 .. HALF_WORD - 1
  BY DEF TypeOK
<1>2. ToUint32(instructionCount) = instructionCount
  BY <1>1, SmallWord
<1> SUFFICES ASSUME PC < instructionCount, is_instruction_address(ToInt32(PC))
             PROVE  /\ PC \in InstructionAddress
                    /\ fetchInstruction
                         = [raw |-> memory_fetch_instruction(memory, PC), pc |-> PC + 1]
  BY <1>1, <1>2, UnitsPositive DEF fetchInstruction, RawWord
<1>3. PC \in InstructionAddress
  BY <1>1, AddressKept
<1>4. is_instruction_address(PC)
  BY <1>3, MemoryAssumption DEF InstructionAddress, is_instruction_address
<1>5. ToUint32(PC + 1) = PC + 1
  BY <1>1, <1>3, MemoryAssumption, UnitsPositive, SmallWord DEF InstructionAddress
<1>6. ~ (PC >= ToUint32(instructionCount))
  BY <1>1, <1>2, UnitsPositive DEF RawWord
<1> QED
  BY <1>3, <1>4, <1>5, <1>6 DEF fetchInstruction, memory_fetch_instruction

\* A fetch gives a word.
LEMMA FetchedWord == ASSUME TypeOK PROVE fetchInstruction.raw \in RawWord
<1>1. PC \in Int /\ 0 \in RawWord
  BY UnitsPositive DEF TypeOK, RawWord
<1>2. memory_fetch_instruction(memory, PC) \in RawWord
  BY <1>1, FetchType DEF TypeOK
<1> QED
  BY <1>1, <1>2, FetchInstructionFacts

\* A store of an instruction keeps memory well-typed.
LEMMA StoreInstructionType ==
  ASSUME NEW mem \in [Address -> Int32], NEW a, NEW word \in RawWord
  PROVE  memory_store_instruction(mem, a, word) \in [Address -> Int32]
  BY AddressType DEF memory_store_instruction

\* What a stage finds in registers and memory.
LEMMA StageReads ==
  ASSUME TypeOK, NEW s \in StageRegister
  PROVE  /\ effective_address(s) \in Int32 /\ effective_address(s) \in Int
         /\ readMemory(memory, effective_address(s)) \in Int32
         /\ readRegister(registers, s.r1) \in Int32
         /\ s.r1 \in Register
<1>1. s.immediate \in Int /\ readRegister(registers, s.r2) \in Int
  BY ReadRegisterType, Int32Facts DEF TypeOK, StageRegister
<1>2. readRegister(registers, s.r2) + s.immediate \in Int
  BY <1>1
<1>3. effective_address(s) \in Int32
  BY <1>2, ToInt32Type DEF effective_address
<1>4. effective_address(s) \in Int
  BY <1>3, Int32Facts
<1> QED
  BY <1>3, <1>4, ReadRegisterType, ReadMemoryType DEF TypeOK, StageRegister

\* What the memory stage makes of a stage, of the registers and of memory.  A stage
\* it leaves invalid has changed neither.
LEMMA ExecuteFacts ==
  ASSUME TypeOK, NEW s \in StageRegister, s.valid,
         NEW result \in {executeMemoryStage(s), executeMOVR(s), executeMOVM(s)}
  PROVE  /\ result.stage \in StageRegister
         /\ result.registers \in [Register -> Int32] /\ result.registers[0] = 0
         /\ result.memory \in [Address -> Int32]
         /\ \A a \in InstructionAddress : result.memory[a] = memory[a]
         /\ ~ result.stage.valid => result.registers = registers /\ result.memory = memory
<1> DEFINE value == readMemory(memory, effective_address(s))
           data  == readRegister(registers, s.r1)
           ok    == is_data_address(effective_address(s))
<1>1. /\ effective_address(s) \in Int32 /\ effective_address(s) \in Int
      /\ value \in Int32 /\ data \in Int32
  BY StageReads
<1>2. Addressed(s) \in StageRegister /\ Addressed(s).valid = ok
  BY <1>1 DEF Addressed, StageRegister, is_data_address
<1>3. /\ writeRegister(registers, s.r1, value) \in [Register -> Int32]
      /\ writeRegister(registers, s.r1, value)[0] = 0
  BY <1>1, WriteRegisterType, ZeroKept DEF TypeOK
<1>4. /\ writeMemory(memory, effective_address(s), data) \in [Address -> Int32]
      /\ \A a \in InstructionAddress :
           writeMemory(memory, effective_address(s), data)[a] = memory[a]
  BY <1>1, WriteMemoryType DEF TypeOK, InstructionAddress
<1>5. ~ ok => writeMemory(memory, effective_address(s), data) = memory
  BY DEF writeMemory
<1>6. /\ registers \in [Register -> Int32] /\ registers[0] = 0 /\ memory \in [Address -> Int32]
  BY DEF TypeOK
<1> HIDE DEF value, data, ok
<1>7. CASE result = executeMOVR(s)
  <2>1. [Addressed(s) EXCEPT !.memoryData = value] \in StageRegister
    BY <1>1, <1>2 DEF StageRegister
  <2>2. [Addressed(s) EXCEPT !.memoryData = value].valid = Addressed(s).valid
    BY <1>2 DEF StageRegister
  <2> QED
    BY <1>2, <1>3, <1>6, <1>7, <2>1, <2>2 DEF executeMOVR, value
<1>8. CASE result = executeMOVM(s)
  <2>1. [Addressed(s) EXCEPT !.memoryData = data] \in StageRegister
    BY <1>1, <1>2 DEF StageRegister
  <2>2. [Addressed(s) EXCEPT !.memoryData = data].valid = Addressed(s).valid
    BY <1>2 DEF StageRegister
  <2> QED
    BY <1>2, <1>4, <1>5, <1>6, <1>8, <2>1, <2>2 DEF executeMOVM, data
<1>9. CASE result = [stage |-> s, registers |-> registers, memory |-> memory]
  BY <1>6, <1>9
<1> QED
  BY <1>7, <1>8, <1>9 DEF executeMemoryStage

\* The same of memory_execute_stage and the write back it asks for.
LEMMA ExecuteInputFacts ==
  ASSUME TypeOK, NEW input, input.address \in RawWord, input.write_data \in Int32,
         input.passthrough_value \in Int32
  PROVE  LET output == memory_execute_stage(input)
         IN  /\ output.memory \in [Address -> Int32]
             /\ \A i \in InstructionAddress : output.memory[i] = memory[i]
             /\ output.write_back_value \in Int32
             /\ output.destination_register = input.destination_register
             /\ output.success \in BOOLEAN
             /\ ~ output.success => ~ output.register_write /\ output.memory = memory
<1> DEFINE a       == input.address
           data    == input.write_data
           value   == input.passthrough_value
           r       == input.destination_register
           write   == input.register_write
           access  == input.access
           output  == memory_execute_stage(input)
           read    == memory_read_data(a)
           written == memory_write_data(a, data)
<1>1. ToInt32(a) \in Int
  BY AddressType
<1>2. read.value \in Int32 /\ read.success \in BOOLEAN
  BY <1>1, ReadMemoryType DEF memory_read_data, TypeOK, is_data_address
<1>3. /\ written.memory \in [Address -> Int32]
      /\ \A i \in InstructionAddress : written.memory[i] = memory[i]
      /\ written.success \in BOOLEAN
      /\ ~ written.success => written.memory = memory
  <2>1. written.memory = writeMemory(memory, ToInt32(a), data)
        /\ written.success = is_data_address(ToInt32(a))
    BY DEF memory_write_data
  <2>2. /\ writeMemory(memory, ToInt32(a), data) \in [Address -> Int32]
        /\ \A i \in InstructionAddress : writeMemory(memory, ToInt32(a), data)[i] = memory[i]
    BY <1>1, WriteMemoryType DEF TypeOK, InstructionAddress
  <2>3. ~ is_data_address(ToInt32(a)) => writeMemory(memory, ToInt32(a), data) = memory
    BY DEF writeMemory
  <2>4. is_data_address(ToInt32(a)) \in BOOLEAN
    BY DEF is_data_address
  <2> QED
    BY <2>1, <2>2, <2>3, <2>4
<1>4. memory \in [Address -> Int32]
  BY DEF TypeOK
<1> SUFFICES /\ output.memory \in [Address -> Int32]
             /\ \A i \in InstructionAddress : output.memory[i] = memory[i]
             /\ output.write_back_value \in Int32
             /\ output.destination_register = r
             /\ output.success \in BOOLEAN
             /\ ~ output.success => ~ output.register_write /\ output.memory = memory
  OBVIOUS
<1> HIDE DEF read, written
<1>5. CASE access = "none"
  <2>1. output = [success |-> TRUE, write_back_value |-> value, register_write |-> write,
                  destination_register |-> r, memory |-> memory]
    BY <1>5 DEF memory_execute_stage
  <2> QED
    BY <1>4, <2>1
<1>6. CASE access = "load"
  <2>1. output = [success |-> read.success, write_back_value |-> read.value,
                  register_write |-> read.success /\ write,
                  destination_register |-> r, memory |-> memory]
    BY <1>6 DEF memory_execute_stage, read
  <2> HIDE DEF output
  <2> QED
    BY <1>2, <1>4, <2>1
<1>7. CASE access = "store"
  <2>1. output = [success |-> written.success, write_back_value |-> value,
                  register_write |-> FALSE,
                  destination_register |-> r, memory |-> written.memory]
    BY <1>7 DEF memory_execute_stage, written
  <2> HIDE DEF output
  <2> QED
    BY <1>3, <2>1
<1>8. CASE access \notin {"none", "load", "store"}
  <2>1. output = [success |-> FALSE, write_back_value |-> value, register_write |-> FALSE,
                  destination_register |-> r, memory |-> memory]
    BY <1>8 DEF memory_execute_stage
  <2> QED
    BY <1>4, <2>1
<1> QED
  BY <1>5, <1>6, <1>7, <1>8

-----------------------------------------------------------------------------
(* The type invariant.                                                     *)

\* The interface starts well-typed.
LEMMA InitType == Init => TypeOK
<1> SUFFICES ASSUME Init PROVE TypeOK
  OBVIOUS
<1>1. 0 \in RawWord /\ 0 \in Int32 /\ 0 \in Register /\ 0 \in 0 .. HALF_WORD - 1
  BY UnitsPositive, LayoutAssumption DEF RawWord, Int32, Register
<1>2. Decode(0) \in StageRegister
  BY <1>1, DecodeType
<1> QED
  BY <1>1, <1>2 DEF Init, TypeOK

\* Every call keeps it so.
LEMMA NextType == TypeOK /\ [Next]_storageVars => TypeOK'
<1> SUFFICES ASSUME TypeOK, [Next]_storageVars PROVE TypeOK'
  OBVIOUS
<1>0. 0 \in RawWord /\ 0 \in Int32 /\ 0 \in Register /\ 0 \in 0 .. HALF_WORD - 1
  BY UnitsPositive, LayoutAssumption DEF RawWord, Int32, Register
<1> USE DEF TypeOK, Done
<1>1. CASE CpuReset \/ MemoryInit
  BY <1>0, <1>1 DEF CpuReset, MemoryInit
<1>2. CASE IncrementPC \/ \E value \in PCs : SetPC(value)
  BY <1>2, StorageAssumption DEF IncrementPC, SetPC
<1>3. CASE Fetch
  <2>1. Decode(fetchInstruction.raw) \in StageRegister
    BY FetchedWord, DecodeType
  <2> QED
    BY <1>3, <2>1, StorageAssumption DEF Fetch
<1>4. CASE \E count \in Counts : SetInstructionCount(count)
  <2>1. PICK count \in Counts : SetInstructionCount(count)
    BY <1>4
  <2>2. count \in Int32
    BY StorageAssumption
  <2>3. (IF count < 0 THEN 0 ELSE count) \in 0 .. HALF_WORD - 1
    BY <1>0, <2>2, UnitsPositive DEF Int32
  <2> QED
    BY <2>1, <2>3 DEF SetInstructionCount
<1>5. CASE \E a \in Addresses, word \in Words : StoreInstruction(a, word)
  <2>1. PICK a \in Addresses, word \in Words : StoreInstruction(a, word)
    BY <1>5
  <2>2. memory_store_instruction(memory, ToInt32(a), word) \in [Address -> Int32]
    BY StoreInstructionType, StorageAssumption
  <2> QED
    BY <2>1, <2>2 DEF StoreInstruction, is_instruction_address
<1>6. ASSUME NEW r \in Indices, NEW value \in Int32
      PROVE  LET w == cpu_write_register(r, value)
             IN  /\ w.registers \in [Register -> Int32] /\ w.registers[0] = 0
                 /\ w.success \in BOOLEAN
  BY WriteRegisterType, ZeroKept DEF cpu_write_register
<1>7. CASE \E r \in Indices, value \in Values : WriteRegister(r, value)
  BY <1>6, <1>7, StorageAssumption DEF WriteRegister
<1>8. CASE \E r \in Indices, a \in Addresses : LoadToRegister(r, a)
  <2>1. PICK r \in Indices, a \in Addresses : LoadToRegister(r, a)
    BY <1>8
  <2>2. memory_read_data(a).value \in Int32
    BY AddressType, ReadMemoryType, StorageAssumption DEF memory_read_data
  <2> QED
    BY <1>6, <2>1, <2>2 DEF LoadToRegister, memory_load_to_register
<1>9. ASSUME NEW a \in Addresses, NEW value \in Int32
      PROVE  /\ memory_write_data(a, value).memory \in [Address -> Int32]
             /\ memory_write_data(a, value).success \in BOOLEAN
  BY AddressType, WriteMemoryType, StorageAssumption DEF memory_write_data, is_data_address
<1>10. CASE \E r \in Indices, a \in Addresses : StoreFromRegister(r, a)
  <2>1. PICK r \in Indices, a \in Addresses : StoreFromRegister(r, a)
    BY <1>10
  <2>2. readRegister(registers, r) \in Int32
    BY ReadRegisterType
  <2> QED
    BY <1>9, <2>1, <2>2 DEF StoreFromRegister, memory_store_from_register
<1>11. CASE \E a \in Addresses, value \in Values : WriteData(a, value)
  BY <1>9, <1>11, StorageAssumption DEF WriteData
<1>12. CASE ExecuteStage
  <2>1. PICK result \in {executeMemoryStage(stage), executeMOVR(stage), executeMOVM(stage)} :
          /\ stage' = result.stage
          /\ registers' = result.registers
          /\ memory' = result.memory
          /\ success' = result.stage.valid
    BY <1>12 DEF ExecuteStage
  <2>2. stage.valid /\ UNCHANGED <<PC, instructionCount>>
    BY <1>12 DEF ExecuteStage
  <2>3. result.stage \in StageRegister /\ result.registers \in [Register -> Int32]
        /\ result.registers[0] = 0 /\ result.memory \in [Address -> Int32]
    BY <2>2, ExecuteFacts
  <2>4. result.stage.valid \in BOOLEAN
    BY <2>3 DEF StageRegister
  <2> QED
    BY <2>1, <2>2, <2>3, <2>4
<1>13. CASE \E access \in {"none", "load", "store", "unknown"}, a \in Addresses, r \in Indices,
               data \in Values, write \in BOOLEAN :
              ExecuteInput(StageInput(access, a, data, data, r, write))
  <2>1. PICK access \in {"none", "load", "store", "unknown"}, a \in Addresses, r \in Indices,
             data \in Values, write \in BOOLEAN :
               ExecuteInput(StageInput(access, a, data, data, r, write))
    BY <1>13
  <2> DEFINE input  == StageInput(access, a, data, data, r, write)
             output == memory_execute_stage(input)
  <2>2. /\ input.address \in RawWord /\ input.write_data \in Int32
        /\ input.passthrough_value \in Int32 /\ input.destination_register = r
    BY StorageAssumption DEF StageInput
  <2> HIDE DEF input
  <2>3. /\ output.memory \in [Address -> Int32] /\ output.success \in BOOLEAN
        /\ output.write_back_value \in Int32 /\ output.destination_register = r
    BY <2>2, ExecuteInputFacts
  <2>4. /\ memory' = output.memory /\ success' = output.success
        /\ registers' = IF output.register_write
                          THEN cpu_write_register(output.destination_register,
                                                  output.write_back_value).registers
                          ELSE registers
        /\ UNCHANGED <<PC, instructionCount, stage>>
    BY <2>1 DEF ExecuteInput, input
  <2> HIDE DEF output
  <2> QED
    BY <1>6, <2>3, <2>4
<1>14. CASE UNCHANGED storageVars
  BY <1>14 DEF storageVars
<1> QED
  BY <1>1, <1>2, <1>3, <1>4, <1>5, <1>7, <1>8, <1>10, <1>11, <1>12, <1>13, <1>14 DEF Next

\* Any calls in any order leave well-typed storage with R0 zero.
THEOREM StorageTypeCorrect == Spec => []TypeOK
<1>1. Init => TypeOK
  BY InitType
<1>2. TypeOK /\ [Next]_storageVars => TypeOK'
  BY NextType
<1> QED
  BY <1>1, <1>2, PTL DEF Spec

-----------------------------------------------------------------------------
(* What the calls do to the CPU.                                           *)

\* A call that reports failure has changed neither registers nor memory.
THEOREM FailuresAreHarmless == Spec => FailureIsHarmless
<1>1. TypeOK /\ [Next]_storageVars => [~ success' => UNCHANGED <<registers, memory>>]_storageVars
  <2> SUFFICES ASSUME TypeOK, Next, ~ success' PROVE UNCHANGED <<registers, memory>>
    OBVIOUS
  <2>1. CASE \/ CpuReset \/ MemoryInit \/ IncrementPC \/ Fetch
             \/ \E value \in PCs : SetPC(value)
             \/ \E count \in Counts : SetInstructionCount(count)
    BY <2>1 DEF CpuReset, MemoryInit, IncrementPC, Fetch, SetPC, SetInstructionCount, Done
  <2>2. CASE \E a \in Addresses, word \in Words : StoreInstruction(a, word)
    BY <2>2 DEF StoreInstruction, memory_store_instruction
  <2>3. ASSUME NEW r \in Indices, NEW value, ~ cpu_write_register(r, value).success
        PROVE  cpu_write_register(r, value).registers = registers
    <3>1. ~ (r < REGISTER_COUNT) /\ r \in Nat
      BY <2>3, StorageAssumption DEF cpu_write_register
    <3>2. r \notin Register
      BY <3>1, LayoutAssumption DEF Register
    <3> QED
      BY <3>2 DEF cpu_write_register, writeRegister
  <2>4. CASE \E r \in Indices, value \in Values : WriteRegister(r, value)
    BY <2>3, <2>4 DEF WriteRegister
  <2>5. CASE \E r \in Indices, a \in Addresses : LoadToRegister(r, a)
    BY <2>3, <2>5 DEF LoadToRegister, memory_load_to_register
  <2>6. ASSUME NEW a, NEW value, ~ memory_write_data(a, value).success
        PROVE  memory_write_data(a, value).memory = memory
    BY <2>6 DEF memory_write_data, writeMemory
  <2>7. CASE \E r \in Indices, a \in Addresses : StoreFromRegister(r, a)
    BY <2>6, <2>7 DEF StoreFromRegister, memory_store_from_register
  <2>8. CASE \E a \in Addresses, value \in Values : WriteData(a, value)
    BY <2>6, <2>8 DEF WriteData
  <2>9. CASE ExecuteStage
    <3>1. PICK result \in {executeMemoryStage(stage), executeMOVR(stage), executeMOVM(stage)} :
            /\ registers' = result.registers
            /\ memory' = result.memory
            /\ success' = result.stage.valid
      BY <2>9 DEF ExecuteStage
    <3>2. stage \in StageRegister /\ stage.valid
      BY <2>9 DEF ExecuteStage, TypeOK
    <3> QED
      BY <3>1, <3>2, ExecuteFacts
  <2>10. CASE \E access \in {"none", "load", "store", "unknown"}, a \in Addresses, r \in Indices,
                 data \in Values, write \in BOOLEAN :
                ExecuteInput(StageInput(access, a, data, data, r, write))
    <3>1. PICK access \in {"none", "load", "store", "unknown"}, a \in Addresses, r \in Indices,
               data \in Values, write \in BOOLEAN :
                 ExecuteInput(StageInput(access, a, data, data, r, write))
      BY <2>10
    <3> DEFINE input == StageInput(access, a, data, data, r, write)
    <3>2. /\ input.address \in RawWord /\ input.write_data \in Int32
          /\ input.passthrough_value \in Int32
      BY StorageAssumption DEF StageInput
    <3>3. ExecuteInput(input)
      BY <3>1
    <3> HIDE DEF input
    <3> QED
      BY <3>2, <3>3, ExecuteInputFacts DEF ExecuteInput
  <2> QED
    BY <2>1, <2>2, <2>4, <2>5, <2>7, <2>8, <2>9, <2>10 DEF Next
<1> QED
  BY <1>1, StorageTypeCorrect, PTL DEF Spec, FailureIsHarmless

\* Only a load of a program or a reset reaches the instructions.
THEOREM InstructionsAreKept == Spec => InstructionsKept
<1> DEFINE Kept == \A a \in InstructionAddress : memory'[a] = memory[a]
           Allowed == \/ Kept
                      \/ \A a \in Address : memory'[a] = 0
                      \/ \E a \in Addresses, word \in Words : StoreInstruction(a, word)
<1>1. TypeOK /\ [Next]_storageVars => [Allowed]_storageVars
  <2> SUFFICES ASSUME TypeOK, Next PROVE Allowed
    OBVIOUS
  <2>1. memory' = memory => Kept
    OBVIOUS
  <2>2. CASE CpuReset \/ MemoryInit
    BY <2>2 DEF CpuReset, MemoryInit
  <2>3. CASE \/ IncrementPC \/ Fetch
             \/ \E value \in PCs : SetPC(value)
             \/ \E count \in Counts : SetInstructionCount(count)
             \/ \E r \in Indices, value \in Values : WriteRegister(r, value)
             \/ \E r \in Indices, a \in Addresses : LoadToRegister(r, a)
    BY <2>1, <2>3 DEF IncrementPC, Fetch, SetPC, SetInstructionCount, WriteRegister, LoadToRegister
  <2>4. CASE \E a \in Addresses, word \in Words : StoreInstruction(a, word)
    BY <2>4
  <2>5. ASSUME NEW a \in Addresses, NEW value \in Int32
        PROVE  \A i \in InstructionAddress : memory_write_data(a, value).memory[i] = memory[i]
    <3>1. ToInt32(a) \in Int
      BY AddressType, StorageAssumption
    <3> QED
      BY <3>1, WriteMemoryType DEF memory_write_data, TypeOK, InstructionAddress
  <2>6. CASE \E r \in Indices, a \in Addresses : StoreFromRegister(r, a)
    <3>1. PICK r \in Indices, a \in Addresses : StoreFromRegister(r, a)
      BY <2>6
    <3>2. readRegister(registers, r) \in Int32
      BY ReadRegisterType DEF TypeOK
    <3> QED
      BY <2>5, <3>1, <3>2 DEF StoreFromRegister, memory_store_from_register
  <2>7. CASE \E a \in Addresses, value \in Values : WriteData(a, value)
    BY <2>5, <2>7, StorageAssumption DEF WriteData
  <2>8. CASE ExecuteStage
    <3>1. PICK result \in {executeMemoryStage(stage), executeMOVR(stage), executeMOVM(stage)} :
            memory' = result.memory
      BY <2>8 DEF ExecuteStage
    <3>2. stage \in StageRegister /\ stage.valid
      BY <2>8 DEF ExecuteStage, TypeOK
    <3> QED
      BY <3>1, <3>2, ExecuteFacts
  <2>9. CASE \E access \in {"none", "load", "store", "unknown"}, a \in Addresses, r \in Indices,
                data \in Values, write \in BOOLEAN :
               ExecuteInput(StageInput(access, a, data, data, r, write))
    <3>1. PICK access \in {"none", "load", "store", "unknown"}, a \in Addresses, r \in Indices,
               data \in Values, write \in BOOLEAN :
                 ExecuteInput(StageInput(access, a, data, data, r, write))
      BY <2>9
    <3> DEFINE input == StageInput(access, a, data, data, r, write)
    <3>2. /\ input.address \in RawWord /\ input.write_data \in Int32
          /\ input.passthrough_value \in Int32
      BY StorageAssumption DEF StageInput
    <3>3. ExecuteInput(input)
      BY <3>1
    <3> HIDE DEF input
    <3> QED
      BY <3>2, <3>3, ExecuteInputFacts DEF ExecuteInput
  <2> QED
    BY <2>2, <2>3, <2>4, <2>6, <2>7, <2>8, <2>9 DEF Next
<1> QED
  BY <1>1, StorageTypeCorrect, PTL DEF Spec, InstructionsKept

\* A fetch gives the instruction at PC or stays where it is.
THEOREM FetchesGiveInstructions == Spec => []FetchGivesInstruction
<1>1. TypeOK => FetchGivesInstruction
  <2> SUFFICES ASSUME TypeOK PROVE FetchGivesInstruction
    OBVIOUS
  <2>1. PC \in Int
    BY UnitsPositive DEF TypeOK, RawWord
  <2> QED
    BY <2>1, FetchInstructionFacts DEF FetchGivesInstruction
<1> QED
  BY <1>1, StorageTypeCorrect, PTL

-----------------------------------------------------------------------------
(* The memory stage against the instruction set.                           *)

\* The instruction set speaks of the same layout and the same storage.
LEMMA SequentialStorage ==
  ASSUME NEW s
  PROVE  /\ Sequential!EffectiveAddress(s) = effective_address(s)
         /\ Sequential!Value(s.r1) = readRegister(registers, s.r1)
         /\ s.opcode = OPCODE_MOVR =>
              Sequential!Result(s) = readMemory(memory, effective_address(s))
<1>1. /\ Sequential!WORD_SPACE = WORD_SPACE /\ Sequential!HALF_WORD = HALF_WORD
      /\ Sequential!Register = Register
  BY DEF Sequential!WORD_SPACE, WORD_SPACE, Sequential!HALF_WORD, HALF_WORD,
         Sequential!OPCODE_UNIT, OPCODE_UNIT, Sequential!R1_UNIT, R1_UNIT,
         Sequential!R2_UNIT, R2_UNIT, Sequential!R3_UNIT, R3_UNIT,
         Sequential!Register, Register
<1>2. \A r : Sequential!Value(r) = readRegister(registers, r)
  BY <1>1 DEF Sequential!Value, Sequential!readRegister, readRegister
<1>3. \A v : Sequential!ToInt32(v) = ToInt32(v)
  BY <1>1 DEF Sequential!ToInt32, ToInt32
<1>4. Sequential!EffectiveAddress(s) = effective_address(s)
  BY <1>2, <1>3 DEF Sequential!EffectiveAddress, effective_address
<1>5. \A a : Sequential!readMemory(memory, a) = readMemory(memory, a)
  BY DEF Sequential!readMemory, readMemory, Sequential!is_data_address, is_data_address
<1>6. s.opcode = OPCODE_MOVR =>
        Sequential!Result(s) = Sequential!readMemory(memory, Sequential!EffectiveAddress(s))
  BY DEF Sequential!Result, OPCODE_MOVR, Sequential!OPCODE_ADD, Sequential!OPCODE_SUB,
         Sequential!OPCODE_MUL, Sequential!OPCODE_AND, Sequential!OPCODE_ORI,
         Sequential!OPCODE_LSL, Sequential!OPCODE_LSR, Sequential!OPCODE_MOVI,
         Sequential!OPCODE_MOVR
<1> QED
  BY <1>2, <1>4, <1>5, <1>6

\* What executeMOVR and executeMOVM return, on both sides of the bounds.
LEMMA StageResults ==
  ASSUME TypeOK, NEW s \in StageRegister
  PROVE  LET ok == is_data_address(effective_address(s))
         IN  /\ executeMOVR(s).stage.valid = ok
             /\ executeMOVR(s).registers =
                  IF ok THEN writeRegister(registers, s.r1, readMemory(memory, effective_address(s)))
                        ELSE registers
             /\ executeMOVR(s).memory = memory
             /\ executeMOVM(s).stage.valid = ok
             /\ executeMOVM(s).registers = registers
             /\ executeMOVM(s).memory =
                  writeMemory(memory, effective_address(s), readRegister(registers, s.r1))
<1> DEFINE ok == is_data_address(effective_address(s))
<1>1. effective_address(s) \in Int32
  BY StageReads
<1>2. Addressed(s) \in StageRegister /\ Addressed(s).valid = ok
  BY <1>1 DEF Addressed, StageRegister, is_data_address
<1>3. \A v : [Addressed(s) EXCEPT !.memoryData = v].valid = Addressed(s).valid
  BY <1>2 DEF StageRegister
<1> HIDE DEF ok
<1> QED
  BY <1>2, <1>3 DEF executeMOVR, executeMOVM, ok

\* The memory stage does what the instruction is to do by the instruction set, or
\* nothing at all.
THEOREM StagesExecuteInstructions == Spec => []StageExecutesInstruction
<1>1. TypeOK => StageExecutesInstruction
  <2> SUFFICES ASSUME TypeOK, stage.opcode \in {OPCODE_MOVR, OPCODE_MOVM}
               PROVE  StageExecutesInstruction
    BY DEF StageExecutesInstruction
  <2> DEFINE ok == is_data_address(effective_address(stage))
  <2>1. stage \in StageRegister
    BY DEF TypeOK
  <2>2. OPCODE_MOVR # OPCODE_MOVM
    BY DEF OPCODE_MOVR, OPCODE_MOVM
  <2>3. ~ ok => \A v : writeMemory(memory, effective_address(stage), v) = memory
    BY DEF writeMemory
  <2>4. CASE stage.opcode = OPCODE_MOVR
    <3>1. executeMemoryStage(stage) = executeMOVR(stage)
      BY <2>2, <2>4 DEF executeMemoryStage
    <3> QED
      BY <2>1, <2>2, <2>4, <3>1, StageResults, SequentialStorage DEF StageExecutesInstruction
  <2>5. CASE stage.opcode = OPCODE_MOVM
    <3>1. executeMemoryStage(stage) = executeMOVM(stage)
      BY <2>2, <2>5 DEF executeMemoryStage
    <3> QED
      BY <2>1, <2>2, <2>3, <2>5, <3>1, StageResults, SequentialStorage
         DEF StageExecutesInstruction
  <2> QED
    BY <2>4, <2>5
<1> QED
  BY <1>1, StorageTypeCorrect, PTL

\* An offset that is cut to int32_t still leads from the base to the address.
LEMMA OffsetReaches ==
  ASSUME NEW base \in Int, NEW a \in Int
  PROVE  ToInt32(base + ToInt32(a - base)) = ToInt32(a)
<1> DEFINE n == WORD_SPACE
           h == HALF_WORD
           x == a - base + h
           q == x \div n
<1>1. n \in Nat \ {0} /\ h \in Nat \ {0}
  BY UnitsPositive
<1>2. x \in Int /\ q \in Int
  BY <1>1
<1>3. x % n = x - q * n
  <2>1. ASSUME NEW m \in Nat \ {0}, NEW y \in Int PROVE y % m = y - (y \div m) * m
    OBVIOUS
  <2> HIDE DEF x, n
  <2> QED
    BY <1>1, <1>2, <2>1 DEF q
<1>4. ToInt32(a - base) = a - base - q * n
  <2>1. ToInt32(a - base) = (x % n) - h
    BY DEF ToInt32
  <2>2. q * n \in Int
    BY <1>1, <1>2
  <2> HIDE DEF q, n
  <2> QED
    BY <1>1, <1>3, <2>1, <2>2
<1>5. base + ToInt32(a - base) + h = (a + h) - q * n
  <2>1. q * n \in Int
    BY <1>1, <1>2
  <2> HIDE DEF q, n
  <2> QED
    BY <1>1, <1>4, <2>1
<1>6. ((a + h) - q * n) % n = (a + h) % n
  <2>1. a + h \in Int
    BY <1>1
  <2> HIDE DEF q, n, h
  <2> QED
    BY <1>1, <1>2, <2>1, MultipleVanishes
<1> QED
  BY <1>5, <1>6 DEF ToInt32

\* The three ways to the data segment agree.
THEOREM PathsAgreeAlways == Spec => []PathsAgree
<1>1. TypeOK => PathsAgree
  <2> SUFFICES ASSUME TypeOK, NEW r \in Register, NEW base \in Register,
                      NEW a \in Address \cup Addresses
               PROVE  LET at(opcode) ==
                            [stage EXCEPT !.valid = TRUE, !.opcode = opcode, !.r1 = r,
                                          !.r2 = base,
                                          !.immediate = ToInt32(a - readRegister(registers, base))]
                          load  == memory_execute_stage(StageInput("load", a, 0, 0, r, TRUE))
                          store == memory_execute_stage(
                                     StageInput("store", a, readRegister(registers, r), 0, r, FALSE))
                          movr  == executeMOVR(at(OPCODE_MOVR))
                          movm  == executeMOVM(at(OPCODE_MOVM))
                      IN  /\ memory_load_to_register(r, a) =
                               [success |-> movr.stage.valid, registers |-> movr.registers]
                          /\ load.success = movr.stage.valid
                          /\ movr.registers =
                               IF load.register_write
                                 THEN writeRegister(registers, r, load.write_back_value)
                                 ELSE registers
                          /\ memory_store_from_register(r, a) =
                               [success |-> movm.stage.valid, memory |-> movm.memory]
                          /\ store.success = movm.stage.valid
                          /\ store.memory = movm.memory
    BY DEF PathsAgree
  <2> DEFINE at(opcode) ==
               [stage EXCEPT !.valid = TRUE, !.opcode = opcode, !.r1 = r, !.r2 = base,
                             !.immediate = ToInt32(a - readRegister(registers, base))]
             address == ToInt32(a)
             ok      == is_data_address(address)
             value   == readMemory(memory, address)
             data    == readRegister(registers, r)
  <2>1. a \in RawWord /\ a \in Int
    BY StorageAssumption, MemoryAssumption, UnitsPositive DEF Address, RawWord, WORD_SPACE
  <2>2. readRegister(registers, base) \in Int
    BY ReadRegisterType, Int32Facts DEF TypeOK
  <2>3. ASSUME NEW opcode \in OpcodeField
        PROVE  /\ at(opcode) \in StageRegister
               /\ at(opcode).r1 = r
               /\ effective_address(at(opcode)) = address
    <3>1. a - readRegister(registers, base) \in Int
      BY <2>1, <2>2
    <3>2. ToInt32(a - readRegister(registers, base)) \in Int32
      BY <3>1, ToInt32Type
    <3>3. /\ at(opcode) \in StageRegister /\ at(opcode).r1 = r /\ at(opcode).r2 = base
          /\ at(opcode).immediate = ToInt32(a - readRegister(registers, base))
      BY <3>2 DEF StageRegister, TypeOK
    <3> HIDE DEF at
    <3> QED
      BY <2>1, <2>2, <3>3, OffsetReaches DEF effective_address
  <2>4. OPCODE_MOVR \in OpcodeField /\ OPCODE_MOVM \in OpcodeField
    BY DEF OPCODE_MOVR, OPCODE_MOVM, OpcodeField
  <2>5. /\ executeMOVR(at(OPCODE_MOVR)).stage.valid = ok
        /\ executeMOVR(at(OPCODE_MOVR)).registers =
             IF ok THEN writeRegister(registers, r, value) ELSE registers
        /\ executeMOVM(at(OPCODE_MOVM)).stage.valid = ok
        /\ executeMOVM(at(OPCODE_MOVM)).memory = writeMemory(memory, address, data)
    <3> HIDE DEF at
    <3> QED
      BY <2>3, <2>4, StageResults
  <2>6. r < REGISTER_COUNT
    BY LayoutAssumption DEF Register
  <2>7. memory_load_to_register(r, a) =
          [success |-> ok, registers |-> IF ok THEN writeRegister(registers, r, value)
                                               ELSE registers]
    <3>1. memory_read_data(a).success = ok /\ memory_read_data(a).value = value
      BY DEF memory_read_data
    <3>2. cpu_write_register(r, value)
            = [success |-> TRUE, registers |-> writeRegister(registers, r, value)]
      BY <2>6 DEF cpu_write_register
    <3>3. ok \in BOOLEAN
      BY DEF is_data_address
    <3> HIDE DEF ok, value
    <3>4. CASE ok
      <4>1. memory_load_to_register(r, a)
              = [success |-> TRUE, registers |-> writeRegister(registers, r, value)]
        BY <3>1, <3>2, <3>4 DEF memory_load_to_register
      <4>2. ok = TRUE
        BY <3>4, <3>3
      <4> QED
        BY <4>1, <4>2
    <3>5. CASE ~ ok
      <4>1. memory_load_to_register(r, a) = [success |-> FALSE, registers |-> registers]
        BY <3>1, <3>5 DEF memory_load_to_register
      <4>2. ok = FALSE
        BY <3>5, <3>3
      <4> QED
        BY <4>1, <4>2
    <3> QED
      BY <3>4, <3>5
  <2>8. memory_store_from_register(r, a) =
          [success |-> ok, memory |-> writeMemory(memory, address, data)]
    BY DEF memory_store_from_register, memory_write_data
  <2> DEFINE load  == memory_execute_stage(StageInput("load", a, 0, 0, r, TRUE))
             store == memory_execute_stage(StageInput("store", a, data, 0, r, FALSE))
  <2>9. /\ load.success = ok /\ load.write_back_value = value
        /\ load.register_write = (ok /\ TRUE)
    BY DEF memory_execute_stage, StageInput, memory_read_data
  <2>10. store.success = ok /\ store.memory = writeMemory(memory, address, data)
    BY DEF memory_execute_stage, StageInput, memory_write_data
  <2> HIDE DEF at, ok, value, address, load, store
  <2> QED
    BY <2>5, <2>7, <2>8, <2>9, <2>10 DEF at, load, store
<1> QED
  BY <1>1, StorageTypeCorrect, PTL

=============================================================================
