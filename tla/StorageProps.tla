----------------------------- MODULE StorageProps --------------------------
(***************************************************************************)
(* The correctness properties of the storage interface.                    *)
(***************************************************************************)
EXTENDS Storage

\* The instruction set, on the CPU as the client has left it.
Sequential == INSTANCE Isa WITH
  pc <- PC, regs <- registers, mem <- memory, count <- instructionCount

InstructionAddress == 0 .. INSTRUCTION_MEMORY_SIZE - 1
DataAddress        == DATA_MEMORY_START .. MEMORY_SIZE - 1

\* The part of a PipelineRegister that memory.c works on.
StageRegister ==
  [valid : BOOLEAN, opcode : OpcodeField, r1 : Register, r2 : Register,
   immediate : Int32, address : Int32, memoryData : Int32]

\* The type invariant. R0 holds zero after any sequence of calls: the register
\* file is public and every function that writes it has to see to that.
TypeOK ==
  /\ PC \in RawWord
  /\ registers \in [Register -> Int32]
  /\ registers[0] = 0
  /\ memory \in [Address -> Int32]
  /\ instructionCount \in 0 .. HALF_WORD - 1
  /\ stage \in StageRegister
  /\ success \in BOOLEAN

\* executeMemoryStage does to the CPU what the instruction is to do by the
\* instruction set, however the client has used the registers since it was fetched;
\* an access outside the data segment changes nothing but the stage, which no later
\* stage will then take for an instruction.
StageExecutesInstruction ==
  stage.valid /\ stage.opcode \in {OPCODE_MOVR, OPCODE_MOVM} =>
    LET result == executeMemoryStage(stage)
    IN  IF is_data_address(Sequential!EffectiveAddress(stage))
          THEN /\ result.stage.valid
               /\ result.registers =
                    IF stage.opcode = OPCODE_MOVR
                      THEN writeRegister(registers, stage.r1, Sequential!Result(stage))
                      ELSE registers
               /\ result.memory =
                    IF stage.opcode = OPCODE_MOVM
                      THEN writeMemory(memory, Sequential!EffectiveAddress(stage),
                                       Sequential!Value(stage.r1))
                      ELSE memory
          ELSE ~ result.stage.valid /\ result.registers = registers /\ result.memory = memory

\* The three ways to the data segment agree: a load by memory_load_to_register, by
\* memory_execute_stage with its write back and by executeMOVR leave the same
\* registers and have the same success, for every register and address; likewise
\* the three stores.
PathsAgree ==
  \A r \in Register, base \in Register, a \in Address \cup Addresses :
    LET at(opcode) ==
          [stage EXCEPT !.valid = TRUE, !.opcode = opcode, !.r1 = r, !.r2 = base,
                        !.immediate = ToInt32(a - readRegister(registers, base))]
        load  == memory_execute_stage(StageInput("load", a, 0, 0, r, TRUE))
        store == memory_execute_stage(StageInput("store", a, readRegister(registers, r), 0, r, FALSE))
        movr  == executeMOVR(at(OPCODE_MOVR))
        movm  == executeMOVM(at(OPCODE_MOVM))
    IN  /\ memory_load_to_register(r, a) =
             [success |-> movr.stage.valid, registers |-> movr.registers]
        /\ load.success = movr.stage.valid
        /\ movr.registers =
             IF load.register_write
               THEN writeRegister(registers, r, load.write_back_value) ELSE registers
        /\ memory_store_from_register(r, a) =
             [success |-> movm.stage.valid, memory |-> movm.memory]
        /\ store.success = movm.stage.valid
        /\ store.memory = movm.memory

\* A call that reports failure has changed neither registers nor memory.
FailureIsHarmless == [][~ success' => UNCHANGED <<registers, memory>>]_storageVars

\* No call but those that load a program or reset reaches the instructions,
\* whatever addresses, registers and instructions the client makes up.
InstructionsKept ==
  [][\/ \A a \in InstructionAddress : memory'[a] = memory[a]
     \/ \A a \in Address : memory'[a] = 0
     \/ \E a \in Addresses, word \in Words : StoreInstruction(a, word)]_storageVars

\* A fetch either stays where it is and gives zero, or gives the instruction at PC,
\* one that the parser may have stored: not data, even if the count or PC has been
\* set beyond instruction memory.
FetchGivesInstruction ==
  IF fetchInstruction.pc = PC
    THEN fetchInstruction.raw = 0
    ELSE /\ PC < instructionCount
         /\ PC \in InstructionAddress
         /\ fetchInstruction.raw = memory_fetch_instruction(memory, PC)

=============================================================================
