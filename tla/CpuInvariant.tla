---------------------------- MODULE CpuInvariant ----------------------------
(***************************************************************************)
(* The inductive invariant behind the safety properties of CpuProperties,  *)
(* in named parts.  It holds for programs placed the way the shipped       *)
(* binaries are.                                                           *)
(***************************************************************************)
EXTENDS CpuProperties

(***************************************************************************)
(* No line holds both instructions and words that are stored to, and       *)
(* nothing lives in line 0, whose address marks an empty cell.             *)
(***************************************************************************)
ProgramPlacement ==
    /\ CodeLines \cap StoreLines = {}
    /\ 0 \notin CodeLines \cup DataLines

(***************************************************************************)
(* Every filled code cell is an unchanged line of the program in the row   *)
(* its address selects.                                                    *)
(***************************************************************************)
CodeCellOK(i, cell) ==
    Filled(cell) =>
        /\ cell.address \in CodeLines
        /\ CodeIndex(cell.address) = i
        /\ cell.dataLine = Image[cell.address]

CodeCellsOK ==
    \A i \in DOMAIN codeMemory, b \in Blocks : CodeCellOK(i, codeMemory[i][b])

(***************************************************************************)
(* Every filled data cell is a line of data in its row, equal to memory    *)
(* unless a store has made it dirty.                                       *)
(***************************************************************************)
DataCellOK(i, cell, memory) ==
    Filled(cell) =>
        /\ cell.address \in DataLines
        /\ DataIndex(cell.address) = i
        /\ IF cell.validityBit
           THEN cell.dataLine = memory[cell.address]
           ELSE cell.address \in StoreLines

DataCellsOK ==
    \A i \in DOMAIN dataMemory, b \in Blocks :
        DataCellOK(i, dataMemory[i][b], mem)

NoTwoCopies ==
    \A i \in DOMAIN dataMemory : \A b, c \in Blocks :
        Filled(dataMemory[i][b]) /\ dataMemory[i][b].address = dataMemory[i][c].address
            => b = c

(***************************************************************************)
(* The instruction in the pipeline is one that Execute can produce.        *)
(***************************************************************************)
InstructionOK(i) ==
    /\ i \in Instruction
    /\ i.type = "Ld" => i.addr \in LoadAddrs /\ i.nextIp = ip + 1
    /\ i.type = "St" => i.addr \in StoreAddrs /\ i.nextIp = ip + 1

PipelineOK ==
    /\ pc \in {"dataResponse", "write"} => InstructionOK(instruction)
    /\ Waiting => /\ InstructionOK(waitingInstruction)
                  /\ waitingInstruction.type \in MemoryTypes
                  /\ pc \in {"clock", "memClock", "done"}

(***************************************************************************)
(* The request registers describe the last code request; if it found the   *)
(* line, the line is still there.                                          *)
(***************************************************************************)
CodeRequestValid ==
    /\ requestedIp = ToLineAddr(memoryRequestIp)
    /\ requestedOffset = ToLineOffset(memoryRequestIp)
    /\ ~cacheMiss => CheckAddress(CodeRow(requestedIp), requestedIp)

(***************************************************************************)
(* When the code registers can be relied on: from the request until a data *)
(* request takes the registers over, and whenever the next fetch is for    *)
(* the same ip, because then the request will be dropped.                  *)
(***************************************************************************)
FetchOK ==
    /\ pc \notin {"clock", "memClock", "done"} \/ Waiting => memoryRequestIp = ip
    /\ pc \in {"fetch", "execute"} => CodeRequestValid
    /\ pc \in {"dataResponse", "write"} /\ instruction.type \notin MemoryTypes
          => CodeRequestValid
    /\ pc \in {"clock", "memClock"} /\ ~Waiting /\ memoryRequestIp = ip
          => CodeRequestValid

IInv ==
    /\ TypeOK
    /\ OnlyStoredLinesChange
    /\ CodeCellsOK
    /\ DataCellsOK
    /\ NoTwoCopies
    /\ PipelineOK
    /\ RequestStillValid
    /\ FetchOK
    /\ FetchedWordIsProgram

=============================================================================
