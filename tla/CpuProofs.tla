----------------------------- MODULE CpuProofs -----------------------------
(***************************************************************************)
(* Theorems about the processor with its caches, for every geometry, every *)
(* latency and every program.                                              *)
(***************************************************************************)
EXTENDS CpuInvariant, TLAPS, WellFoundedInduction, NaturalsInduction

-----------------------------------------------------------------------------
(***************************************************************************)
(* What the operators of CacheArrays return and preserve, for every        *)
(* geometry.                                                               *)
(***************************************************************************)

(***************************************************************************)
(* A non-empty set of naturals has a least element, and Min is it.         *)
(***************************************************************************)
LEMMA MinOfNaturals ==
    ASSUME NEW S \in SUBSET Nat, S # {}
    PROVE  Min(S) \in S /\ \A y \in S : Min(S) <= y
<1> DEFINE R == {p \in Nat \X Nat : p[1] < p[2]}
<1>1. IsWellFoundedOn(R, Nat)
  BY NatLessThanWellFounded DEF OpToRel
<1> HIDE DEF R
<1>2. PICK x \in S : \A y \in S : <<y, x>> \notin R
  BY <1>1, WFMin
<1>3. \A y \in S : x <= y
  <2> TAKE y \in S
  <2>1. <<y, x>> \notin R
    BY <1>2
  <2>2. ~(y < x)
    BY <2>1 DEF R
  <2> QED
    BY <2>2
<1> QED
  BY <1>3 DEF Min

(***************************************************************************)
(* Two cells that differ at most in their usage bits.                      *)
(***************************************************************************)
SameContents(c, d) ==
    /\ c.address = d.address
    /\ c.dataLine = d.dataLine
    /\ c.validityBit = d.validityBit

LEMMA BlockZero == 0 \in Blocks /\ Blocks \in SUBSET Nat
  BY GeometryAssumption DEF Blocks

LEMMA RowCell ==
    ASSUME NEW row \in Row, NEW b \in Blocks
    PROVE  /\ row[b] \in CacheCell
           /\ row[b].address \in Lines
           /\ row[b].dataLine \in Line
           /\ row[b].lastUsage \in {0, 1}
           /\ row[b].validityBit \in BOOLEAN
  BY DEF Row, CacheCell

LEMMA EmptyRowType == EmptyRow \in Row
<1>1. 0 \in Lines
  BY GeometryAssumption DEF Lines
<1>2. [o \in Offsets |-> ZeroWord] \in Line
  BY WordAssumption DEF Line
<1> QED
  BY <1>1, <1>2 DEF EmptyRow, EmptyCell, Row, CacheCell

(***************************************************************************)
(* The index of a line is one of the rows of its cache.                    *)
(***************************************************************************)
LEMMA IndexInRange ==
    ASSUME NEW line \in Lines, NEW sets \in Nat \ {0}
    PROVE  Index(line, sets) \in 0 .. sets - 1
  BY DEF Index, Lines

(***************************************************************************)
(* The victim is a block of the row.                                       *)
(***************************************************************************)
LEMMA VictimInBlocks ==
    ASSUME NEW row \in Row
    PROVE  PseudoLRUFinding(row) \in Blocks
<1>1. LeastUsed(row) # {}
  <2>1. CASE \E b \in Blocks : row[b].lastUsage = 0
    BY <2>1, RowCell DEF LeastUsed
  <2>2. CASE \A b \in Blocks : row[b].lastUsage # 0
    BY <2>2, RowCell, BlockZero DEF LeastUsed
  <2> QED
    BY <2>1, <2>2
<1>2. LeastUsed(row) \in SUBSET Blocks /\ Dirty(row) \in SUBSET Blocks
  BY DEF LeastUsed, Dirty
<1>3. Min(LeastUsed(row)) \in LeastUsed(row)
  BY <1>1, <1>2, BlockZero, MinOfNaturals
<1>4. Dirty(row) # {} => Min(Dirty(row)) \in Dirty(row)
  BY <1>2, BlockZero, MinOfNaturals
<1> QED
  BY <1>2, <1>3, <1>4 DEF PseudoLRUFinding

(***************************************************************************)
(* A lookup that succeeds finds a block that holds the line.               *)
(***************************************************************************)
LEMMA FindEntryFinds ==
    ASSUME NEW row, NEW line
    PROVE  /\ FindEntry(row, line) \in Blocks
           /\ CheckAddress(row, line) => row[FindEntry(row, line)].address = line
<1>1. CASE CheckAddress(row, line)
  <2>1. Holders(row, line) # {} /\ Holders(row, line) \in SUBSET Blocks
    BY <1>1 DEF CheckAddress, Holders
  <2>2. Min(Holders(row, line)) \in Holders(row, line)
    BY <2>1, BlockZero, MinOfNaturals
  <2> QED
    BY <1>1, <2>2 DEF FindEntry, Holders
<1>2. CASE ~CheckAddress(row, line)
  BY <1>2, BlockZero DEF FindEntry
<1> QED
  BY <1>1, <1>2

(***************************************************************************)
(* Ageing changes usage bits only.                                         *)
(***************************************************************************)
LEMMA ChangeLRUBitKeeps ==
    ASSUME NEW row \in Row, NEW key \in Blocks
    PROVE  /\ ChangeLRUBit(row, key) \in Row
           /\ \A b \in Blocks : SameContents(ChangeLRUBit(row, key)[b], row[b])
<1> DEFINE aged(b) == IF b # key /\ CheckAllBits(row, key)
                      THEN [row[b] EXCEPT !.lastUsage = 0]
                      ELSE row[b]
<1>1. ASSUME NEW b \in Blocks
      PROVE  aged(b) \in CacheCell /\ SameContents(aged(b), row[b])
  BY RowCell DEF CacheCell, SameContents
<1> HIDE DEF aged
<1>2. ChangeLRUBit(row, key) = [b \in Blocks |-> aged(b)]
  BY DEF ChangeLRUBit, aged
<1> QED
  BY <1>1, <1>2 DEF Row

(***************************************************************************)
(* A hit changes usage bits only.                                          *)
(***************************************************************************)
LEMMA TouchKeeps ==
    ASSUME NEW row \in Row, NEW key \in Blocks
    PROVE  /\ Touch(row, key) \in Row
           /\ \A b \in Blocks : SameContents(Touch(row, key)[b], row[b])
<1> DEFINE marked == [row EXCEPT ![key].lastUsage = 1]
<1>1. marked \in Row /\ \A b \in Blocks : SameContents(marked[b], row[b])
  BY RowCell DEF Row, CacheCell, SameContents
<1> HIDE DEF marked
<1>2. /\ ChangeLRUBit(marked, key) \in Row
      /\ \A b \in Blocks : SameContents(ChangeLRUBit(marked, key)[b], marked[b])
  BY <1>1, ChangeLRUBitKeeps
<1>3. Touch(row, key) = ChangeLRUBit(marked, key)
  BY DEF Touch, marked
<1> QED
  BY <1>1, <1>2, <1>3 DEF SameContents

(***************************************************************************)
(* A miss replaces the one cell and otherwise changes usage bits only.     *)
(***************************************************************************)
LEMMA InstallKeeps ==
    ASSUME NEW row \in Row, NEW key \in Blocks, NEW cell \in CacheCell
    PROVE  /\ Install(row, key, cell) \in Row
           /\ Install(row, key, cell)[key] = cell
           /\ \A b \in Blocks \ {key} :
                 SameContents(Install(row, key, cell)[b], row[b])
<1>1. /\ ChangeLRUBit(row, key) \in Row
      /\ \A b \in Blocks : SameContents(ChangeLRUBit(row, key)[b], row[b])
  BY ChangeLRUBitKeeps
<1>2. Install(row, key, cell) = [ChangeLRUBit(row, key) EXCEPT ![key] = cell]
  BY DEF Install
<1> QED
  BY <1>1, <1>2 DEF Row

-----------------------------------------------------------------------------
(***************************************************************************)
(* The ports and the processor.                                            *)
(***************************************************************************)
LEMMA AddressParts ==
    ASSUME NEW addr \in Addrs
    PROVE  ToLineAddr(addr) \in Lines /\ ToLineOffset(addr) \in Offsets
<1>1. addr \in Nat /\ LineWords \in Nat \ {0}
  BY GeometryAssumption DEF Addrs
<1>2. addr % LineWords \in 0 .. LineWords - 1
  BY <1>1
<1> QED
  BY <1>2 DEF Addrs, ToLineAddr, ToLineOffset, Offsets

LEMMA AddressZero == 0 \in Addrs /\ ToLineAddr(0) = 0 /\ ToLineOffset(0) = 0
<1>1. LineWords \in Nat \ {0} /\ MemLines \in Nat \ {0}
  BY GeometryAssumption
<1>2. 0 \div LineWords = 0 /\ 0 % LineWords = 0
  BY <1>1
<1> QED
  BY <1>1, <1>2 DEF Addrs, Lines, ToLineAddr, ToLineOffset

LEMMA ProgramAddresses ==
    /\ CodeAddrs \subseteq Addrs
    /\ LoadAddrs \cup StoreAddrs \subseteq Addrs
    /\ StoreWords \subseteq Word /\ MessageWords \subseteq Word
    /\ DeadWord \in Word
  BY ProgramAssumption

LEMMA RowsInRange ==
    ASSUME NEW line \in Lines
    PROVE  /\ CodeIndex(line) \in 0 .. CodeSets - 1
           /\ DataIndex(line) \in 0 .. DataSets - 1
  BY IndexInRange, GeometryAssumption DEF CodeIndex, DataIndex

LEMMA RowTypes ==
    ASSUME MemTypeOK, NEW line \in Lines
    PROVE  CodeRow(line) \in Row /\ DataRow(line) \in Row
  BY RowsInRange DEF MemTypeOK, CodeRow, DataRow

LEMMA WordInLine ==
    ASSUME NEW line \in Line, NEW o \in Offsets
    PROVE  line[o] \in Word
  BY DEF Line

-----------------------------------------------------------------------------
(***************************************************************************)
(* Every operation of the memory keeps its fields well typed.              *)
(***************************************************************************)
LEMMA MemInitType == MemInit => MemTypeOK
<1> SUFFICES ASSUME MemInit PROVE MemTypeOK
  OBVIOUS
<1>1. mem \in [Lines -> Line] /\ waitCycles \in Nat /\ cacheMiss \in BOOLEAN
  BY ImageAssumption DEF MemInit
<1>2. memoryRequestIp \in Addrs
  BY AddressZero DEF MemInit
<1>3. requestedIp \in Lines /\ requestedOffset \in Offsets
  BY AddressZero, AddressParts DEF MemInit
<1>4. /\ codeMemory \in [0 .. CodeSets - 1 -> Row]
      /\ dataMemory \in [0 .. DataSets - 1 -> Row]
  BY EmptyRowType DEF MemInit
<1> QED
  BY <1>1, <1>2, <1>3, <1>4 DEF MemTypeOK

LEMMA SetRequestType ==
    ASSUME NEW addr \in Addrs, NEW hit \in BOOLEAN, SetRequest(addr, hit)
    PROVE  requestedIp' \in Lines /\ requestedOffset' \in Offsets /\ cacheMiss' \in BOOLEAN
  BY AddressParts DEF SetRequest

LEMMA CodeRequestType ==
    ASSUME MemTypeOK, NEW addr \in Addrs, CodeRequest(addr)
    PROVE  MemTypeOK'
<1>1. CASE SameCodeRequest(addr)
  BY <1>1 DEF CodeRequest, memVars, MemTypeOK
<1>2. CASE ~SameCodeRequest(addr)
  <2> DEFINE hit == CheckAddress(CodeRow(ToLineAddr(addr)), ToLineAddr(addr))
  <2>1. hit \in BOOLEAN
    BY DEF CheckAddress
  <2> HIDE DEF hit
  <2>2. /\ memoryRequestIp' = addr
        /\ waitCycles' = IF hit THEN CodeLatency ELSE FailLatency
        /\ SetRequest(addr, hit)
        /\ UNCHANGED <<mem, codeMemory, dataMemory>>
    BY <1>2 DEF CodeRequest, hit
  <2>3. waitCycles' \in Nat
    BY <2>2, LatencyAssumption
  <2> QED
    BY <2>1, <2>2, <2>3, SetRequestType DEF MemTypeOK
<1> QED
  BY <1>1, <1>2

LEMMA DataRequestType ==
    ASSUME MemTypeOK, NEW addr, NEW type, type \in MemoryTypes => addr \in Addrs,
           DataRequest(addr, type)
    PROVE  MemTypeOK'
<1>1. CASE type \notin MemoryTypes
  BY <1>1 DEF DataRequest, memVars, MemTypeOK
<1>2. CASE type \in MemoryTypes
  <2> DEFINE row == DataRow(ToLineAddr(addr))
             hit == CheckAddress(row, ToLineAddr(addr))
  <2>1. hit \in BOOLEAN
    BY DEF CheckAddress
  <2>2. /\ waitCycles' = IF hit THEN DataLatency
                         ELSE IF Charges(row, type) THEN FailLatency + WriteBackLatency
                         ELSE FailLatency
        /\ SetRequest(addr, hit)
        /\ UNCHANGED <<mem, codeMemory, dataMemory, memoryRequestIp>>
    BY <1>2 DEF DataRequest
  <2> HIDE DEF hit, row
  <2>3. waitCycles' \in Nat
    BY <2>2, LatencyAssumption
  <2> QED
    BY <1>2, <2>1, <2>2, <2>3, SetRequestType DEF MemTypeOK
<1> QED
  BY <1>1, <1>2

LEMMA WriteBackType ==
    ASSUME MemTypeOK, NEW row \in Row, NEW b \in Blocks
    PROVE  WriteBack(row[b]) \in [Lines -> Line]
  BY RowCell DEF WriteBack, MemTypeOK

LEMMA CodeResponseType ==
    ASSUME MemTypeOK, CodeResponse
    PROVE  MemTypeOK' /\ CodeWord \in Word
<1> DEFINE row   == CodeRow(requestedIp)
           entry == FindEntry(row, requestedIp)
<1>1. requestedIp \in Lines /\ requestedOffset \in Offsets /\ mem[requestedIp] \in Line
  BY DEF MemTypeOK
<1>2. row \in Row /\ entry \in Blocks
  BY <1>1, RowTypes, FindEntryFinds
<1>3. CASE cacheMiss
  <2> DEFINE block   == PseudoLRUFinding(row)
             newCell == [address |-> requestedIp, dataLine |-> mem[requestedIp],
                         lastUsage |-> 1, validityBit |-> TRUE]
  <2>1. newCell \in CacheCell
    BY <1>1 DEF CacheCell
  <2>2. block \in Blocks
    BY <1>2, VictimInBlocks
  <2>3. /\ mem' = IF row[block].address # 0 THEN WriteBack(row[block]) ELSE mem
        /\ codeMemory' = [codeMemory EXCEPT
                            ![CodeIndex(requestedIp)] = Install(row, block, newCell)]
    BY <1>3 DEF CodeResponse, CodeFill
  <2> HIDE DEF newCell, block, row
  <2>4. Install(row, block, newCell) \in Row
    BY <1>2, <2>1, <2>2, InstallKeeps
  <2>5. codeMemory' \in [0 .. CodeSets - 1 -> Row]
    BY <2>3, <2>4 DEF MemTypeOK
  <2>6. mem' \in [Lines -> Line]
    BY <1>2, <2>2, <2>3, WriteBackType DEF MemTypeOK
  <2>7. CodeWord \in Word
    BY <1>1, <1>3, WordInLine DEF CodeWord
  <2> QED
    BY <2>5, <2>6, <2>7 DEF CodeResponse, MemTypeOK
<1>4. CASE ~cacheMiss
  <2>1. /\ codeMemory' = [codeMemory EXCEPT ![CodeIndex(requestedIp)] = Touch(row, entry)]
        /\ mem' = mem
    BY <1>4 DEF CodeResponse, CodeHit
  <2>2. CodeWord = row[entry].dataLine[requestedOffset]
    BY <1>4 DEF CodeWord
  <2> HIDE DEF row, entry
  <2>3. codeMemory' \in [0 .. CodeSets - 1 -> Row]
    BY <1>2, <2>1, TouchKeeps DEF MemTypeOK
  <2>4. CodeWord \in Word
    BY <1>1, <1>2, <2>2, RowCell, WordInLine
  <2> QED
    BY <2>1, <2>3, <2>4 DEF CodeResponse, MemTypeOK
<1> QED
  BY <1>3, <1>4

LEMMA StoreInLineType ==
    ASSUME NEW data \in Word, NEW type, NEW addr \in Addrs, NEW line \in Line
    PROVE  StoreInLine(line, addr, data, type) \in Line
  BY AddressParts DEF StoreInLine, Line

LEMMA StoreInCellType ==
    ASSUME MemTypeOK, NEW data \in Word, NEW type, NEW cell \in CacheCell
    PROVE  StoreInCell(cell, data, type) \in CacheCell
<1>1. CASE type # "St"
  BY <1>1 DEF StoreInCell
<1>2. CASE type = "St"
  <2>1. [cell.dataLine EXCEPT ![requestedOffset] = data] \in Line
    BY DEF CacheCell, Line, MemTypeOK
  <2>2. StoreInCell(cell, data, type) =
           [cell EXCEPT !.dataLine = [cell.dataLine EXCEPT ![requestedOffset] = data],
                        !.validityBit = FALSE]
    BY <1>2 DEF StoreInCell
  <2> QED
    BY <2>1, <2>2 DEF CacheCell
<1> QED
  BY <1>1, <1>2

LEMMA DataResponseType ==
    ASSUME MemTypeOK, NEW data \in Word, NEW type, NEW addr,
           type \in MemoryTypes => addr \in Addrs,
           DataResponse(addr, data, type)
    PROVE  MemTypeOK' /\ DataResult(data, type) \in Word
<1> DEFINE row   == DataRow(requestedIp)
           entry == FindEntry(row, requestedIp)
<1>1. requestedIp \in Lines /\ requestedOffset \in Offsets /\ mem[requestedIp] \in Line
  BY DEF MemTypeOK
<1>2. row \in Row /\ entry \in Blocks
  BY <1>1, RowTypes, FindEntryFinds
<1>3. DataResult(data, type) \in Word
  BY <1>1, <1>2, RowCell, WordInLine DEF DataResult
<1>4. CASE ~(type \in MemoryTypes /\ DataReady(type))
  BY <1>3, <1>4 DEF DataResponse, MemTypeOK
<1>5. CASE type \in MemoryTypes /\ DataReady(type) /\ cacheMiss
  <2> DEFINE block   == PseudoLRUFinding(row)
             newCell == [address |-> requestedIp,
                         dataLine |-> StoreInLine(mem[requestedIp], addr, data, type),
                         lastUsage |-> 1, validityBit |-> type # "St"]
  <2>1. StoreInLine(mem[requestedIp], addr, data, type) \in Line
    BY <1>1, <1>5, StoreInLineType
  <2>2. newCell \in CacheCell
    BY <1>1, <2>1 DEF CacheCell
  <2>3. block \in Blocks
    BY <1>2, VictimInBlocks
  <2>4. /\ mem' = IF IsDirty(row[block]) THEN WriteBack(row[block]) ELSE mem
        /\ dataMemory' = [dataMemory EXCEPT
                            ![DataIndex(requestedIp)] = Install(row, block, newCell)]
    BY <1>5 DEF DataResponse, DataFill
  <2> HIDE DEF newCell, block, row
  <2>5. dataMemory' \in [0 .. DataSets - 1 -> Row]
    BY <1>2, <2>2, <2>3, <2>4, InstallKeeps DEF MemTypeOK
  <2>6. mem' \in [Lines -> Line]
    BY <1>2, <2>3, <2>4, WriteBackType DEF MemTypeOK
  <2> QED
    BY <1>3, <2>5, <2>6 DEF DataResponse, MemTypeOK
<1>6. CASE type \in MemoryTypes /\ DataReady(type) /\ ~cacheMiss
  <2> DEFINE touched == Touch(row, entry)
             newRow  == [touched EXCEPT ![entry] = StoreInCell(touched[entry], data, type)]
  <2>1. dataMemory' = [dataMemory EXCEPT ![DataIndex(requestedIp)] = newRow] /\ mem' = mem
    BY <1>6 DEF DataResponse, DataHit
  <2> HIDE DEF row, entry
  <2>2. touched \in Row
    BY <1>2, TouchKeeps
  <2>3. StoreInCell(touched[entry], data, type) \in CacheCell
    BY <1>2, <2>2, StoreInCellType, RowCell
  <2> HIDE DEF touched
  <2>4. newRow \in Row
    BY <1>2, <2>2, <2>3 DEF Row
  <2> HIDE DEF newRow
  <2>5. dataMemory' \in [0 .. DataSets - 1 -> Row]
    BY <2>1, <2>4 DEF MemTypeOK
  <2> QED
    BY <1>3, <2>1, <2>5 DEF DataResponse, MemTypeOK
<1> QED
  BY <1>4, <1>5, <1>6

LEMMA MemClockType == MemTypeOK /\ MemClock => MemTypeOK'
  BY DEF MemTypeOK, MemClock, CountDown

-----------------------------------------------------------------------------
(***************************************************************************)
(* Types of the processor's own variables, given those of the memory.      *)
(***************************************************************************)
LEMMA DecodableType ==
    ASSUME ip \in CodeAddrs, NEW i \in Decodable
    PROVE  /\ i \in Instruction
           /\ i.type = "Ld" => i.addr \in LoadAddrs /\ i.nextIp = ip + 1
           /\ i.type = "St" => i.addr \in StoreAddrs /\ i.nextIp = ip + 1
<1>1. i.nextIp \in CodeAddrs
  BY DEF Decodable
<1>2. CASE i \in Loads
  BY <1>1, <1>2, ProgramAddresses DEF Loads, Instruction
<1>3. CASE i \in Stores
  BY <1>1, <1>3, ProgramAddresses DEF Stores, Instruction
<1>4. CASE i \in Alus \cup Jumps
  BY <1>1, <1>4, ProgramAddresses DEF Alus, Jumps, Instruction
<1>5. CASE i \in Csrws
  BY <1>1, <1>5, ProgramAddresses DEF Csrws, Instruction
<1> QED
  BY <1>2, <1>3, <1>4, <1>5 DEF Decodable

LEMMA CounterType ==
    ASSUME NEW n \in 0 .. CounterMod - 1
    PROVE  (n + 1) % CounterMod \in 0 .. CounterMod - 1
  BY ProgramAssumption

(***************************************************************************)
(* Where the pipeline holds an instruction, and that only a load or a      *)
(* store is ever addressed.  TypeOK is inductive together with this.       *)
(***************************************************************************)
AddressedOK(i) == i \in Instruction /\ (i.type \in MemoryTypes => i.addr \in Addrs)

PipelineTypeOK ==
    /\ pc \in {"dataResponse", "write"} => AddressedOK(instruction)
    /\ Waiting => AddressedOK(waitingInstruction)

LEMMA InitTypeOK == Init => TypeOK /\ PipelineTypeOK
<1> SUFFICES ASSUME Init PROVE TypeOK /\ PipelineTypeOK
  OBVIOUS
<1>1. MemTypeOK
  BY MemInitType DEF Init
<1>2. ip \in CodeAddrs /\ 0 \in 0 .. CounterMod - 1
  BY ProgramAssumption DEF Init
<1> QED
  BY <1>1, <1>2 DEF Init, TypeOK, PipelineTypeOK, Waiting

LEMMA StepTypeOK ==
    ASSUME TypeOK, PipelineTypeOK, [Next]_vars
    PROVE  TypeOK' /\ PipelineTypeOK'
<1> USE DEF TypeOK
<1>1. CASE ClockStall
  BY <1>1, CounterType
     DEF ClockStall, CountCycle, memVars, cpuVars, MemTypeOK, PipelineTypeOK, Waiting
<1>2. CASE ClockFetch
  <2>1. MemTypeOK'
    BY <1>2, CodeRequestType, ProgramAddresses DEF ClockFetch
  <2> QED
    BY <1>2, <2>1, CounterType
       DEF ClockFetch, CountCycle, cpuVars, PipelineTypeOK, Waiting
<1>3. CASE ClockResume
  <2> DEFINE i == waitingInstruction
  <2>1. AddressedOK(i) /\ i.data \in Word
    BY <1>3 DEF ClockResume, PipelineTypeOK, AddressedOK, Instruction
  <2>2. MemTypeOK' /\ DataResult(i.data, i.type) \in Word
    BY <1>3, <2>1, DataResponseType DEF ClockResume, AddressedOK
  <2>3. AddressedOK(instruction')
    BY <1>3, <2>1, <2>2 DEF ClockResume, AddressedOK, Instruction
  <2> QED
    BY <1>3, <2>2, <2>3, CounterType
       DEF ClockResume, CountCycle, PipelineTypeOK, Waiting, AddressedOK
<1>4. CASE FetchWait
  BY <1>4 DEF FetchWait, memVars, cpuVars, csrVars, MemTypeOK, PipelineTypeOK, Waiting
<1>5. CASE Fetch
  <2>1. MemTypeOK' /\ CodeWord \in Word
    BY <1>5, CodeResponseType DEF Fetch
  <2> QED
    BY <1>5, <2>1 DEF Fetch, csrVars, PipelineTypeOK, Waiting
<1>6. CASE Execute
  <2>1. PICK i \in Decodable : instruction' = i /\ DataRequest(i.addr, i.type)
    BY <1>6 DEF Execute
  <2>2. AddressedOK(i)
    BY <2>1, DecodableType, ProgramAddresses DEF AddressedOK, MemoryTypes
  <2>3. MemTypeOK'
    BY <2>1, <2>2, DataRequestType DEF AddressedOK
  <2> QED
    BY <1>6, <2>1, <2>2, <2>3
       DEF Execute, csrVars, PipelineTypeOK, Waiting, AddressedOK
<1>7. CASE FirstResponse
  <2> DEFINE i == instruction
  <2>1. AddressedOK(i) /\ i.data \in Word
    BY <1>7 DEF FirstResponse, PipelineTypeOK, AddressedOK, Instruction
  <2>2. MemTypeOK' /\ DataResult(i.data, i.type) \in Word
    BY <1>7, <2>1, DataResponseType DEF FirstResponse, AddressedOK
  <2>3. CASE DataReady(i.type)
    <3>1. AddressedOK(instruction')
      BY <1>7, <2>1, <2>2, <2>3 DEF FirstResponse, AddressedOK, Instruction
    <3> QED
      BY <1>7, <2>2, <2>3, <3>1
         DEF FirstResponse, csrVars, PipelineTypeOK, Waiting, AddressedOK
  <2>4. CASE ~DataReady(i.type)
    BY <1>7, <2>1, <2>2, <2>4
       DEF FirstResponse, csrVars, PipelineTypeOK, Waiting, AddressedOK
  <2> QED
    BY <2>3, <2>4
<1>8. CASE Write
  <2>1. instruction \in Instruction
    BY <1>8 DEF Write, PipelineTypeOK, AddressedOK
  <2>2. ip' \in CodeAddrs /\ cpuToHostData' \in Word \cup {NoMessage}
    BY <1>8, <2>1 DEF Write, Instruction
  <2> QED
    BY <1>8, <2>2, CounterType DEF Write, memVars, MemTypeOK, PipelineTypeOK, Waiting
<1>9. CASE Tick
  <2>1. MemTypeOK'
    BY <1>9, MemClockType DEF Tick
  <2> QED
    BY <1>9, <2>1 DEF Tick, GetMessage, cpuVars, PipelineTypeOK, Waiting
<1>10. CASE Exited \/ UNCHANGED vars
  BY <1>10 DEF Exited, vars, memVars, cpuVars, csrVars, MemTypeOK, PipelineTypeOK, Waiting
<1> QED
  BY <1>1, <1>2, <1>3, <1>4, <1>5, <1>6, <1>7, <1>8, <1>9, <1>10 DEF Next

(***************************************************************************)
(* Every variable keeps its type, whatever the geometry, the latencies and *)
(* the program: no index leaves its array, no counter goes below zero, and *)
(* the pipeline never writes back an instruction it does not hold.         *)
(***************************************************************************)
THEOREM TypeCorrect == Spec => []TypeOK
<1>1. Spec => [](TypeOK /\ PipelineTypeOK)
  BY InitTypeOK, StepTypeOK, PTL DEF Spec
<1> QED
  BY <1>1, PTL

(***************************************************************************)
(* Messages are in their slot between the write-back stage and the host's  *)
(* GetMessage later in the same turn of the loop, and at no other time.    *)
(***************************************************************************)
SlotEmpty == pc # "memClock" => cpuToHostData = NoMessage

(***************************************************************************)
(* No write to mtohost finds an unread message in the slot it overwrites   *)
(* (CsrFile::Write assigns cpuToHostData unconditionally), for any program.*)
(***************************************************************************)
THEOREM MessagesReachHost == Spec => []NoMessageLost
<1>1. Init => SlotEmpty
  BY DEF Init, SlotEmpty
<1>2. SlotEmpty /\ [Next]_vars => SlotEmpty'
  BY DEF SlotEmpty, Next, vars, csrVars, CountCycle, ClockStall, ClockFetch, ClockResume,
         FetchWait, Fetch, Execute, FirstResponse, Write, Tick, GetMessage, Exited
<1>3. SlotEmpty => NoMessageLost
  BY DEF SlotEmpty, NoMessageLost
<1> QED
  BY <1>1, <1>2, <1>3, PTL DEF Spec

=============================================================================
