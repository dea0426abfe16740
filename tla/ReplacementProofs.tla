------------------------- MODULE ReplacementProofs -------------------------
(***************************************************************************)
(* Pseudo-LRU replacement, the surcharge for evicting dirty lines, and the *)
(* cycles an instruction takes.                                            *)
(***************************************************************************)
EXTENDS CoherenceProofs, FiniteSetTheorems

-----------------------------------------------------------------------------
(***************************************************************************)
(* Ageing leaves a block other than the one in use marked unused, and      *)
(* touches the bits of no row in which another block is unused already.    *)
(***************************************************************************)
LEMMA AgeingLeavesOne ==
    ASSUME BlockCount > 1, NEW row \in Row, NEW key \in Blocks
    PROVE  \E b \in Blocks \ {key} : ChangeLRUBit(row, key)[b].lastUsage = 0
<1>1. CASE CheckAllBits(row, key)
  <2>1. PICK b \in Blocks : b # key
    <3>1. 0 \in Blocks /\ 1 \in Blocks
      BY GeometryAssumption DEF Blocks
    <3> QED
      BY <3>1
  <2>2. ChangeLRUBit(row, key)[b] = [row[b] EXCEPT !.lastUsage = 0]
    BY <1>1, <2>1 DEF ChangeLRUBit
  <2>3. row[b] \in CacheCell
    BY RowCell
  <2>4. ChangeLRUBit(row, key)[b].lastUsage = 0
    BY <2>2, <2>3 DEF CacheCell
  <2> QED
    BY <2>1, <2>4
<1>2. CASE ~CheckAllBits(row, key)
  <2>1. PICK b \in Blocks \ {key} : row[b].lastUsage = 0
    BY <1>2 DEF CheckAllBits
  <2>2. ChangeLRUBit(row, key)[b] = row[b]
    BY <1>2 DEF ChangeLRUBit
  <2> QED
    BY <2>1, <2>2
<1> QED
  BY <1>1, <1>2

LEMMA AgeingWaits ==
    ASSUME NEW row \in Row, NEW key \in Blocks, NEW e \in Blocks \ {key},
           row[e].lastUsage = 0
    PROVE  ChangeLRUBit(row, key) = row
  BY DEF ChangeLRUBit, CheckAllBits, Row

LEMMA MarkedRow ==
    ASSUME NEW row \in Row, NEW key \in Blocks
    PROVE  LET marked == [row EXCEPT ![key].lastUsage = 1]
           IN  /\ marked \in Row
               /\ marked[key].lastUsage = 1
               /\ marked[key].address = row[key].address
               /\ \A b \in Blocks \ {key} : marked[b] = row[b]
  BY RowCell DEF Row, CacheCell

LEMMA UnusedAfterUse ==
    ASSUME BlockCount > 1, NEW row \in Row, NEW key \in Blocks, NEW cell \in CacheCell
    PROVE  HasUnusedBlock(Touch(row, key)) /\ HasUnusedBlock(Install(row, key, cell))
<1>1. HasUnusedBlock(Touch(row, key))
  <2> DEFINE marked == [row EXCEPT ![key].lastUsage = 1]
  <2>1. marked \in Row
    BY MarkedRow
  <2>2. Touch(row, key) = ChangeLRUBit(marked, key)
    BY DEF Touch
  <2> HIDE DEF marked
  <2> QED
    BY <2>1, <2>2, AgeingLeavesOne DEF HasUnusedBlock
<1>2. PICK b \in Blocks \ {key} : ChangeLRUBit(row, key)[b].lastUsage = 0
  BY AgeingLeavesOne
<1>3. Install(row, key, cell)[b] = ChangeLRUBit(row, key)[b]
  BY ChangeLRUBitKeeps DEF Install, Row
<1>4. HasUnusedBlock(Install(row, key, cell))
  BY <1>2, <1>3 DEF HasUnusedBlock
<1> QED
  BY <1>1, <1>4

-----------------------------------------------------------------------------
(***************************************************************************)
(* While a row has an empty cell, the filled cells are the used ones.      *)
(***************************************************************************)
UsedAreFilled(row) ==
    /\ \A b \in Blocks : row[b].address = 0 => row[b].lastUsage = 0
    /\ ~IfAllMarked(row) =>
          \A b \in Blocks : row[b].address # 0 => row[b].lastUsage = 1

(***************************************************************************)
(* Then the victim in a row with an empty cell is an empty cell.           *)
(***************************************************************************)
LEMMA VictimIsEmpty ==
    ASSUME NEW row \in Row, UsedAreFilled(row), ~IfAllMarked(row)
    PROVE  row[PseudoLRUFinding(row)].address = 0
<1>1. PICK e \in Blocks : row[e].address = 0 /\ row[e].lastUsage = 0
  BY DEF IfAllMarked, UsedAreFilled
<1>2. \A b \in LeastUsed(row) : b \in Blocks /\ row[b].lastUsage = 0
  BY <1>1, RowCell DEF LeastUsed
<1>3. e \in LeastUsed(row)
  BY <1>1, RowCell DEF LeastUsed
<1>4. Min(LeastUsed(row)) \in LeastUsed(row)
  BY <1>2, <1>3, BlockZero, MinOfNaturals
<1> QED
  BY <1>2, <1>4 DEF PseudoLRUFinding, UsedAreFilled

LEMMA TouchKeepsUsed ==
    ASSUME NEW row \in Row, UsedAreFilled(row), NEW key \in Blocks, row[key].address # 0
    PROVE  UsedAreFilled(Touch(row, key))
<1> DEFINE marked == [row EXCEPT ![key].lastUsage = 1]
           new    == Touch(row, key)
<1>1. \A b \in Blocks : new[b].address = row[b].address
  BY TouchKeeps DEF SameContents
<1>2. CASE IfAllMarked(row)
  BY <1>1, <1>2 DEF UsedAreFilled, IfAllMarked
<1>3. CASE ~IfAllMarked(row)
  <2>1. PICK e \in Blocks : row[e].address = 0 /\ row[e].lastUsage = 0
    BY <1>3 DEF IfAllMarked, UsedAreFilled
  <2>2. /\ marked \in Row /\ marked[key].lastUsage = 1
        /\ \A b \in Blocks \ {key} : marked[b] = row[b]
    BY MarkedRow
  <2> HIDE DEF marked
  <2>3. ChangeLRUBit(marked, key) = marked
    BY <2>1, <2>2, AgeingWaits
  <2>4. new = marked
    BY <2>3 DEF Touch, marked
  <2> QED
    BY <1>1, <1>3, <2>2, <2>4 DEF UsedAreFilled
<1> QED
  BY <1>2, <1>3

LEMMA InstallKeepsUsed ==
    ASSUME NEW row \in Row, UsedAreFilled(row), NEW cell \in CacheCell,
           cell.address # 0, cell.lastUsage = 1
    PROVE  UsedAreFilled(Install(row, PseudoLRUFinding(row), cell))
<1> DEFINE key == PseudoLRUFinding(row)
           new == Install(row, key, cell)
<1> SUFFICES UsedAreFilled(new)
  OBVIOUS
<1>1. key \in Blocks
  BY VictimInBlocks
<1> HIDE DEF key
<1>2. new[key] = cell /\ \A b \in Blocks \ {key} : new[b].address = row[b].address
  BY <1>1, InstallKeeps DEF SameContents
<1>3. \A b \in Blocks \ {key} : new[b] = ChangeLRUBit(row, key)[b]
  BY <1>1, ChangeLRUBitKeeps DEF Install, Row
<1>4. CASE \A b \in Blocks \ {key} : row[b].address # 0
  <2>1. \A b \in Blocks : new[b].address # 0
    BY <1>2, <1>4
  <2> QED
    BY <2>1 DEF UsedAreFilled, IfAllMarked
<1>5. CASE \E b \in Blocks \ {key} : row[b].address = 0
  <2>1. PICK e \in Blocks \ {key} : row[e].address = 0 /\ row[e].lastUsage = 0
    BY <1>5 DEF UsedAreFilled
  <2>2. \A b \in Blocks \ {key} : new[b] = row[b]
    BY <1>1, <1>3, <2>1, AgeingWaits
  <2>3. ~IfAllMarked(row)
    BY <2>1 DEF IfAllMarked
  <2> QED
    BY <1>1, <1>2, <2>2, <2>3 DEF UsedAreFilled
<1> QED
  BY <1>4, <1>5

-----------------------------------------------------------------------------
(***************************************************************************)
(* The two ways a completed response uses a row.                           *)
(***************************************************************************)
Fills(row, new, line) ==
    \E cell \in CacheCell :
        /\ cell.address = line /\ cell.lastUsage = 1
        /\ new = Install(row, PseudoLRUFinding(row), cell)

Hits(row, new, line) ==
    \A b \in Blocks :
        /\ new[b].address = Touch(row, FindEntry(row, line))[b].address
        /\ new[b].lastUsage = Touch(row, FindEntry(row, line))[b].lastUsage

Uses(row, new, line) == IF cacheMiss THEN Fills(row, new, line) ELSE Hits(row, new, line)

LEMMA UseLeavesOneUnused ==
    ASSUME BlockCount > 1, NEW row \in Row, NEW new, NEW line, Uses(row, new, line)
    PROVE  HasUnusedBlock(new)
<1>1. CASE Fills(row, new, line)
  BY <1>1, VictimInBlocks, UnusedAfterUse DEF Fills
<1>2. CASE Hits(row, new, line)
  <2>1. EmptyCell \in CacheCell
    BY EmptyRowType, RowCell, BlockZero DEF EmptyRow
  <2>2. HasUnusedBlock(Touch(row, FindEntry(row, line)))
    BY <2>1, FindEntryFinds, UnusedAfterUse
  <2> QED
    BY <1>2, <2>2 DEF Hits, HasUnusedBlock
<1> QED
  BY <1>1, <1>2 DEF Uses

LEMMA UseKeepsUsed ==
    ASSUME NEW row \in Row, NEW new, NEW line, Uses(row, new, line), line # 0,
           ~cacheMiss => CheckAddress(row, line), UsedAreFilled(row)
    PROVE  UsedAreFilled(new) /\ (Evicts(row, new) => IfAllMarked(row))
<1>1. CASE cacheMiss
  <2> DEFINE key == PseudoLRUFinding(row)
  <2>1. PICK cell \in CacheCell :
          cell.address = line /\ cell.lastUsage = 1 /\ new = Install(row, key, cell)
    BY <1>1 DEF Uses, Fills
  <2>2. UsedAreFilled(new)
    BY <2>1, InstallKeepsUsed
  <2>3. key \in Blocks /\ \A b \in Blocks \ {key} : new[b].address = row[b].address
    BY <2>1, VictimInBlocks, InstallKeeps DEF SameContents
  <2>4. ~IfAllMarked(row) => row[key].address = 0
    BY VictimIsEmpty
  <2> QED
    BY <2>2, <2>3, <2>4 DEF Evicts
<1>2. CASE ~cacheMiss
  <2> DEFINE key == FindEntry(row, line)
  <2>1. key \in Blocks /\ row[key].address # 0
    BY <1>2, FindEntryFinds
  <2>2. /\ UsedAreFilled(Touch(row, key))
        /\ \A b \in Blocks : Touch(row, key)[b].address = row[b].address
    BY <2>1, TouchKeepsUsed, TouchKeeps DEF SameContents
  <2>3. \A b \in Blocks : /\ new[b].address = Touch(row, key)[b].address
                          /\ new[b].lastUsage = Touch(row, key)[b].lastUsage
    BY <1>2 DEF Uses, Hits
  <2> QED
    BY <2>2, <2>3 DEF UsedAreFilled, IfAllMarked, Evicts
<1> QED
  BY <1>1, <1>2

(***************************************************************************)
(* What a step does to the arrays: nothing, or one use of one row.         *)
(***************************************************************************)
CodeUsed ==
    LET i == CodeIndex(requestedIp)
    IN  /\ i \in 0 .. CodeSets - 1
        /\ Uses(codeMemory[i], codeMemory'[i], requestedIp)
        /\ \A j \in (0 .. CodeSets - 1) \ {i} : codeMemory'[j] = codeMemory[j]

DataUsed ==
    LET i == DataIndex(requestedIp)
    IN  /\ i \in 0 .. DataSets - 1
        /\ Uses(dataMemory[i], dataMemory'[i], requestedIp)
        /\ \A j \in (0 .. DataSets - 1) \ {i} : dataMemory'[j] = dataMemory[j]

LEMMA CodeResponseUses ==
    ASSUME MemTypeOK, CodeResponse
    PROVE  CodeUsed /\ dataMemory' = dataMemory
<1> DEFINE i       == CodeIndex(requestedIp)
           row     == codeMemory[i]
           newCell == [address |-> requestedIp, dataLine |-> mem[requestedIp],
                       lastUsage |-> 1, validityBit |-> TRUE]
<1>1. i \in 0 .. CodeSets - 1 /\ row \in Row /\ dataMemory' = dataMemory
  BY RowsInRange DEF MemTypeOK, CodeResponse
<1>2. CASE cacheMiss
  <2>1. newCell \in CacheCell /\ newCell.address = requestedIp /\ newCell.lastUsage = 1
    BY DEF MemTypeOK, CacheCell
  <2>2. codeMemory' = [codeMemory EXCEPT ![i] = Install(row, PseudoLRUFinding(row), newCell)]
    BY <1>2 DEF CodeResponse, CodeFill, CodeRow
  <2> HIDE DEF newCell, i
  <2>3. /\ codeMemory'[i] = Install(row, PseudoLRUFinding(row), newCell)
        /\ \A j \in (0 .. CodeSets - 1) \ {i} : codeMemory'[j] = codeMemory[j]
    BY <1>1, <2>2 DEF MemTypeOK
  <2>4. Fills(row, codeMemory'[i], requestedIp)
    BY <2>1, <2>3 DEF Fills
  <2> QED
    BY <1>1, <1>2, <2>3, <2>4 DEF CodeUsed, Uses, i
<1>3. CASE ~cacheMiss
  <2>1. codeMemory' = [codeMemory EXCEPT ![i] = Touch(row, FindEntry(row, requestedIp))]
    BY <1>3 DEF CodeResponse, CodeHit, CodeRow
  <2> HIDE DEF i
  <2>2. /\ codeMemory'[i] = Touch(row, FindEntry(row, requestedIp))
        /\ \A j \in (0 .. CodeSets - 1) \ {i} : codeMemory'[j] = codeMemory[j]
    BY <1>1, <2>1 DEF MemTypeOK
  <2>3. Hits(row, codeMemory'[i], requestedIp)
    BY <2>2 DEF Hits
  <2> QED
    BY <1>1, <1>3, <2>2, <2>3 DEF CodeUsed, Uses, i
<1> QED
  BY <1>1, <1>2, <1>3

LEMMA DataResponseUses ==
    ASSUME MemTypeOK, NEW data \in Word, NEW type, NEW addr \in Addrs,
           DataResponse(addr, data, type), Completes(type)
    PROVE  DataUsed
<1> DEFINE i   == DataIndex(requestedIp)
           row == dataMemory[i]
<1>1. i \in 0 .. DataSets - 1 /\ row \in Row
  BY RowsInRange DEF MemTypeOK
<1>2. CASE cacheMiss
  <2> DEFINE newCell == [address |-> requestedIp,
                         dataLine |-> StoreInLine(mem[requestedIp], addr, data, type),
                         lastUsage |-> 1, validityBit |-> type # "St"]
  <2>1. requestedIp \in Lines /\ StoreInLine(mem[requestedIp], addr, data, type) \in Line
    BY StoreInLineType DEF MemTypeOK
  <2>2. newCell \in CacheCell /\ newCell.address = requestedIp /\ newCell.lastUsage = 1
    BY <2>1 DEF CacheCell
  <2>3. dataMemory' = [dataMemory EXCEPT ![i] = Install(row, PseudoLRUFinding(row), newCell)]
    BY <1>2 DEF DataResponse, DataReady, Completes, DataFill, DataRow
  <2> HIDE DEF newCell, i
  <2>4. /\ dataMemory'[i] = Install(row, PseudoLRUFinding(row), newCell)
        /\ \A j \in (0 .. DataSets - 1) \ {i} : dataMemory'[j] = dataMemory[j]
    BY <1>1, <2>3 DEF MemTypeOK
  <2>5. Fills(row, dataMemory'[i], requestedIp)
    BY <2>2, <2>4 DEF Fills
  <2> QED
    BY <1>1, <1>2, <2>4, <2>5 DEF DataUsed, Uses, i
<1>3. CASE ~cacheMiss
  <2> DEFINE key     == FindEntry(row, requestedIp)
             touched == Touch(row, key)
             newCell == StoreInCell(touched[key], data, type)
  <2>1. dataMemory' = [dataMemory EXCEPT ![i] = [touched EXCEPT ![key] = newCell]]
    BY <1>3 DEF DataResponse, DataReady, Completes, DataHit, DataRow
  <2>2. key \in Blocks /\ touched \in Row
    BY <1>1, FindEntryFinds, TouchKeeps
  <2>3. touched[key] \in CacheCell
    BY <2>2, RowCell
  <2>4. newCell.address = touched[key].address /\ newCell.lastUsage = touched[key].lastUsage
    BY <2>3 DEF StoreInCell, CacheCell
  <2> HIDE DEF newCell, touched, key, i
  <2>5. /\ dataMemory'[i] = [touched EXCEPT ![key] = newCell]
        /\ \A j \in (0 .. DataSets - 1) \ {i} : dataMemory'[j] = dataMemory[j]
    BY <1>1, <2>1 DEF MemTypeOK
  <2>6. \A b \in Blocks : /\ dataMemory'[i][b].address = touched[b].address
                          /\ dataMemory'[i][b].lastUsage = touched[b].lastUsage
    BY <2>2, <2>4, <2>5 DEF Row
  <2>7. Hits(row, dataMemory'[i], requestedIp)
    BY <2>6 DEF Hits, touched, key
  <2> QED
    BY <1>1, <1>3, <2>5, <2>7 DEF DataUsed, Uses, i
<1> QED
  BY <1>2, <1>3

LEMMA StepUses ==
    ASSUME TypeOK, PipelineTypeOK, [Next]_vars
    PROVE  \/ UNCHANGED <<codeMemory, dataMemory>>
           \/ Fetch /\ CodeUsed /\ dataMemory' = dataMemory
           \/ /\ \/ ClockResume
                 \/ FirstResponse /\ instruction.type \in MemoryTypes
              /\ DataUsed /\ codeMemory' = codeMemory
<1> USE DEF TypeOK
<1>1. CASE Fetch
  BY <1>1, CodeResponseUses DEF Fetch
<1>2. CASE ClockResume
  <2> DEFINE i == waitingInstruction
  <2>1. AddressedOK(i) /\ i.data \in Word /\ waitCycles = 0
    BY <1>2 DEF ClockResume, PipelineTypeOK, AddressedOK, Instruction
  <2>2. DataResponse(i.addr, i.data, i.type) /\ codeMemory' = codeMemory
    BY <1>2 DEF ClockResume, DataResponse
  <2>3. CASE i.type \in MemoryTypes
    BY <1>2, <2>1, <2>2, <2>3, DataResponseUses DEF AddressedOK, Completes
  <2>4. CASE i.type \notin MemoryTypes
    BY <2>2, <2>4 DEF DataResponse
  <2> QED
    BY <2>3, <2>4
<1>3. CASE FirstResponse
  <2> DEFINE i == instruction
  <2>1. AddressedOK(i) /\ i.data \in Word
    BY <1>3 DEF FirstResponse, PipelineTypeOK, AddressedOK, Instruction
  <2>2. DataResponse(i.addr, i.data, i.type) /\ codeMemory' = codeMemory
    BY <1>3 DEF FirstResponse, DataResponse
  <2>3. CASE Completes(i.type)
    BY <1>3, <2>1, <2>2, <2>3, DataResponseUses DEF AddressedOK, Completes
  <2>4. CASE ~Completes(i.type)
    BY <2>2, <2>4 DEF DataResponse, Completes, DataReady
  <2> QED
    BY <2>3, <2>4
<1>4. CASE Execute
  BY <1>4 DEF Execute, DataRequest, memVars
<1>5. CASE ClockFetch
  BY <1>5 DEF ClockFetch, CodeRequest, memVars
<1> QED
  BY <1>1, <1>2, <1>3, <1>4, <1>5
     DEF Next, ClockStall, FetchWait, Write, Tick, Exited, MemClock, vars, memVars

-----------------------------------------------------------------------------
LEMMA RowsOfArrays ==
    ASSUME TypeOK
    PROVE  /\ DOMAIN codeMemory = 0 .. CodeSets - 1
           /\ DOMAIN dataMemory = 0 .. DataSets - 1
           /\ \A i \in 0 .. CodeSets - 1 : codeMemory[i] \in Row
           /\ \A i \in 0 .. DataSets - 1 : dataMemory[i] \in Row
  BY DEF TypeOK, MemTypeOK

(***************************************************************************)
(* In caches of two and more blocks the usage bits of a row are never all  *)
(* set (changeLRUBit), for any program: the search for the least used      *)
(* block always finds one that the latest use did not touch.               *)
(***************************************************************************)
THEOREM UsageNeverSaturates == Spec => []SomeBlockUnused
<1> DEFINE Inv == TypeOK /\ PipelineTypeOK /\ SomeBlockUnused
<1>1. Init => Inv
  <2> SUFFICES ASSUME Init PROVE SomeBlockUnused
    BY InitTypeOK
  <2> QED
    BY BlockZero DEF Init, MemInit, EmptyRow, EmptyCell, SomeBlockUnused, HasUnusedBlock
<1>2. Inv /\ [Next]_vars => Inv'
  <2> SUFFICES ASSUME Inv, [Next]_vars PROVE SomeBlockUnused'
    BY StepTypeOK
  <2> SUFFICES ASSUME BlockCount > 1
               PROVE  /\ \A i \in 0 .. CodeSets - 1 : HasUnusedBlock(codeMemory'[i])
                      /\ \A i \in 0 .. DataSets - 1 : HasUnusedBlock(dataMemory'[i])
    <3>1. DOMAIN codeMemory' = 0 .. CodeSets - 1 /\ DOMAIN dataMemory' = 0 .. DataSets - 1
      BY StepTypeOK DEF TypeOK, MemTypeOK
    <3> QED
      BY <3>1 DEF SomeBlockUnused, HasUnusedBlock
  <2>1. /\ \A i \in 0 .. CodeSets - 1 : codeMemory[i] \in Row /\ HasUnusedBlock(codeMemory[i])
        /\ \A i \in 0 .. DataSets - 1 : dataMemory[i] \in Row /\ HasUnusedBlock(dataMemory[i])
    BY RowsOfArrays DEF SomeBlockUnused
  <2>2. CASE UNCHANGED <<codeMemory, dataMemory>>
    BY <2>1, <2>2
  <2>3. CASE CodeUsed /\ dataMemory' = dataMemory
    <3>1. HasUnusedBlock(codeMemory'[CodeIndex(requestedIp)])
      BY <2>1, <2>3, UseLeavesOneUnused DEF CodeUsed
    <3> QED
      BY <2>1, <2>3, <3>1 DEF CodeUsed
  <2>4. CASE DataUsed /\ codeMemory' = codeMemory
    <3>1. HasUnusedBlock(dataMemory'[DataIndex(requestedIp)])
      BY <2>1, <2>4, UseLeavesOneUnused DEF DataUsed
    <3> QED
      BY <2>1, <2>4, <3>1 DEF DataUsed
  <2> QED
    BY <2>2, <2>3, <2>4, StepUses
<1> QED
  BY <1>1, <1>2, PTL DEF Spec

-----------------------------------------------------------------------------
UsedRows ==
    /\ \A i \in 0 .. CodeSets - 1 : UsedAreFilled(codeMemory[i])
    /\ \A i \in 0 .. DataSets - 1 : UsedAreFilled(dataMemory[i])

(***************************************************************************)
(* A response that uses a row is for a line that can be cached, and one on *)
(* the hit path finds it.                                                  *)
(***************************************************************************)
LEMMA CodeUseFindsLine ==
    ASSUME ProgramPlacement, IInv, pc = "fetch"
    PROVE  /\ requestedIp # 0
           /\ ~cacheMiss => CheckAddress(codeMemory[CodeIndex(requestedIp)], requestedIp)
<1>1. memoryRequestIp = ip /\ CodeRequestValid /\ ip \in CodeAddrs
  BY DEF IInv, FetchOK, TypeOK
<1> QED
  BY <1>1, AddressLines DEF CodeRequestValid, CodeRow, ProgramPlacement

LEMMA DataUseFindsLine ==
    ASSUME ProgramPlacement, IInv,
           Waiting \/ (pc = "dataResponse" /\ instruction.type \in MemoryTypes)
    PROVE  /\ requestedIp # 0
           /\ ~cacheMiss => CheckAddress(dataMemory[DataIndex(requestedIp)], requestedIp)
<1>1. PICK i : i.type \in MemoryTypes /\ InstructionOK(i) /\ PendingAccess(i)
  BY DEF IInv, PipelineOK, RequestStillValid
<1>2. i.addr \in LoadAddrs \cup StoreAddrs
  BY <1>1 DEF InstructionOK, MemoryTypes
<1> QED
  BY <1>1, <1>2, AddressLines DEF PendingAccess, DataRow, ProgramPlacement

(***************************************************************************)
(* A step keeps the filled cells the used ones, and evicts from full rows  *)
(* only.                                                                   *)
(***************************************************************************)
LEMMA StepKeepsUsed ==
    ASSUME ProgramPlacement, IInv, UsedRows, [Next]_vars
    PROVE  /\ UsedRows'
           /\ \A i \in 0 .. CodeSets - 1 :
                 Evicts(codeMemory[i], codeMemory'[i]) => IfAllMarked(codeMemory[i])
           /\ \A i \in 0 .. DataSets - 1 :
                 Evicts(dataMemory[i], dataMemory'[i]) => IfAllMarked(dataMemory[i])
<1>1. /\ \A i \in 0 .. CodeSets - 1 : codeMemory[i] \in Row /\ UsedAreFilled(codeMemory[i])
      /\ \A i \in 0 .. DataSets - 1 : dataMemory[i] \in Row /\ UsedAreFilled(dataMemory[i])
  BY IInvTypes, RowsOfArrays DEF UsedRows
<1>2. CASE UNCHANGED <<codeMemory, dataMemory>>
  BY <1>1, <1>2 DEF UsedRows, Evicts
<1>3. CASE Fetch /\ CodeUsed /\ dataMemory' = dataMemory
  <2> DEFINE i == CodeIndex(requestedIp)
  <2>1. /\ UsedAreFilled(codeMemory'[i])
        /\ Evicts(codeMemory[i], codeMemory'[i]) => IfAllMarked(codeMemory[i])
    <3>1. /\ requestedIp # 0
          /\ ~cacheMiss => CheckAddress(codeMemory[i], requestedIp)
      BY <1>3, CodeUseFindsLine DEF Fetch
    <3>2. /\ codeMemory[i] \in Row /\ UsedAreFilled(codeMemory[i])
          /\ Uses(codeMemory[i], codeMemory'[i], requestedIp)
      BY <1>1, <1>3 DEF CodeUsed
    <3> HIDE DEF i
    <3> QED
      BY <3>1, <3>2, UseKeepsUsed
  <2>2. \A j \in (0 .. CodeSets - 1) \ {i} : codeMemory'[j] = codeMemory[j]
    BY <1>3 DEF CodeUsed
  <2> QED
    BY <1>1, <1>3, <2>1, <2>2 DEF UsedRows, Evicts
<1>4. CASE /\ \/ ClockResume
              \/ FirstResponse /\ instruction.type \in MemoryTypes
           /\ DataUsed /\ codeMemory' = codeMemory
  <2> DEFINE i == DataIndex(requestedIp)
  <2>1. /\ UsedAreFilled(dataMemory'[i])
        /\ Evicts(dataMemory[i], dataMemory'[i]) => IfAllMarked(dataMemory[i])
    <3>1. /\ requestedIp # 0
          /\ ~cacheMiss => CheckAddress(dataMemory[i], requestedIp)
      <4>1. Waiting \/ (pc = "dataResponse" /\ instruction.type \in MemoryTypes)
        BY <1>4 DEF ClockResume, FirstResponse
      <4> QED
        BY <4>1, DataUseFindsLine
    <3>2. /\ dataMemory[i] \in Row /\ UsedAreFilled(dataMemory[i])
          /\ Uses(dataMemory[i], dataMemory'[i], requestedIp)
      BY <1>1, <1>4 DEF DataUsed
    <3> HIDE DEF i
    <3> QED
      BY <3>1, <3>2, UseKeepsUsed
  <2>2. \A j \in (0 .. DataSets - 1) \ {i} : dataMemory'[j] = dataMemory[j]
    BY <1>4 DEF DataUsed
  <2> QED
    BY <1>1, <1>4, <2>1, <2>2 DEF UsedRows, Evicts
<1> QED
  BY <1>2, <1>3, <1>4, IInvTypes, StepUses

(***************************************************************************)
(* A miss fills the empty cells of a row before it evicts a line           *)
(* (pseudoLRUFinding), although it looks at usage bits and not at empty    *)
(* cells.  The premise is needed: a line 0 would be a used cell that       *)
(* counts as empty.                                                        *)
(***************************************************************************)
THEOREM EmptyCellsFirst ==
    ASSUME ProgramPlacement
    PROVE  Spec => EmptyBlocksFirst
<1>1. Init => UsedRows
  BY BlockZero DEF Init, MemInit, EmptyRow, EmptyCell, UsedRows, UsedAreFilled, IfAllMarked
<1>2. IInv /\ UsedRows /\ [Next]_vars => UsedRows'
  BY StepKeepsUsed
<1>3. IInv /\ UsedRows /\ [Next]_vars
        => [/\ \A i \in DOMAIN codeMemory :
                   Evicts(codeMemory[i], codeMemory'[i]) => IfAllMarked(codeMemory[i])
            /\ \A i \in DOMAIN dataMemory :
                   Evicts(dataMemory[i], dataMemory'[i]) => IfAllMarked(dataMemory[i])]_vars
  BY StepKeepsUsed, IInvTypes, RowsOfArrays
<1> QED
  BY <1>1, <1>2, <1>3, Invariance, PTL DEF Spec, EmptyBlocksFirst

-----------------------------------------------------------------------------
(***************************************************************************)
(* The surcharge is owed by a store whose miss will evict a dirty line.    *)
(***************************************************************************)
Owes(i) ==
    waitCycles > FailLatency =>
        /\ i.type = "St"
        /\ cacheMiss
        /\ IsDirty(DataRow(requestedIp)[PseudoLRUFinding(DataRow(requestedIp))])

SurchargeOwed ==
    /\ pc = "dataResponse" /\ instruction.type \in MemoryTypes => Owes(instruction)
    /\ Waiting => Owes(waitingInstruction) /\ pc \in {"clock", "memClock", "done"}

LEMMA OwesFrame ==
    ASSUME NEW i, Owes(i), waitCycles \in Nat, waitCycles' \in Nat, waitCycles' <= waitCycles,
           UNCHANGED <<dataMemory, requestedIp, cacheMiss>>
    PROVE  waitCycles' > FailLatency =>
               /\ i.type = "St"
               /\ cacheMiss'
               /\ IsDirty(DataRow(requestedIp)[PseudoLRUFinding(DataRow(requestedIp))])'
<1>1. DataRow(requestedIp)' = DataRow(requestedIp)
  BY DEF DataRow, DataIndex, Index
<1>2. IsDirty(DataRow(requestedIp)[PseudoLRUFinding(DataRow(requestedIp))])'
        <=> IsDirty(DataRow(requestedIp)[PseudoLRUFinding(DataRow(requestedIp))])
  BY <1>1 DEF IsDirty, PseudoLRUFinding, IfAllMarked, Dirty, LeastUsed
<1> QED
  BY <1>2, LatencyAssumption DEF Owes

LEMMA RequestOwes ==
    ASSUME DataLatency <= FailLatency, NEW i, i.type \in MemoryTypes,
           DataRequest(i.addr, i.type)
    PROVE  waitCycles' > FailLatency =>
               /\ i.type = "St"
               /\ cacheMiss'
               /\ IsDirty(DataRow(requestedIp)[PseudoLRUFinding(DataRow(requestedIp))])'
<1> DEFINE row == DataRow(ToLineAddr(i.addr))
           hit == CheckAddress(row, ToLineAddr(i.addr))
<1> SUFFICES ASSUME waitCycles' > FailLatency
             PROVE  /\ i.type = "St"
                    /\ cacheMiss'
                    /\ IsDirty(DataRow(requestedIp)[PseudoLRUFinding(DataRow(requestedIp))])'
  OBVIOUS
<1>1. /\ waitCycles' = IF hit THEN DataLatency
                       ELSE IF Charges(row, i.type) THEN FailLatency + WriteBackLatency
                       ELSE FailLatency
      /\ cacheMiss' = ~hit /\ requestedIp' = ToLineAddr(i.addr)
      /\ dataMemory' = dataMemory
  BY DEF DataRequest, SetRequest
<1>2. ~hit /\ Charges(row, i.type)
  <2> HIDE DEF hit, row
  <2> QED
    BY <1>1, LatencyAssumption
<1>3. DataRow(requestedIp)' = row
  BY <1>1 DEF DataRow, DataIndex, Index, ToLineAddr
<1> HIDE DEF hit, row
<1>4. IsDirty(row[PseudoLRUFinding(row)]) /\ i.type = "St"
  BY <1>2 DEF Charges
<1>5. IsDirty(DataRow(requestedIp)[PseudoLRUFinding(DataRow(requestedIp))])'
  BY <1>3, <1>4 DEF IsDirty, PseudoLRUFinding, IfAllMarked, Dirty, LeastUsed
<1> QED
  BY <1>1, <1>2, <1>4, <1>5

LEMMA StepSurcharge ==
    ASSUME DataLatency <= FailLatency, TypeOK, TypeOK', SurchargeOwed, [Next]_vars
    PROVE  SurchargeOwed'
<1>1. waitCycles \in Nat /\ waitCycles' \in Nat
  BY DEF TypeOK, MemTypeOK
<1>2. CASE Execute
  <2>1. PICK i \in Decodable : instruction' = i /\ DataRequest(i.addr, i.type)
    BY <1>2 DEF Execute
  <2>2. ~Waiting' /\ pc' = "dataResponse"
    BY <1>2 DEF Execute, SurchargeOwed, Waiting
  <2>3. i.type \in MemoryTypes => Owes(instruction)'
    BY <2>1, RequestOwes DEF Owes
  <2> QED
    BY <2>1, <2>2, <2>3 DEF SurchargeOwed
<1>3. CASE FirstResponse
  <2>1. CASE DataReady(instruction.type)
    BY <1>3, <2>1 DEF FirstResponse, SurchargeOwed, Waiting
  <2>2. CASE ~DataReady(instruction.type)
    <3>1. /\ instruction.type \in MemoryTypes /\ waitingInstruction' = instruction
          /\ pc' = "memClock"
          /\ UNCHANGED <<dataMemory, requestedIp, cacheMiss, waitCycles>>
      BY <1>3, <2>2 DEF FirstResponse, DataResponse, DataReady
    <3>2. Owes(instruction)
      BY <1>3, <3>1 DEF FirstResponse, SurchargeOwed
    <3>3. Owes(waitingInstruction)'
      BY <1>1, <3>1, <3>2, OwesFrame DEF Owes
    <3> QED
      BY <3>1, <3>3 DEF SurchargeOwed
  <2> QED
    BY <2>1, <2>2
<1>4. CASE Tick \/ ClockStall \/ UNCHANGED vars
  <2>1. /\ UNCHANGED <<dataMemory, requestedIp, cacheMiss, instruction, waitingInstruction>>
        /\ waitCycles' <= waitCycles
    BY <1>1, <1>4 DEF Tick, MemClock, CountDown, ClockStall, vars, memVars, cpuVars
  <2>2. /\ pc' = "dataResponse" => pc = "dataResponse"
        /\ Waiting' <=> Waiting
        /\ Waiting => pc' \in {"clock", "memClock", "done"}
    BY <1>4, <2>1 DEF Tick, ClockStall, vars, Waiting, SurchargeOwed
  <2>3. ASSUME NEW i, Owes(i)
        PROVE  waitCycles' > FailLatency =>
                   /\ i.type = "St"
                   /\ cacheMiss'
                   /\ IsDirty(DataRow(requestedIp)[PseudoLRUFinding(DataRow(requestedIp))])'
    BY <1>1, <2>1, <2>3, OwesFrame
  <2>4. /\ Owes(instruction) => Owes(instruction)'
        /\ Owes(waitingInstruction) => Owes(waitingInstruction)'
    <3>1. Owes(instruction) => Owes(instruction)'
      BY <2>1, <2>3 DEF Owes
    <3>2. Owes(waitingInstruction) => Owes(waitingInstruction)'
      BY <2>1, <2>3 DEF Owes
    <3> QED
      BY <3>1, <3>2
  <2> QED
    BY <2>1, <2>2, <2>4 DEF SurchargeOwed
<1>5. CASE ClockFetch \/ ClockResume \/ FetchWait \/ Fetch \/ Write
  BY <1>5 DEF ClockFetch, ClockResume, FetchWait, Fetch, Write, cpuVars, SurchargeOwed, Waiting
<1> QED
  BY <1>2, <1>3, <1>4, <1>5 DEF Next, Exited

(***************************************************************************)
(* Only a store that is going to evict a dirty line waits longer than a    *)
(* miss (CachedMem::Request): the victim seen at request time is still the *)
(* victim when the response evicts it.  A hit must not be slower than a    *)
(* miss, for a hit's latency could otherwise be taken for the surcharge.   *)
(***************************************************************************)
THEOREM SurchargeIsForWriteBack ==
    ASSUME DataLatency <= FailLatency
    PROVE  Spec => []SurchargeOnlyForWriteBack
<1> DEFINE Inv == TypeOK /\ PipelineTypeOK /\ SurchargeOwed
<1>1. Init => Inv
  <2> SUFFICES ASSUME Init PROVE SurchargeOwed
    BY InitTypeOK
  <2> QED
    BY DEF Init, SurchargeOwed, Waiting
<1>2. Inv /\ [Next]_vars => Inv'
  BY StepTypeOK, StepSurcharge
<1>3. Inv => SurchargeOnlyForWriteBack
  BY DEF SurchargeOwed, Owes, SurchargeOnlyForWriteBack
<1> QED
  BY <1>1, <1>2, <1>3, PTL DEF Spec

-----------------------------------------------------------------------------
(***************************************************************************)
(* Cycle accounting: what is left of the cycles granted to the             *)
(* instructions so far and the current one covers, at each place of the    *)
(* loop, the countdown and the waits that may still follow.                *)
(***************************************************************************)
Left     == (numInstr + 1) * MaxCycles - numCycles
DataTime == FailLatency + WriteBackLatency

Fresh == waitCycles = 0 /\ MaxCycles <= Left

CyclesCovered ==
    /\ pc = "clock" /\ ~Waiting =>
          IF memoryRequestIp = ip THEN waitCycles + 1 + DataTime <= Left ELSE Fresh
    /\ pc = "clock" /\ Waiting  => waitCycles + 1 <= Left
    /\ pc = "fetch"             => waitCycles + DataTime <= Left /\ memoryRequestIp = ip
    /\ pc = "execute"           => waitCycles = 0 /\ DataTime <= Left
    /\ pc = "dataResponse"      => waitCycles <= Left
    /\ pc = "dataResponse" /\ instruction.type \notin MemoryTypes => waitCycles = 0
    /\ pc = "write"             => waitCycles = 0 /\ 0 <= Left
    /\ pc = "memClock" /\ ~Waiting =>
          Fresh \/ /\ 0 < waitCycles /\ waitCycles + DataTime <= Left
                   /\ memoryRequestIp = ip
    /\ pc = "memClock" /\ Waiting => 0 < waitCycles /\ waitCycles <= Left
    /\ pc = "done"              => 0 <= Left

InstructionsCovered ==
    /\ numInstr <= numCycles
    /\ pc \in {"fetch", "execute", "dataResponse", "write"} \/ Waiting => numInstr < numCycles
    /\ Waiting => pc \in {"clock", "memClock", "done"}

NotWrapping == numCycles < CounterMod - 1

LEMMA CounterTypes ==
    ASSUME TypeOK
    PROVE  /\ numInstr \in Nat /\ numCycles \in Nat /\ waitCycles \in Nat
           /\ MaxCycles \in Nat /\ DataTime \in Nat /\ Left \in Int
           /\ MaxCycles = 1 + FailLatency + DataTime
           /\ pc \in {"clock", "fetch", "execute", "dataResponse", "write", "memClock", "done"}
<1>1. numInstr \in Nat /\ numCycles \in Nat /\ waitCycles \in Nat
  BY ProgramAssumption DEF TypeOK, MemTypeOK
<1>2. MaxCycles \in Nat /\ DataTime \in Nat /\ MaxCycles = 1 + FailLatency + DataTime
  BY LatencyAssumption DEF MaxCycles, DataTime
<1>3. (numInstr + 1) * MaxCycles \in Nat
  BY <1>1, <1>2
<1> QED
  BY <1>1, <1>2, <1>3 DEF Left, TypeOK

(***************************************************************************)
(* What a step does to the balance while the counters do not wrap.         *)
(***************************************************************************)
LEMMA CountedCycle ==
    ASSUME TypeOK, NotWrapping, CountCycle
    PROVE  numCycles' = numCycles + 1 /\ numInstr' = numInstr /\ Left' = Left - 1
<1>1. numCycles \in Nat /\ CounterMod \in Nat \ {0}
  BY ProgramAssumption, CounterTypes
<1>2. numCycles' = numCycles + 1 /\ numInstr' = numInstr
  BY <1>1 DEF CountCycle, NotWrapping
<1>3. (numInstr + 1) * MaxCycles \in Int
  BY CounterTypes
<1> HIDE DEF NotWrapping
<1> QED
  BY <1>1, <1>2, <1>3 DEF Left, MaxCycles

LEMMA CountedInstruction ==
    ASSUME TypeOK, NotWrapping, InstructionsCovered, Write
    PROVE  /\ numInstr' = numInstr + 1 /\ numCycles' = numCycles
           /\ Left' = Left + MaxCycles
<1>1. /\ numCycles \in Nat /\ numInstr \in Nat /\ MaxCycles \in Nat
      /\ CounterMod \in Nat \ {0}
  BY ProgramAssumption, CounterTypes
<1>2. numInstr + 1 < CounterMod
  BY <1>1 DEF Write, InstructionsCovered, NotWrapping
<1>3. numInstr' = numInstr + 1 /\ numCycles' = numCycles
  BY <1>1, <1>2 DEF Write
<1>4. (numInstr + 1 + 1) * MaxCycles = (numInstr + 1) * MaxCycles + MaxCycles
  BY <1>1
<1>5. (numInstr + 1) * MaxCycles \in Int
  BY <1>1
<1>6. MaxCycles' = MaxCycles
  BY DEF MaxCycles
<1> QED
  BY <1>1, <1>3, <1>4, <1>5, <1>6 DEF Left

LEMMA UncountedStep ==
    ASSUME UNCHANGED <<numInstr, numCycles>> PROVE Left' = Left
  BY DEF Left, MaxCycles

LEMMA InitCycles == Init => CyclesCovered /\ InstructionsCovered
<1> SUFFICES ASSUME Init PROVE CyclesCovered /\ InstructionsCovered
  OBVIOUS
<1>1. /\ waitCycles = 0 /\ ~Waiting /\ numInstr = 0 /\ numCycles = 0 /\ pc = "clock"
  BY DEF Init, MemInit, Waiting
<1>2. MaxCycles \in Nat /\ DataTime \in Nat /\ MaxCycles = 1 + FailLatency + DataTime
  BY LatencyAssumption DEF MaxCycles, DataTime
<1>3. Left = MaxCycles
  BY <1>1, <1>2 DEF Left
<1> QED
  BY <1>1, <1>2, <1>3, LatencyAssumption DEF CyclesCovered, InstructionsCovered, Fresh

LEMMA StepInstructionsCovered ==
    ASSUME TypeOK, NotWrapping, InstructionsCovered, [Next]_vars
    PROVE  InstructionsCovered'
<1>1. numInstr \in Nat /\ numCycles \in Nat
  BY CounterTypes
<1>2. CASE ClockStall \/ ClockFetch \/ ClockResume
  <2>1. numCycles' = numCycles + 1 /\ numInstr' = numInstr
    BY <1>2, CountedCycle DEF ClockStall, ClockFetch, ClockResume
  <2> QED
    BY <1>1, <1>2, <2>1 DEF ClockStall, ClockFetch, ClockResume, cpuVars, Waiting,
                            InstructionsCovered
<1>3. CASE Write
  <2>1. numInstr' = numInstr + 1 /\ numCycles' = numCycles
    BY <1>3, CountedInstruction
  <2> QED
    BY <1>1, <1>3, <2>1 DEF Write, Waiting, InstructionsCovered
<1>4. CASE FetchWait \/ Fetch \/ Execute \/ FirstResponse \/ Tick \/ Exited \/ UNCHANGED vars
  BY <1>4 DEF FetchWait, Fetch, Execute, FirstResponse, Tick, Exited, vars, cpuVars, csrVars,
              Waiting, InstructionsCovered
<1> QED
  BY <1>2, <1>3, <1>4 DEF Next

LEMMA RequestAfforded ==
    ASSUME NEW wait \in Nat, NEW fail \in Nat, NEW data \in Nat, NEW max \in Nat, NEW left \in Int,
           wait <= fail, max = 1 + fail + data, max <= left
    PROVE  wait + data <= left - 1
  OBVIOUS

LEMMA StepCyclesCovered ==
    ASSUME CodeLatency <= FailLatency, DataLatency <= FailLatency, TypeOK, PipelineTypeOK,
           NotWrapping, InstructionsCovered, CyclesCovered, [Next]_vars
    PROVE  CyclesCovered'
<1>1. /\ waitCycles \in Nat /\ MaxCycles \in Nat /\ DataTime \in Nat /\ Left \in Int
      /\ MaxCycles = 1 + FailLatency + DataTime
      /\ FailLatency \in Nat /\ CodeLatency \in Nat /\ DataLatency \in Nat
      /\ WriteBackLatency \in Nat
  BY CounterTypes, LatencyAssumption
<1>2. DataTime' = DataTime /\ MaxCycles' = MaxCycles
  BY DEF DataTime, MaxCycles
<1>3. CASE ClockStall
  <2>1. /\ Left' = Left - 1 /\ waitCycles' = waitCycles /\ waitCycles # 0
        /\ pc = "clock" /\ pc' = "memClock" /\ Waiting' = Waiting
        /\ memoryRequestIp' = memoryRequestIp /\ ip' = ip
    BY <1>3, CountedCycle DEF ClockStall, memVars, cpuVars, Waiting
  <2> QED
    BY <1>1, <1>2, <2>1 DEF CyclesCovered, Fresh
<1>4. CASE ClockFetch
  <2>1. /\ Left' = Left - 1 /\ waitCycles = 0 /\ ~Waiting
        /\ pc = "clock" /\ pc' = "fetch" /\ ip' = ip
        /\ memoryRequestIp' = ip
    BY <1>4, CountedCycle DEF ClockFetch, cpuVars, CodeRequest, SameCodeRequest, memVars
  <2>2. CASE memoryRequestIp = ip
    <3>1. waitCycles' = 0
      BY <1>4, <2>1, <2>2 DEF ClockFetch, CodeRequest, SameCodeRequest, memVars
    <3> QED
      BY <1>1, <1>2, <2>1, <2>2, <3>1 DEF CyclesCovered
  <2>3. CASE memoryRequestIp # ip
    <3>1. waitCycles' \in Nat /\ waitCycles' <= FailLatency
      BY <1>1, <1>4, <2>3 DEF ClockFetch, CodeRequest, SameCodeRequest
    <3>2. MaxCycles <= Left
      BY <2>1, <2>3 DEF CyclesCovered, Fresh
    <3>3. waitCycles' + DataTime <= Left - 1
      BY <1>1, <3>1, <3>2, RequestAfforded
    <3> QED
      BY <1>2, <2>1, <3>3 DEF CyclesCovered
  <2> QED
    BY <2>2, <2>3
<1>5. CASE ClockResume
  <2>1. /\ Left' = Left - 1 /\ waitCycles = 0 /\ waitCycles' = 0 /\ Waiting
        /\ pc = "clock" /\ pc' = "write"
    BY <1>5, CountedCycle DEF ClockResume, DataResponse
  <2> QED
    BY <1>1, <2>1 DEF CyclesCovered
<1>6. CASE FetchWait
  <2>1. /\ Left' = Left /\ waitCycles' = waitCycles /\ waitCycles > 0
        /\ pc = "fetch" /\ pc' = "memClock" /\ Waiting' = Waiting
        /\ memoryRequestIp' = memoryRequestIp /\ ip' = ip
    BY <1>6, UncountedStep DEF FetchWait, memVars, cpuVars, csrVars, Waiting
  <2>2. ~Waiting
    BY <2>1 DEF InstructionsCovered
  <2> QED
    BY <1>1, <1>2, <2>1, <2>2 DEF CyclesCovered
<1>7. CASE Fetch
  <2>1. /\ Left' = Left /\ waitCycles' = waitCycles /\ waitCycles = 0
        /\ pc = "fetch" /\ pc' = "execute"
    BY <1>7, UncountedStep DEF Fetch, CodeResponse, csrVars
  <2> QED
    BY <1>1, <1>2, <2>1 DEF CyclesCovered
<1>8. CASE Execute
  <2>1. /\ Left' = Left /\ waitCycles = 0 /\ DataTime <= Left
        /\ pc = "execute" /\ pc' = "dataResponse"
    BY <1>8, UncountedStep DEF Execute, csrVars, CyclesCovered
  <2>2. PICK i \in Decodable : instruction' = i /\ DataRequest(i.addr, i.type)
    BY <1>8 DEF Execute
  <2>3. i.type \notin MemoryTypes => waitCycles' = 0
    BY <2>1, <2>2 DEF DataRequest, memVars
  <2>4. i.type \in MemoryTypes => waitCycles' \in {DataLatency, FailLatency, DataTime}
    BY <2>2 DEF DataRequest, DataTime
  <2>5. waitCycles' \in Nat /\ waitCycles' <= DataTime
    BY <1>1, <2>3, <2>4 DEF DataTime
  <2> QED
    BY <1>1, <2>1, <2>2, <2>3, <2>5 DEF CyclesCovered
<1>9. CASE FirstResponse
  <2>1. /\ Left' = Left /\ waitCycles' = waitCycles /\ waitCycles <= Left
        /\ pc = "dataResponse" /\ ~Waiting
    BY <1>9, UncountedStep DEF FirstResponse, DataResponse, csrVars, CyclesCovered,
                               InstructionsCovered
  <2>2. CASE DataReady(instruction.type)
    <3>1. waitCycles = 0 /\ pc' = "write"
      BY <1>9, <2>1, <2>2 DEF FirstResponse, DataReady, CyclesCovered
    <3> QED
      BY <1>1, <2>1, <3>1 DEF CyclesCovered
  <2>3. CASE ~DataReady(instruction.type)
    <3>1. waitCycles # 0 /\ pc' = "memClock" /\ waitingInstruction' = instruction
      BY <1>9, <2>3 DEF FirstResponse, DataReady
    <3>2. Waiting'
      BY <2>1, <3>1, SentinelAssumption DEF PipelineTypeOK, AddressedOK, Waiting
    <3> QED
      BY <1>1, <2>1, <3>1, <3>2 DEF CyclesCovered
  <2> QED
    BY <2>2, <2>3
<1>10. CASE Write
  <2>1. /\ Left' = Left + MaxCycles /\ waitCycles' = waitCycles /\ waitCycles = 0
        /\ pc = "write" /\ pc' = "memClock" /\ 0 <= Left /\ ~Waiting /\ ~Waiting'
    BY <1>10, CountedInstruction DEF Write, memVars, CyclesCovered, InstructionsCovered, Waiting
  <2> QED
    BY <1>1, <1>2, <2>1 DEF CyclesCovered, Fresh
<1>11. CASE Tick
  <2>1. /\ Left' = Left /\ waitCycles' = CountDown(waitCycles) /\ pc = "memClock"
        /\ pc' \in {"clock", "done"} /\ Waiting' = Waiting
        /\ memoryRequestIp' = memoryRequestIp /\ ip' = ip
    BY <1>11, UncountedStep DEF Tick, MemClock, cpuVars, Waiting
  <2>2. waitCycles' = IF waitCycles > 0 THEN waitCycles - 1 ELSE waitCycles
    BY <2>1 DEF CountDown
  <2>3. 0 <= Left
    BY <1>1, <2>1 DEF CyclesCovered, Fresh
  <2> QED
    BY <1>1, <1>2, <2>1, <2>2, <2>3 DEF CyclesCovered, Fresh
<1>12. CASE Exited \/ UNCHANGED vars
  <2>1. /\ UNCHANGED <<pc, waitCycles, memoryRequestIp, ip, instruction>>
        /\ Left' = Left /\ Waiting' = Waiting
    BY <1>12, UncountedStep DEF Exited, vars, memVars, cpuVars, csrVars, Waiting
  <2> QED
    BY <1>2, <2>1 DEF CyclesCovered, Fresh
<1> QED
  BY <1>3, <1>4, <1>5, <1>6, <1>7, <1>8, <1>9, <1>10, <1>11, <1>12 DEF Next

(***************************************************************************)
(* As long as the counters have not wrapped, an instruction takes at least *)
(* the cycle it executes in and at most that cycle, a code miss and a      *)
(* store miss with its write-back (Cpu::Clock, CachedMem::Request): no     *)
(* wait is started again or counted twice.  A hit must not be slower than  *)
(* a miss.                                                                 *)
(***************************************************************************)
THEOREM CyclesBounded ==
    ASSUME CodeLatency <= FailLatency, DataLatency <= FailLatency
    PROVE  Spec /\ []NotWrapping => []CycleBounds
<1> DEFINE Inv == TypeOK /\ PipelineTypeOK /\ InstructionsCovered /\ CyclesCovered
<1>1. Init => Inv
  BY InitTypeOK, InitCycles
<1>2. Inv /\ NotWrapping /\ [Next]_vars => Inv'
  BY StepTypeOK, StepInstructionsCovered, StepCyclesCovered
<1>3. Inv => CycleBounds
  <2> SUFFICES ASSUME Inv PROVE CycleBounds
    OBVIOUS
  <2>1. 0 <= Left
    BY CounterTypes DEF CyclesCovered, Fresh
  <2>2. (numInstr + 1) * MaxCycles \in Int /\ numCycles \in Int /\ numInstr \in Nat
    BY CounterTypes
  <2>3. numCycles <= (numInstr + 1) * MaxCycles
    BY <2>1, <2>2 DEF Left
  <2> QED
    BY <2>2, <2>3 DEF CycleBounds, InstructionsCovered
<1> QED
  BY <1>1, <1>2, <1>3, PTL DEF Spec

-----------------------------------------------------------------------------
(***************************************************************************)
(* The lines a cache holds, and what a response adds to them: at most the  *)
(* line it is for, and nothing if it takes the hit path.                   *)
(***************************************************************************)
LEMMA HeldLines ==
    ASSUME TypeOK
    PROVE  /\ \A l : l \in LinesIn(CodeCells) <=>
                 l # 0 /\ \E i \in 0 .. CodeSets - 1, b \in Blocks :
                              codeMemory[i][b].address = l
           /\ \A l : l \in LinesIn(DataCells) <=>
                 l # 0 /\ \E i \in 0 .. DataSets - 1, b \in Blocks :
                              dataMemory[i][b].address = l
  BY RowsOfArrays DEF LinesIn, CodeCells, DataCells, Filled

LEMMA HeldAreFinite ==
    ASSUME TypeOK
    PROVE  /\ IsFiniteSet(LinesIn(CodeCells)) /\ IsFiniteSet(LinesIn(DataCells))
           /\ Cardinality(LinesIn(CodeCells)) \in Nat
           /\ Cardinality(LinesIn(DataCells)) \in Nat
           /\ LinesFilled \in Nat
<1>1. LinesIn(CodeCells) \subseteq Lines /\ LinesIn(DataCells) \subseteq Lines
  BY HeldLines, RowsOfArrays, RowCell
<1>2. IsFiniteSet(Lines)
  BY GeometryAssumption, FS_Interval DEF Lines
<1>3. IsFiniteSet(LinesIn(CodeCells)) /\ IsFiniteSet(LinesIn(DataCells))
  BY <1>1, <1>2, FS_Subset
<1> QED
  BY <1>3, FS_CardinalityType DEF LinesFilled

LEMMA UseAddresses ==
    ASSUME NEW row \in Row, NEW new, NEW line, Uses(row, new, line),
           ~cacheMiss => CheckAddress(row, line)
    PROVE  /\ \A b \in Blocks : new[b].address \in {row[b].address, line}
           /\ ~cacheMiss => \A b \in Blocks : new[b].address = row[b].address
           /\ \E b \in Blocks : new[b].address = line
<1>1. CASE cacheMiss
  <2> DEFINE key == PseudoLRUFinding(row)
  <2>1. PICK cell \in CacheCell :
          cell.address = line /\ cell.lastUsage = 1 /\ new = Install(row, key, cell)
    BY <1>1 DEF Uses, Fills
  <2>2. /\ key \in Blocks /\ new[key] = cell
        /\ \A b \in Blocks \ {key} : new[b].address = row[b].address
    BY <2>1, VictimInBlocks, InstallKeeps DEF SameContents
  <2> QED
    BY <1>1, <2>1, <2>2
<1>2. CASE ~cacheMiss
  <2> DEFINE key == FindEntry(row, line)
  <2>1. key \in Blocks /\ row[key].address = line
    BY <1>2, FindEntryFinds
  <2>2. \A b \in Blocks : new[b].address = row[b].address
    BY <1>2, <2>1, TouchKeeps DEF Uses, Hits, SameContents
  <2> QED
    BY <2>1, <2>2
<1> QED
  BY <1>1, <1>2

LEMMA CodeLinesHeld ==
    ASSUME ProgramPlacement, IInv, TypeOK', pc = "fetch", CodeUsed
    PROVE  /\ LinesIn(CodeCells)' \subseteq LinesIn(CodeCells) \cup {requestedIp}
           /\ requestedIp \in LinesIn(CodeCells)'
           /\ requestedIp = ToLineAddr(ip)
<1> DEFINE i == CodeIndex(requestedIp)
<1>1. requestedIp # 0 /\ requestedIp = ToLineAddr(ip)
  BY CodeUseFindsLine DEF IInv, FetchOK, CodeRequestValid
<1>2. TypeOK /\ i \in 0 .. CodeSets - 1 /\ codeMemory[i] \in Row
  BY IInvTypes, RowsOfArrays DEF CodeUsed
<1>3. ~cacheMiss => CheckAddress(codeMemory[i], requestedIp)
  BY CodeUseFindsLine
<1>4. /\ \A b \in Blocks : codeMemory'[i][b].address \in {codeMemory[i][b].address, requestedIp}
      /\ \E b \in Blocks : codeMemory'[i][b].address = requestedIp
  <2>1. Uses(codeMemory[i], codeMemory'[i], requestedIp)
    BY DEF CodeUsed
  <2> HIDE DEF i
  <2> QED
    BY <1>2, <1>3, <2>1, UseAddresses
<1>5. \A j \in (0 .. CodeSets - 1) \ {i} : codeMemory'[j] = codeMemory[j]
  BY DEF CodeUsed
<1>6. \A l : l \in LinesIn(CodeCells)' <=>
          l # 0 /\ \E j \in 0 .. CodeSets - 1, b \in Blocks : codeMemory'[j][b].address = l
  <2>1. DOMAIN codeMemory' = 0 .. CodeSets - 1
    BY DEF TypeOK, MemTypeOK
  <2> QED
    BY <2>1 DEF LinesIn, CodeCells, Filled
<1> HIDE DEF i
<1>7. LinesIn(CodeCells)' \subseteq LinesIn(CodeCells) \cup {requestedIp}
  BY <1>2, <1>4, <1>5, <1>6, HeldLines
<1>8. requestedIp \in LinesIn(CodeCells)'
  BY <1>1, <1>2, <1>4, <1>6
<1> QED
  BY <1>1, <1>7, <1>8

LEMMA DataLinesHeld ==
    ASSUME ProgramPlacement, IInv, TypeOK', DataUsed,
           Waiting \/ (pc = "dataResponse" /\ instruction.type \in MemoryTypes)
    PROVE  /\ LinesIn(DataCells)' \subseteq LinesIn(DataCells) \cup {requestedIp}
           /\ ~cacheMiss => LinesIn(DataCells)' \subseteq LinesIn(DataCells)
<1> DEFINE i == DataIndex(requestedIp)
<1>1. TypeOK /\ i \in 0 .. DataSets - 1 /\ dataMemory[i] \in Row
  BY IInvTypes, RowsOfArrays DEF DataUsed
<1>2. ~cacheMiss => CheckAddress(dataMemory[i], requestedIp)
  BY DataUseFindsLine
<1>3. /\ \A b \in Blocks : dataMemory'[i][b].address \in {dataMemory[i][b].address, requestedIp}
      /\ ~cacheMiss => \A b \in Blocks : dataMemory'[i][b].address = dataMemory[i][b].address
  <2>1. Uses(dataMemory[i], dataMemory'[i], requestedIp)
    BY DEF DataUsed
  <2> HIDE DEF i
  <2> QED
    BY <1>1, <1>2, <2>1, UseAddresses
<1>4. \A j \in (0 .. DataSets - 1) \ {i} : dataMemory'[j] = dataMemory[j]
  BY DEF DataUsed
<1>5. \A l : l \in LinesIn(DataCells)' <=>
          l # 0 /\ \E j \in 0 .. DataSets - 1, b \in Blocks : dataMemory'[j][b].address = l
  <2>1. DOMAIN dataMemory' = 0 .. DataSets - 1
    BY DEF TypeOK, MemTypeOK
  <2> QED
    BY <2>1 DEF LinesIn, DataCells, Filled
<1> HIDE DEF i
<1> QED
  BY <1>1, <1>3, <1>4, <1>5, HeldLines

(***************************************************************************)
(* Lower accounting: the turns of the loop that are over, or as good as    *)
(* over, have paid for the instructions completed and the lines held, and  *)
(* with what is left of the countdown they pay for the miss under way.     *)
(***************************************************************************)
TurnOver == pc \in {"clock", "done"} \/ (pc = "memClock" /\ waitCycles = 0)
Counted  == numCycles - (IF TurnOver THEN 0 ELSE 1)
Cost     == numInstr + FailLatency * LinesFilled

CodeMissPending ==
    /\ cacheMiss /\ ToLineAddr(ip) \notin LinesIn(CodeCells)
    /\ \/ pc = "fetch"
       \/ pc \in {"clock", "memClock"} /\ ~Waiting /\ memoryRequestIp = ip

DataMissPending ==
    cacheMiss /\ (Waiting \/ (pc = "dataResponse" /\ instruction.type \in MemoryTypes))

WaitsPaid ==
    /\ pc \in {"execute", "dataResponse", "write"} \/ Waiting
          => ToLineAddr(ip) \in LinesIn(CodeCells)
    /\ Cost <= Counted
    /\ CodeMissPending \/ DataMissPending => Cost + FailLatency <= Counted + waitCycles
    /\ pc \in {"execute", "write"} => waitCycles = 0
    /\ pc = "dataResponse" /\ instruction.type \notin MemoryTypes => waitCycles = 0

LEMMA CostTypes ==
    ASSUME TypeOK
    PROVE  /\ Cost \in Nat /\ Counted \in Int /\ waitCycles \in Nat
           /\ numCycles \in Nat /\ FailLatency \in Nat
<1>1. LinesFilled \in Nat /\ FailLatency \in Nat /\ FailLatency * LinesFilled \in Nat
  BY HeldAreFinite, LatencyAssumption
<1> QED
  BY <1>1, CounterTypes DEF Cost, Counted

LEMMA OneMoreLine ==
    ASSUME NEW n \in Nat, NEW m \in Nat, NEW fail \in Nat
    PROVE  /\ m <= n => fail * m <= fail * n
           /\ m <= n + 1 => fail * m <= fail * n + fail
<1>1. ASSUME NEW a \in Nat, NEW b \in Nat, a <= b PROVE fail * a <= fail * b
  <2>1. b - a \in Nat /\ fail * (b - a) \in Nat
    BY <1>1
  <2>2. fail * b = fail * a + fail * (b - a)
    BY <1>1, <2>1
  <2>3. fail * a \in Int
    BY <1>1
  <2> QED
    BY <2>1, <2>2, <2>3
<1>2. fail * (n + 1) = fail * n + fail /\ n + 1 \in Nat
  OBVIOUS
<1> QED
  BY <1>1, <1>2

(***************************************************************************)
(* What a step adds to the cost besides an instruction: nothing, unless a  *)
(* response installs a line, and then at most one miss.                    *)
(***************************************************************************)
LEMMA SameLines ==
    ASSUME UNCHANGED <<codeMemory, dataMemory>>
    PROVE  LinesIn(CodeCells)' = LinesIn(CodeCells) /\ LinesFilled' = LinesFilled
  BY DEF LinesIn, LinesFilled, CodeCells, DataCells, Filled

LEMMA CostKept ==
    ASSUME UNCHANGED <<codeMemory, dataMemory, numInstr>>
    PROVE  LinesIn(CodeCells)' = LinesIn(CodeCells) /\ Cost' = Cost
<1>1. LinesIn(CodeCells)' = LinesIn(CodeCells) /\ LinesFilled' = LinesFilled
  BY SameLines
<1> QED
  BY <1>1 DEF Cost

LEMMA CardinalityOfSum ==
    ASSUME NEW S, IsFiniteSet(S), NEW T, IsFiniteSet(T), NEW x
    PROVE  /\ T \subseteq S => Cardinality(T) <= Cardinality(S)
           /\ T \subseteq S \cup {x} =>
                 Cardinality(T) <= IF x \in S THEN Cardinality(S) ELSE Cardinality(S) + 1
<1>1. /\ IsFiniteSet(S \cup {x})
      /\ Cardinality(S \cup {x}) = IF x \in S THEN Cardinality(S) ELSE Cardinality(S) + 1
  BY FS_AddElement
<1>2. T \subseteq S => Cardinality(T) <= Cardinality(S)
  BY FS_Subset
<1>3. T \subseteq S \cup {x} => Cardinality(T) <= Cardinality(S \cup {x})
  BY <1>1, FS_Subset
<1> QED
  BY <1>1, <1>2, <1>3

LEMMA FetchCost ==
    ASSUME ProgramPlacement, IInv, TypeOK', Fetch
    PROVE  /\ ToLineAddr(ip) \in LinesIn(CodeCells)'
           /\ Cost' \in Int /\ Cost' <= Cost + FailLatency
           /\ ToLineAddr(ip) \in LinesIn(CodeCells) \/ ~cacheMiss => Cost' <= Cost
<1> DEFINE old == LinesIn(CodeCells)
           new == LinesIn(CodeCells)'
           data == Cardinality(LinesIn(DataCells))
<1>1. TypeOK /\ CodeUsed /\ dataMemory' = dataMemory /\ numInstr' = numInstr
  BY IInvTypes, CodeResponseUses DEF Fetch, csrVars
<1>2. /\ new \subseteq old \cup {requestedIp}
      /\ requestedIp \in new /\ requestedIp = ToLineAddr(ip)
  BY <1>1, CodeLinesHeld DEF Fetch
<1>3. /\ IsFiniteSet(old) /\ Cardinality(old) \in Nat /\ data \in Nat
      /\ numInstr \in Nat /\ FailLatency \in Nat
  BY <1>1, HeldAreFinite, CounterTypes, LatencyAssumption
<1>4. IsFiniteSet(new) /\ Cardinality(new) \in Nat
  <2> HIDE DEF old, new
  <2>1. IsFiniteSet(old \cup {requestedIp})
    BY <1>3, FS_AddElement
  <2> QED
    BY <1>2, <2>1, FS_Subset, FS_CardinalityType
<1>5. ~cacheMiss => requestedIp \in old
  <2>1. /\ requestedIp # 0
        /\ ~cacheMiss => CheckAddress(codeMemory[CodeIndex(requestedIp)], requestedIp)
    BY CodeUseFindsLine DEF Fetch
  <2> QED
    BY <1>1, <2>1, HeldLines DEF CheckAddress, CodeUsed
<1>6. Cardinality(LinesIn(DataCells))' = data
  BY <1>1 DEF LinesIn, DataCells, Filled
<1> DEFINE oldCount == Cardinality(old)
           newCount == Cardinality(new)
<1>7. newCount <= IF requestedIp \in old THEN oldCount ELSE oldCount + 1
  <2> HIDE DEF old, new
  <2> QED
    BY <1>2, <1>3, <1>4, CardinalityOfSum
<1>8. /\ Cost  = numInstr + FailLatency * (oldCount + data)
      /\ Cost' = numInstr + FailLatency * (newCount + data)
  BY <1>1, <1>6 DEF Cost, LinesFilled
<1>9. oldCount \in Nat /\ newCount \in Nat
  BY <1>3, <1>4
<1> HIDE DEF oldCount, newCount, data, old
<1>10. /\ oldCount + data \in Nat /\ newCount + data \in Nat
       /\ newCount + data <= (oldCount + data) + 1
       /\ requestedIp \in old => newCount + data <= oldCount + data
  BY <1>3, <1>7, <1>9
<1> DEFINE a == oldCount + data
           b == newCount + data
<1>11. /\ FailLatency * b <= FailLatency * a + FailLatency
       /\ b <= a => FailLatency * b <= FailLatency * a
       /\ FailLatency * a \in Int /\ FailLatency * b \in Int
  BY <1>3, <1>10, OneMoreLine
<1>12. Cost = numInstr + FailLatency * a /\ Cost' = numInstr + FailLatency * b
  BY <1>8
<1>13. requestedIp \in old => b <= a
  BY <1>10
<1> HIDE DEF a, b, new
<1>14. Cost' \in Int /\ Cost' <= Cost + FailLatency /\ (requestedIp \in old => Cost' <= Cost)
  BY <1>3, <1>11, <1>12, <1>13
<1> QED
  BY <1>2, <1>5, <1>14 DEF old, new

LEMMA ResponseCost ==
    ASSUME ProgramPlacement, IInv, TypeOK', DataUsed, codeMemory' = codeMemory,
           numInstr' = numInstr,
           Waiting \/ (pc = "dataResponse" /\ instruction.type \in MemoryTypes)
    PROVE  /\ LinesIn(CodeCells)' = LinesIn(CodeCells)
           /\ Cost' \in Int /\ Cost' <= Cost + FailLatency
           /\ ~cacheMiss => Cost' <= Cost
<1> DEFINE old == LinesIn(DataCells)
           new == LinesIn(DataCells)'
           code == Cardinality(LinesIn(CodeCells))
           oldCount == Cardinality(old)
           newCount == Cardinality(new)
<1>1. TypeOK /\ LinesIn(CodeCells)' = LinesIn(CodeCells)
  BY IInvTypes DEF LinesIn, CodeCells, Filled
<1>2. new \subseteq old \cup {requestedIp} /\ (~cacheMiss => new \subseteq old)
  BY DataLinesHeld
<1>3. /\ IsFiniteSet(old) /\ oldCount \in Nat /\ code \in Nat
      /\ numInstr \in Nat /\ FailLatency \in Nat
  BY <1>1, HeldAreFinite, CounterTypes, LatencyAssumption
<1>4. IsFiniteSet(new) /\ newCount \in Nat
  <2> HIDE DEF old, new
  <2>1. IsFiniteSet(old \cup {requestedIp})
    BY <1>3, FS_AddElement
  <2> QED
    BY <1>2, <2>1, FS_Subset, FS_CardinalityType
<1>5. newCount <= oldCount + 1 /\ (~cacheMiss => newCount <= oldCount)
  <2> HIDE DEF old, new
  <2>1. newCount <= IF requestedIp \in old THEN oldCount ELSE oldCount + 1
    BY <1>2, <1>3, <1>4, CardinalityOfSum
  <2>2. ~cacheMiss => newCount <= oldCount
    BY <1>2, <1>3, <1>4, CardinalityOfSum
  <2> QED
    BY <1>3, <1>4, <2>1, <2>2
<1>6. /\ Cost  = numInstr + FailLatency * (code + oldCount)
      /\ Cost' = numInstr + FailLatency * (code + newCount)
  BY <1>1 DEF Cost, LinesFilled
<1> HIDE DEF oldCount, newCount, code
<1> DEFINE a == code + oldCount
           b == code + newCount
<1>7. a \in Nat /\ b \in Nat /\ b <= a + 1 /\ (~cacheMiss => b <= a)
  BY <1>3, <1>4, <1>5
<1>8. Cost = numInstr + FailLatency * a /\ Cost' = numInstr + FailLatency * b
  BY <1>6
<1> HIDE DEF a, b
<1>9. /\ FailLatency * b <= FailLatency * a + FailLatency
      /\ b <= a => FailLatency * b <= FailLatency * a
      /\ FailLatency * a \in Int /\ FailLatency * b \in Int
  BY <1>3, <1>7, OneMoreLine
<1>10. Cost' \in Int /\ Cost' <= Cost + FailLatency /\ (~cacheMiss => Cost' <= Cost)
  BY <1>3, <1>7, <1>8, <1>9
<1> QED
  BY <1>1, <1>10

LEMMA InitWaitsPaid == Init => WaitsPaid
<1> SUFFICES ASSUME Init PROVE WaitsPaid
  OBVIOUS
<1>1. /\ waitCycles = 0 /\ ~cacheMiss /\ ~Waiting /\ numInstr = 0 /\ numCycles = 0
      /\ pc = "clock"
  BY DEF Init, MemInit, Waiting
<1>2. LinesIn(CodeCells) = {} /\ LinesIn(DataCells) = {}
  <2>1. TypeOK
    BY InitTypeOK
  <2>2. /\ \A i \in 0 .. CodeSets - 1, b \in Blocks : codeMemory[i][b].address = 0
        /\ \A i \in 0 .. DataSets - 1, b \in Blocks : dataMemory[i][b].address = 0
    BY DEF Init, MemInit, EmptyRow, EmptyCell
  <2> QED
    BY <2>1, <2>2, HeldLines
<1>3. LinesFilled = 0
  BY <1>2, FS_EmptySet DEF LinesFilled
<1>4. Cost = 0 /\ Counted = 0
  <2>1. FailLatency * 0 = 0
    BY LatencyAssumption
  <2>2. FailLatency * LinesFilled = 0
    BY <1>3, <2>1
  <2>3. Cost = 0 + 0
    BY <1>1, <2>2 DEF Cost
  <2>4. Counted = 0 - 0
    BY <1>1 DEF Counted, TurnOver
  <2> QED
    BY <2>3, <2>4
<1> QED
  BY <1>1, <1>4 DEF WaitsPaid, CodeMissPending, DataMissPending

(***************************************************************************)
(* The steps, each for a state that has paid.                              *)
(***************************************************************************)
PaidState == IInv /\ InstructionsCovered /\ WaitsPaid /\ NotWrapping

LEMMA PaidTypes ==
    ASSUME PaidState
    PROVE  /\ TypeOK /\ IInv /\ InstructionsCovered /\ NotWrapping
           /\ Cost \in Nat /\ Counted \in Int /\ waitCycles \in Nat
           /\ numCycles \in Nat /\ FailLatency \in Nat /\ Cost <= Counted
<1>1. TypeOK
  BY IInvTypes DEF PaidState
<1> QED
  BY <1>1, CostTypes DEF PaidState, WaitsPaid

LEMMA ClockStallPaid == ASSUME PaidState, ClockStall PROVE WaitsPaid'
<1>1. /\ numCycles' = numCycles + 1 /\ waitCycles' = waitCycles /\ waitCycles # 0
      /\ pc = "clock" /\ pc' = "memClock"
      /\ UNCHANGED <<ip, memoryRequestIp, cacheMiss, codeMemory, dataMemory, numInstr>>
      /\ Waiting' = Waiting
  BY PaidTypes, CountedCycle DEF ClockStall, memVars, cpuVars, Waiting
<1>2. LinesIn(CodeCells)' = LinesIn(CodeCells) /\ Cost' = Cost /\ ToLineAddr(ip)' = ToLineAddr(ip)
  BY <1>1, CostKept DEF ToLineAddr
<1>3. Counted' = Counted
  BY <1>1, PaidTypes DEF Counted, TurnOver
<1> QED
  BY <1>1, <1>2, <1>3 DEF PaidState, WaitsPaid, CodeMissPending, DataMissPending

LEMMA ClockFetchPaid == ASSUME PaidState, ClockFetch PROVE WaitsPaid'
<1>1. /\ numCycles' = numCycles + 1 /\ waitCycles = 0 /\ ~Waiting /\ ~Waiting'
      /\ pc = "clock" /\ pc' = "fetch"
      /\ UNCHANGED <<ip, codeMemory, dataMemory, numInstr>>
  BY PaidTypes, CountedCycle DEF ClockFetch, CodeRequest, memVars, cpuVars, Waiting
<1>2. LinesIn(CodeCells)' = LinesIn(CodeCells) /\ Cost' = Cost /\ ToLineAddr(ip)' = ToLineAddr(ip)
  BY <1>1, CostKept DEF ToLineAddr
<1>3. Counted' = Counted
  BY <1>1, PaidTypes DEF Counted, TurnOver
<1>4. waitCycles' \in Nat
  BY PaidTypes, LatencyAssumption DEF ClockFetch, CodeRequest, memVars
<1>5. CASE memoryRequestIp = ip
  <2>1. cacheMiss' = cacheMiss /\ waitCycles' = 0
    BY <1>1, <1>5 DEF ClockFetch, CodeRequest, SameCodeRequest, memVars
  <2>2. cacheMiss /\ ToLineAddr(ip) \notin LinesIn(CodeCells) => Cost + FailLatency <= Counted
    BY <1>1, <1>5, PaidTypes DEF PaidState, WaitsPaid, CodeMissPending
  <2> QED
    BY <1>1, <1>2, <1>3, <2>1, <2>2, PaidTypes DEF WaitsPaid, CodeMissPending, DataMissPending
<1>6. CASE memoryRequestIp # ip
  <2>1. cacheMiss' => waitCycles' = FailLatency
    BY <1>6 DEF ClockFetch, CodeRequest, SameCodeRequest, SetRequest
  <2> QED
    BY <1>1, <1>2, <1>3, <2>1, PaidTypes DEF WaitsPaid, CodeMissPending, DataMissPending
<1> QED
  BY <1>5, <1>6

LEMMA ClockResumePaid ==
    ASSUME ProgramPlacement, PaidState, TypeOK', ClockResume PROVE WaitsPaid'
<1>1. /\ numCycles' = numCycles + 1 /\ waitCycles = 0 /\ waitCycles' = 0
      /\ Waiting /\ ~Waiting' /\ pc = "clock" /\ pc' = "write"
      /\ UNCHANGED <<ip, codeMemory, numInstr>>
  BY PaidTypes, CountedCycle DEF ClockResume, DataResponse, Waiting
<1>2. Counted' = Counted
  BY <1>1, PaidTypes DEF Counted, TurnOver
<1>3. DataUsed
  <2> DEFINE i == waitingInstruction
  <2>1. InstructionOK(i) /\ i.type \in MemoryTypes /\ PipelineTypeOK /\ MemTypeOK
    BY <1>1, PaidTypes, IInvTypes DEF IInv, PipelineOK
  <2>2. i.addr \in Addrs /\ i.data \in Word /\ Completes(i.type)
    BY <1>1, <2>1 DEF PipelineTypeOK, AddressedOK, Instruction, Completes
  <2> QED
    BY <2>1, <2>2, DataResponseUses DEF ClockResume
<1>4. /\ LinesIn(CodeCells)' = LinesIn(CodeCells)
      /\ Cost' \in Int /\ Cost' <= Cost + FailLatency /\ (~cacheMiss => Cost' <= Cost)
  BY <1>1, <1>3, PaidTypes, ResponseCost
<1>5. /\ ToLineAddr(ip) \in LinesIn(CodeCells) /\ ToLineAddr(ip)' = ToLineAddr(ip)
      /\ cacheMiss => Cost + FailLatency <= Counted
  BY <1>1, PaidTypes DEF PaidState, WaitsPaid, DataMissPending, ToLineAddr
<1>6. Cost' <= Counted
  BY <1>4, <1>5, PaidTypes
<1> QED
  BY <1>1, <1>2, <1>4, <1>5, <1>6 DEF WaitsPaid, CodeMissPending, DataMissPending

LEMMA FetchWaitPaid == ASSUME PaidState, FetchWait PROVE WaitsPaid'
<1>1. /\ waitCycles' = waitCycles /\ waitCycles > 0 /\ pc = "fetch" /\ pc' = "memClock"
      /\ UNCHANGED <<ip, memoryRequestIp, cacheMiss, codeMemory, dataMemory, numInstr, numCycles>>
      /\ Waiting' = Waiting
  BY DEF FetchWait, memVars, cpuVars, csrVars, Waiting
<1>2. LinesIn(CodeCells)' = LinesIn(CodeCells) /\ Cost' = Cost /\ ToLineAddr(ip)' = ToLineAddr(ip)
  BY <1>1, CostKept DEF ToLineAddr
<1>3. Counted' = Counted
  BY <1>1, PaidTypes DEF Counted, TurnOver
<1>4. ~Waiting
  BY <1>1, PaidTypes DEF InstructionsCovered
<1> QED
  BY <1>1, <1>2, <1>3, <1>4 DEF PaidState, WaitsPaid, CodeMissPending, DataMissPending

LEMMA FetchPaid ==
    ASSUME ProgramPlacement, PaidState, TypeOK', Fetch PROVE WaitsPaid'
<1>1. /\ waitCycles' = waitCycles /\ waitCycles = 0 /\ pc = "fetch" /\ pc' = "execute"
      /\ UNCHANGED <<ip, numInstr, numCycles>> /\ ~Waiting'
  BY PaidTypes DEF Fetch, CodeResponse, csrVars, InstructionsCovered, Waiting
<1>2. Counted' = Counted
  BY <1>1, PaidTypes DEF Counted, TurnOver
<1>3. /\ ToLineAddr(ip) \in LinesIn(CodeCells)'
      /\ Cost' \in Int /\ Cost' <= Cost + FailLatency
      /\ ToLineAddr(ip) \in LinesIn(CodeCells) \/ ~cacheMiss => Cost' <= Cost
  BY PaidTypes, FetchCost
<1>4. ToLineAddr(ip)' = ToLineAddr(ip)
  BY <1>1 DEF ToLineAddr
<1>5. cacheMiss /\ ToLineAddr(ip) \notin LinesIn(CodeCells) => Cost + FailLatency <= Counted
  BY <1>1, PaidTypes DEF PaidState, WaitsPaid, CodeMissPending
<1>6. Cost' <= Counted
  BY <1>3, <1>5, PaidTypes
<1> QED
  BY <1>1, <1>2, <1>3, <1>4, <1>6 DEF WaitsPaid, CodeMissPending, DataMissPending

LEMMA ExecutePaid == ASSUME PaidState, Execute PROVE WaitsPaid'
<1>1. /\ pc = "execute" /\ pc' = "dataResponse"
      /\ UNCHANGED <<ip, numInstr, numCycles, codeMemory, dataMemory>> /\ ~Waiting'
  BY PaidTypes DEF Execute, DataRequest, memVars, csrVars, InstructionsCovered, Waiting
<1>2. /\ LinesIn(CodeCells)' = LinesIn(CodeCells) /\ Cost' = Cost /\ Counted' = Counted
      /\ ToLineAddr(ip)' = ToLineAddr(ip) /\ ToLineAddr(ip) \in LinesIn(CodeCells)
      /\ waitCycles = 0
  BY <1>1, CostKept DEF ToLineAddr, Counted, TurnOver, PaidState, WaitsPaid
<1>3. PICK i \in Decodable : instruction' = i /\ DataRequest(i.addr, i.type)
  BY DEF Execute
<1>4. i.type \notin MemoryTypes => waitCycles' = 0
  BY <1>2, <1>3 DEF DataRequest, memVars
<1>5. i.type \in MemoryTypes /\ cacheMiss' => FailLatency <= waitCycles' /\ waitCycles' \in Nat
  <2>1. i.type \in MemoryTypes /\ cacheMiss'
            => waitCycles' \in {FailLatency, FailLatency + WriteBackLatency}
    BY <1>3 DEF DataRequest, SetRequest
  <2> QED
    BY <2>1, LatencyAssumption
<1> QED
  BY <1>1, <1>2, <1>3, <1>4, <1>5, PaidTypes DEF WaitsPaid, CodeMissPending, DataMissPending

LEMMA FirstResponsePaid ==
    ASSUME ProgramPlacement, PaidState, TypeOK', FirstResponse PROVE WaitsPaid'
<1>1. /\ pc = "dataResponse" /\ waitCycles' = waitCycles /\ cacheMiss' = cacheMiss
      /\ UNCHANGED <<ip, numInstr, numCycles, codeMemory>> /\ ~Waiting
  BY PaidTypes DEF FirstResponse, DataResponse, csrVars, InstructionsCovered, Waiting
<1>2. ToLineAddr(ip) \in LinesIn(CodeCells) /\ ToLineAddr(ip)' = ToLineAddr(ip)
  BY <1>1 DEF ToLineAddr, PaidState, WaitsPaid
<1>3. CASE ~DataReady(instruction.type)
  <2>1. /\ waitCycles # 0 /\ pc' = "memClock" /\ dataMemory' = dataMemory
        /\ instruction.type \in MemoryTypes /\ waitingInstruction' = instruction
    BY <1>3 DEF FirstResponse, DataReady, DataResponse
  <2>2. Waiting'
    <3>1. PipelineTypeOK
      BY PaidTypes, IInvTypes
    <3> QED
      BY <1>1, <2>1, <3>1, SentinelAssumption DEF PipelineTypeOK, AddressedOK, Waiting
  <2>3. LinesIn(CodeCells)' = LinesIn(CodeCells) /\ Cost' = Cost /\ Counted' = Counted
    BY <1>1, <2>1, CostKept DEF Counted, TurnOver
  <2>4. cacheMiss => Cost + FailLatency <= Counted + waitCycles
    BY <1>1, <2>1 DEF PaidState, WaitsPaid, DataMissPending
  <2> QED
    BY <1>1, <1>2, <2>1, <2>2, <2>3, <2>4, PaidTypes
       DEF WaitsPaid, CodeMissPending, DataMissPending
<1>4. CASE DataReady(instruction.type)
  <2>1. /\ waitCycles = 0 /\ pc' = "write" /\ ~Waiting' /\ Counted' = Counted
    BY <1>1, <1>4 DEF FirstResponse, DataReady, PaidState, WaitsPaid, Waiting, Counted, TurnOver
  <2>2. LinesIn(CodeCells)' = LinesIn(CodeCells) /\ Cost' <= Counted
    <3>1. CASE instruction.type \in MemoryTypes
      <4>1. DataUsed
        <5>1. PipelineTypeOK /\ MemTypeOK
          BY PaidTypes, IInvTypes
        <5>2. instruction.addr \in Addrs /\ instruction.data \in Word /\ Completes(instruction.type)
          BY <1>1, <2>1, <3>1, <5>1 DEF PipelineTypeOK, AddressedOK, Instruction, Completes
        <5> QED
          BY <5>1, <5>2, DataResponseUses DEF FirstResponse
      <4>2. /\ LinesIn(CodeCells)' = LinesIn(CodeCells)
            /\ Cost' \in Int /\ Cost' <= Cost + FailLatency /\ (~cacheMiss => Cost' <= Cost)
        BY <1>1, <3>1, <4>1, PaidTypes, ResponseCost
      <4>3. cacheMiss => Cost + FailLatency <= Counted
        BY <1>1, <2>1, <3>1, PaidTypes DEF PaidState, WaitsPaid, DataMissPending
      <4> QED
        BY <4>2, <4>3, PaidTypes
    <3>2. CASE instruction.type \notin MemoryTypes
      <4>1. dataMemory' = dataMemory
        BY <3>2 DEF FirstResponse, DataResponse
      <4> QED
        BY <1>1, <4>1, CostKept, PaidTypes
    <3> QED
      BY <3>1, <3>2
  <2> QED
    BY <1>1, <1>2, <2>1, <2>2 DEF WaitsPaid, CodeMissPending, DataMissPending
<1> QED
  BY <1>3, <1>4

(***************************************************************************)
(* The instruction just completed was fetched from a line the cache holds, *)
(* so that one for the same ip has no miss to wait for.                    *)
(***************************************************************************)
LEMMA WritePaid == ASSUME PaidState, Write PROVE WaitsPaid'
<1>1. /\ numInstr' = numInstr + 1 /\ numCycles' = numCycles /\ numInstr \in Nat
      /\ pc = "write" /\ pc' = "memClock" /\ ~Waiting'
      /\ UNCHANGED <<codeMemory, dataMemory, waitCycles, memoryRequestIp>>
  BY PaidTypes, CountedInstruction, CounterTypes DEF Write, memVars, InstructionsCovered, Waiting
<1>2. LinesIn(CodeCells)' = LinesIn(CodeCells) /\ LinesFilled' = LinesFilled
  BY <1>1, SameLines
<1>3. waitCycles = 0 /\ ToLineAddr(ip) \in LinesIn(CodeCells)
  BY <1>1 DEF PaidState, WaitsPaid
<1>4. Counted' = Counted + 1
  BY <1>1, <1>3, PaidTypes DEF Counted, TurnOver
<1>5. Cost' = Cost + 1
  <2>1. LinesFilled \in Nat /\ FailLatency * LinesFilled \in Nat
    BY PaidTypes, HeldAreFinite
  <2> QED
    BY <1>1, <1>2, <2>1 DEF Cost
<1>6. memoryRequestIp = ip
  BY <1>1, PaidTypes DEF IInv, FetchOK
<1>7. ~CodeMissPending'
  BY <1>1, <1>2, <1>3, <1>6 DEF CodeMissPending, ToLineAddr
<1> QED
  BY <1>1, <1>4, <1>5, <1>7, PaidTypes DEF WaitsPaid, DataMissPending

LEMMA TickPaid == ASSUME PaidState, Tick PROVE WaitsPaid'
<1>1. /\ pc = "memClock" /\ pc' \in {"clock", "done"}
      /\ waitCycles' = IF waitCycles > 0 THEN waitCycles - 1 ELSE waitCycles
      /\ UNCHANGED <<ip, memoryRequestIp, cacheMiss, codeMemory, dataMemory, numInstr, numCycles>>
      /\ Waiting' = Waiting
  BY DEF Tick, MemClock, CountDown, cpuVars, Waiting
<1>2. LinesIn(CodeCells)' = LinesIn(CodeCells) /\ Cost' = Cost /\ ToLineAddr(ip)' = ToLineAddr(ip)
  BY <1>1, CostKept DEF ToLineAddr
<1>3. /\ Counted' \in Int /\ Counted <= Counted'
      /\ Counted' + waitCycles' = Counted + waitCycles
  BY <1>1, PaidTypes DEF Counted, TurnOver
<1>4. CodeMissPending' \/ DataMissPending' => CodeMissPending \/ DataMissPending
  BY <1>1, <1>2 DEF CodeMissPending, DataMissPending
<1>5. Cost <= Counted'
  BY <1>3, PaidTypes
<1>6. CodeMissPending' \/ DataMissPending' => Cost + FailLatency <= Counted' + waitCycles'
  BY <1>3, <1>4 DEF PaidState, WaitsPaid
<1> QED
  BY <1>1, <1>2, <1>5, <1>6 DEF PaidState, WaitsPaid

LEMMA StutterPaid == ASSUME PaidState, UNCHANGED vars PROVE WaitsPaid'
<1>1. UNCHANGED <<pc, ip, instruction, waitCycles, memoryRequestIp, cacheMiss,
                  codeMemory, dataMemory, numInstr, numCycles>> /\ Waiting' = Waiting
  BY DEF vars, memVars, cpuVars, csrVars, Waiting
<1>2. LinesIn(CodeCells)' = LinesIn(CodeCells) /\ Cost' = Cost /\ ToLineAddr(ip)' = ToLineAddr(ip)
  BY <1>1, CostKept DEF ToLineAddr
<1>3. Counted' = Counted
  BY <1>1 DEF Counted, TurnOver
<1> QED
  BY <1>1, <1>2, <1>3 DEF PaidState, WaitsPaid, CodeMissPending, DataMissPending

LEMMA StepWaitsPaid ==
    ASSUME ProgramPlacement, PaidState, TypeOK', [Next]_vars PROVE WaitsPaid'
  BY ClockStallPaid, ClockFetchPaid, ClockResumePaid, FetchWaitPaid, FetchPaid, ExecutePaid,
     FirstResponsePaid, WritePaid, TickPaid, StutterPaid DEF Next, Exited

(***************************************************************************)
(* As long as the counters have not wrapped, every miss has been waited    *)
(* for and counted in full before its line is installed (Cpu.h:20-24,      *)
(* CachedMem::Request): the cycle count is at least the instructions and   *)
(* FailLatency for each line the caches hold.  No latency is assumed to    *)
(* exceed another.                                                         *)
(***************************************************************************)
THEOREM WaitsAreCounted ==
    ASSUME ProgramPlacement
    PROVE  Spec /\ []NotWrapping => []WaitsCounted
<1> DEFINE Inv == IInv /\ InstructionsCovered /\ WaitsPaid
<1>1. Init => Inv
  BY InitIInv, InitCycles, InitWaitsPaid
<1>2. Inv /\ NotWrapping /\ [Next]_vars => Inv'
  <2> SUFFICES ASSUME Inv, NotWrapping, [Next]_vars PROVE Inv'
    OBVIOUS
  <2>1. TypeOK /\ IInv'
    BY IInvTypes, StepIInv
  <2>2. InstructionsCovered'
    BY <2>1, StepInstructionsCovered
  <2>3. TypeOK' /\ PaidState
    BY <2>1 DEF IInv, PaidState
  <2> QED
    BY <2>1, <2>2, <2>3, StepWaitsPaid
<1>3. Inv => WaitsCounted
  <2> SUFFICES ASSUME Inv PROVE WaitsCounted
    OBVIOUS
  <2>1. TypeOK
    BY IInvTypes
  <2>2. Cost <= numCycles
    BY <2>1, CostTypes DEF WaitsPaid, Counted
  <2> QED
    BY <2>2 DEF Cost, WaitsCounted
<1> QED
  BY <1>1, <1>2, <1>3, PTL DEF Spec

=============================================================================
