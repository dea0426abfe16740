-------------------------- MODULE CoherenceProofs --------------------------
(***************************************************************************)
(* The caches are coherent with memory and the request registers with the  *)
(* instruction they serve, for every program placed as ProgramPlacement    *)
(* asks.  IInv is the inductive invariant.  From it, the data port is a    *)
(* word memory.                                                            *)
(***************************************************************************)
EXTENDS CpuProofs

(***************************************************************************)
(* The part of IInv about memory and cells.                                *)
(***************************************************************************)
CellsOK == OnlyStoredLinesChange /\ CodeCellsOK /\ DataCellsOK /\ NoTwoCopies

LEMMA CodeLineInMemory ==
    ASSUME ProgramPlacement, MemTypeOK, OnlyStoredLinesChange, NEW line \in CodeLines
    PROVE  line # 0 /\ line \in Lines /\ mem[line] = Image[line]
<1>1. line \in Lines
  BY AddressParts, ProgramAddresses DEF CodeLines, LinesOf
<1> QED
  BY <1>1 DEF ProgramPlacement, OnlyStoredLinesChange

LEMMA AddressLines ==
    /\ \A a \in CodeAddrs : ToLineAddr(a) \in CodeLines
    /\ \A a \in LoadAddrs \cup StoreAddrs : ToLineAddr(a) \in DataLines
    /\ \A a \in StoreAddrs : ToLineAddr(a) \in StoreLines
  BY DEF CodeLines, DataLines, StoreLines, LinesOf

-----------------------------------------------------------------------------
(***************************************************************************)
(* What a code response does to the one row and block it touches.          *)
(***************************************************************************)
LEMMA CodeFillEffect ==
    ASSUME MemTypeOK, CodeResponse, cacheMiss
    PROVE  \E key \in Blocks :
             LET i   == CodeIndex(requestedIp)
                 old == codeMemory[i]
                 new == codeMemory'[i]
             IN  /\ \A j \in (0 .. CodeSets - 1) \ {i} : codeMemory'[j] = codeMemory[j]
                 /\ \A b \in Blocks \ {key} : SameContents(new[b], old[b])
                 /\ new[key].address = requestedIp
                 /\ new[key].dataLine = mem[requestedIp]
                 /\ mem' = IF old[key].address # 0 THEN WriteBack(old[key]) ELSE mem
<1> DEFINE i       == CodeIndex(requestedIp)
           row     == codeMemory[i]
           block   == PseudoLRUFinding(row)
           newCell == [address |-> requestedIp, dataLine |-> mem[requestedIp],
                       lastUsage |-> 1, validityBit |-> TRUE]
<1>1. i \in 0 .. CodeSets - 1 /\ row \in Row
  BY RowsInRange DEF MemTypeOK
<1>2. newCell \in CacheCell
  BY DEF MemTypeOK, CacheCell
<1>3. block \in Blocks
  BY <1>1, VictimInBlocks
<1>4. /\ mem' = IF row[block].address # 0 THEN WriteBack(row[block]) ELSE mem
      /\ codeMemory' = [codeMemory EXCEPT ![i] = Install(row, block, newCell)]
  BY DEF CodeResponse, CodeFill, CodeRow
<1>5. newCell.address = requestedIp /\ newCell.dataLine = mem[requestedIp]
  OBVIOUS
<1> HIDE DEF newCell, block, i
<1>6. /\ codeMemory'[i] = Install(row, block, newCell)
      /\ \A j \in (0 .. CodeSets - 1) \ {i} : codeMemory'[j] = codeMemory[j]
  BY <1>1, <1>4 DEF MemTypeOK
<1>7. /\ Install(row, block, newCell)[block] = newCell
      /\ \A b \in Blocks \ {block} : SameContents(Install(row, block, newCell)[b], row[b])
  BY <1>1, <1>2, <1>3, InstallKeeps
<1>8. WITNESS block \in Blocks
<1> QED
  BY <1>4, <1>5, <1>6, <1>7 DEF i

LEMMA CodeHitEffect ==
    ASSUME MemTypeOK, CodeResponse, ~cacheMiss
    PROVE  /\ mem' = mem
           /\ \A j \in 0 .. CodeSets - 1, b \in Blocks :
                 SameContents(codeMemory'[j][b], codeMemory[j][b])
<1> DEFINE i     == CodeIndex(requestedIp)
           row   == codeMemory[i]
           entry == FindEntry(row, requestedIp)
<1>1. i \in 0 .. CodeSets - 1 /\ row \in Row /\ entry \in Blocks
  BY RowsInRange, FindEntryFinds DEF MemTypeOK
<1>2. /\ codeMemory' = [codeMemory EXCEPT ![i] = Touch(row, entry)]
      /\ mem' = mem
  BY DEF CodeResponse, CodeHit, CodeRow
<1> HIDE DEF i, entry
<1>3. \A b \in Blocks : SameContents(Touch(row, entry)[b], row[b])
  BY <1>1, TouchKeeps
<1>4. ASSUME NEW j \in 0 .. CodeSets - 1, NEW b \in Blocks
      PROVE  SameContents(codeMemory'[j][b], codeMemory[j][b])
  <2>1. CASE j = i
    BY <1>1, <1>2, <1>3, <2>1 DEF MemTypeOK
  <2>2. CASE j # i
    BY <1>2, <2>2 DEF MemTypeOK, SameContents
  <2> QED
    BY <2>1, <2>2
<1> QED
  BY <1>2, <1>4

(***************************************************************************)
(* A code response leaves memory as it is: what it writes back is a line   *)
(* of the program, which memory still holds unchanged.                     *)
(***************************************************************************)
LEMMA CodeResponseCells ==
    ASSUME ProgramPlacement, MemTypeOK, CellsOK, CodeResponse, requestedIp \in CodeLines
    PROVE  CellsOK' /\ mem' = mem
<1>1. dataMemory' = dataMemory
  BY DEF CodeResponse
<1>2. DOMAIN codeMemory = 0 .. CodeSets - 1 /\ DOMAIN codeMemory' = 0 .. CodeSets - 1
  BY CodeResponseType DEF MemTypeOK
<1>3. mem' = mem /\ CodeCellsOK'
  <2>1. CASE cacheMiss
    <3> DEFINE i   == CodeIndex(requestedIp)
               old == codeMemory[i]
               new == codeMemory'[i]
    <3>1. PICK key \in Blocks :
            /\ \A j \in (0 .. CodeSets - 1) \ {i} : codeMemory'[j] = codeMemory[j]
            /\ \A b \in Blocks \ {key} : SameContents(new[b], old[b])
            /\ new[key].address = requestedIp
            /\ new[key].dataLine = mem[requestedIp]
            /\ mem' = IF old[key].address # 0 THEN WriteBack(old[key]) ELSE mem
      BY <2>1, CodeFillEffect
    <3>2. i \in 0 .. CodeSets - 1
      BY RowsInRange DEF MemTypeOK
    <3>3. CodeCellOK(i, old[key])
      BY <1>2, <3>2 DEF CellsOK, CodeCellsOK
    <3>4. mem' = mem
      <4>1. CASE old[key].address # 0
        <5>1. /\ old[key].address \in Lines
              /\ old[key].dataLine = mem[old[key].address]
          BY <3>3, <4>1, CodeLineInMemory DEF CodeCellOK, Filled, CellsOK
        <5> QED
          BY <3>1, <4>1, <5>1 DEF WriteBack, MemTypeOK
      <4> QED
        BY <3>1, <4>1
    <3>5. ASSUME NEW j \in 0 .. CodeSets - 1, NEW b \in Blocks
          PROVE  CodeCellOK(j, codeMemory'[j][b])
      <4>1. CodeCellOK(j, codeMemory[j][b])
        BY <1>2 DEF CellsOK, CodeCellsOK
      <4>2. CASE j = i /\ b = key
        BY <3>1, <4>2, CodeLineInMemory DEF CodeCellOK, CellsOK
      <4>3. CASE j = i /\ b # key
        BY <3>1, <4>1, <4>3 DEF CodeCellOK, Filled, SameContents
      <4>4. CASE j # i
        BY <3>1, <4>1, <4>4
      <4> QED
        BY <4>2, <4>3, <4>4
    <3> QED
      BY <1>2, <3>4, <3>5 DEF CodeCellsOK, CodeCellOK, CodeIndex, Filled
  <2>2. CASE ~cacheMiss
    <3>1. /\ mem' = mem
          /\ \A j \in 0 .. CodeSets - 1, b \in Blocks :
                SameContents(codeMemory'[j][b], codeMemory[j][b])
      BY <2>2, CodeHitEffect
    <3> QED
      BY <1>2, <3>1 DEF CellsOK, CodeCellsOK, CodeCellOK, Filled, SameContents, CodeIndex
  <2> QED
    BY <2>1, <2>2
<1> QED
  BY <1>1, <1>3
     DEF CellsOK, OnlyStoredLinesChange, DataCellsOK, DataCellOK, NoTwoCopies,
         Filled, DataIndex

-----------------------------------------------------------------------------
(***************************************************************************)
(* What a completed data response does to the one row and block it touches.*)
(***************************************************************************)
Completes(type) == type \in MemoryTypes /\ waitCycles = 0

LEMMA DataFillEffect ==
    ASSUME MemTypeOK, NEW data \in Word, NEW type, NEW addr \in Addrs,
           DataResponse(addr, data, type), Completes(type), cacheMiss
    PROVE  \E key \in Blocks :
             LET i   == DataIndex(requestedIp)
                 old == dataMemory[i]
                 new == dataMemory'[i]
             IN  /\ \A j \in (0 .. DataSets - 1) \ {i} : dataMemory'[j] = dataMemory[j]
                 /\ \A b \in Blocks \ {key} : SameContents(new[b], old[b])
                 /\ new[key].address = requestedIp
                 /\ new[key].dataLine = StoreInLine(mem[requestedIp], addr, data, type)
                 /\ new[key].validityBit = (type # "St")
                 /\ mem' = IF IsDirty(old[key]) THEN WriteBack(old[key]) ELSE mem
<1> DEFINE i       == DataIndex(requestedIp)
           row     == dataMemory[i]
           block   == PseudoLRUFinding(row)
           newCell == [address |-> requestedIp,
                       dataLine |-> StoreInLine(mem[requestedIp], addr, data, type),
                       lastUsage |-> 1, validityBit |-> type # "St"]
<1>1. i \in 0 .. DataSets - 1 /\ row \in Row
  BY RowsInRange DEF MemTypeOK
<1>2. newCell \in CacheCell
  <2>1. requestedIp \in Lines /\ mem[requestedIp] \in Line
    BY DEF MemTypeOK
  <2>2. StoreInLine(mem[requestedIp], addr, data, type) \in Line
    BY <2>1, StoreInLineType
  <2> QED
    BY <2>1, <2>2 DEF CacheCell
<1>3. block \in Blocks
  BY <1>1, VictimInBlocks
<1>4. /\ mem' = IF IsDirty(row[block]) THEN WriteBack(row[block]) ELSE mem
      /\ dataMemory' = [dataMemory EXCEPT ![i] = Install(row, block, newCell)]
  BY DEF DataResponse, DataReady, Completes, DataFill, DataRow
<1>5. /\ newCell.address = requestedIp
      /\ newCell.dataLine = StoreInLine(mem[requestedIp], addr, data, type)
      /\ newCell.validityBit = (type # "St")
  OBVIOUS
<1> HIDE DEF newCell, block, i
<1>6. /\ dataMemory'[i] = Install(row, block, newCell)
      /\ \A j \in (0 .. DataSets - 1) \ {i} : dataMemory'[j] = dataMemory[j]
  BY <1>1, <1>4 DEF MemTypeOK
<1>7. /\ Install(row, block, newCell)[block] = newCell
      /\ \A b \in Blocks \ {block} : SameContents(Install(row, block, newCell)[b], row[b])
  BY <1>1, <1>2, <1>3, InstallKeeps
<1>8. WITNESS block \in Blocks
<1> QED
  BY <1>4, <1>5, <1>6, <1>7 DEF i

LEMMA DataHitEffect ==
    ASSUME MemTypeOK, NEW data \in Word, NEW type, NEW addr,
           DataResponse(addr, data, type), Completes(type), ~cacheMiss
    PROVE  LET i   == DataIndex(requestedIp)
               old == dataMemory[i]
               new == dataMemory'[i]
               key == FindEntry(old, requestedIp)
           IN  /\ mem' = mem
               /\ \A j \in (0 .. DataSets - 1) \ {i} : dataMemory'[j] = dataMemory[j]
               /\ \A b \in Blocks \ {key} : SameContents(new[b], old[b])
               /\ new[key].address = old[key].address
               /\ type # "St" => SameContents(new[key], old[key])
               /\ type = "St" => ~new[key].validityBit
<1> DEFINE i       == DataIndex(requestedIp)
           row     == dataMemory[i]
           key     == FindEntry(row, requestedIp)
           touched == Touch(row, key)
           newCell == StoreInCell(touched[key], data, type)
<1>1. i \in 0 .. DataSets - 1 /\ row \in Row /\ key \in Blocks
  BY RowsInRange, FindEntryFinds DEF MemTypeOK
<1>2. /\ dataMemory' = [dataMemory EXCEPT ![i] = [touched EXCEPT ![key] = newCell]]
      /\ mem' = mem
  BY DEF DataResponse, DataReady, Completes, DataHit, DataRow
<1>3. touched \in Row /\ \A b \in Blocks : SameContents(touched[b], row[b])
  BY <1>1, TouchKeeps
<1>4. touched[key] \in CacheCell
  BY <1>1, <1>3, RowCell
<1> HIDE DEF i, key, touched
<1>5. /\ newCell.address = touched[key].address
      /\ type # "St" => newCell = touched[key]
      /\ type = "St" => ~newCell.validityBit
  BY <1>4 DEF StoreInCell, CacheCell
<1> HIDE DEF newCell
<1>6. /\ dataMemory'[i] = [touched EXCEPT ![key] = newCell]
      /\ \A j \in (0 .. DataSets - 1) \ {i} : dataMemory'[j] = dataMemory[j]
  BY <1>1, <1>2 DEF MemTypeOK
<1>7. /\ dataMemory'[i][key] = newCell
      /\ \A b \in Blocks \ {key} : dataMemory'[i][b] = touched[b]
  BY <1>1, <1>3, <1>6 DEF Row
<1> QED
  BY <1>1, <1>2, <1>3, <1>5, <1>6, <1>7 DEF i, key, SameContents

(***************************************************************************)
(* A data response keeps memory and cells coherent.                        *)
(***************************************************************************)
LEMMA DataResponseCells ==
    ASSUME ProgramPlacement, MemTypeOK, CellsOK, NEW data \in Word, NEW type,
           NEW addr \in LoadAddrs \cup StoreAddrs, type = "St" => addr \in StoreAddrs,
           DataResponse(addr, data, type), Completes(type),
           requestedIp = ToLineAddr(addr),
           cacheMiss <=> ~CheckAddress(DataRow(requestedIp), requestedIp)
    PROVE  CellsOK'
<1> DEFINE i   == DataIndex(requestedIp)
           old == dataMemory[i]
           new == dataMemory'[i]
<1>1. i \in 0 .. DataSets - 1
  BY RowsInRange DEF MemTypeOK
<1>2. addr \in Addrs
  BY ProgramAddresses
<1>3. /\ DOMAIN dataMemory = 0 .. DataSets - 1
      /\ DOMAIN dataMemory' = 0 .. DataSets - 1
  BY <1>2, DataResponseType DEF MemTypeOK
<1>4. /\ requestedIp \in DataLines /\ requestedIp # 0
      /\ type = "St" => requestedIp \in StoreLines
  BY AddressLines DEF ProgramPlacement
<1>5. codeMemory' = codeMemory
  BY DEF DataResponse
<1>6. ASSUME NEW j \in 0 .. DataSets - 1, NEW b \in Blocks
      PROVE  DataCellOK(j, dataMemory[j][b], mem)
  BY <1>3 DEF CellsOK, DataCellsOK
<1>7. ASSUME NEW j \in 0 .. DataSets - 1, NEW b \in Blocks, NEW c \in Blocks,
             Filled(dataMemory[j][b]), dataMemory[j][b].address = dataMemory[j][c].address
      PROVE  b = c
  BY <1>3, <1>7 DEF CellsOK, NoTwoCopies
<1>8. CASE cacheMiss
  <2>1. PICK key \in Blocks :
          /\ \A j \in (0 .. DataSets - 1) \ {i} : dataMemory'[j] = dataMemory[j]
          /\ \A b \in Blocks \ {key} : SameContents(new[b], old[b])
          /\ new[key].address = requestedIp
          /\ new[key].dataLine = StoreInLine(mem[requestedIp], addr, data, type)
          /\ new[key].validityBit = (type # "St")
          /\ mem' = IF IsDirty(old[key]) THEN WriteBack(old[key]) ELSE mem
    BY <1>2, <1>8, DataFillEffect
  <2>2. \A b \in Blocks : old[b].address # requestedIp
    BY <1>8 DEF CheckAddress, DataRow
  <2>3. DataCellOK(i, old[key], mem)
    BY <1>1, <1>6
  <2>4. ASSUME NEW line \in Lines, IsDirty(old[key]) => line # old[key].address
        PROVE  mem'[line] = mem[line]
    BY <2>1, <2>4 DEF WriteBack, MemTypeOK
  <2>5. OnlyStoredLinesChange'
    <3>1. IsDirty(old[key]) => old[key].address \in StoreLines
      BY <2>3 DEF DataCellOK, IsDirty, Filled
    <3> QED
      BY <2>4, <3>1 DEF CellsOK, OnlyStoredLinesChange
  <2>6. ASSUME NEW j \in 0 .. DataSets - 1, NEW b \in Blocks, j # i \/ b # key
        PROVE  DataCellOK(j, dataMemory'[j][b], mem')
    <3>1. DataCellOK(j, dataMemory[j][b], mem)
      BY <1>6
    <3>2. SameContents(dataMemory'[j][b], dataMemory[j][b])
      BY <2>1, <2>6 DEF SameContents
    <3>3. Filled(dataMemory[j][b]) /\ IsDirty(old[key])
             => dataMemory[j][b].address # old[key].address
      <4>1. CASE j = i
        BY <1>7, <2>6, <4>1
      <4>2. CASE j # i
        BY <2>3, <3>1, <4>2 DEF DataCellOK, IsDirty, Filled
      <4> QED
        BY <4>1, <4>2
    <3>4. Filled(dataMemory[j][b]) =>
             mem'[dataMemory[j][b].address] = mem[dataMemory[j][b].address]
      BY <2>4, <3>3, RowCell DEF MemTypeOK
    <3> QED
      BY <3>1, <3>2, <3>4 DEF DataCellOK, Filled, SameContents
  <2>7. DataCellOK(i, new[key], mem')
    <3>1. mem'[requestedIp] = mem[requestedIp]
      BY <2>2, <2>4 DEF MemTypeOK
    <3>2. type # "St" => new[key].dataLine = mem[requestedIp]
      BY <2>1 DEF StoreInLine
    <3> QED
      BY <1>4, <2>1, <3>1, <3>2 DEF DataCellOK
  <2>8. DataCellsOK'
    <3>1. ASSUME NEW j \in 0 .. DataSets - 1, NEW b \in Blocks
          PROVE  DataCellOK(j, dataMemory'[j][b], mem')
      BY <2>6, <2>7
    <3> QED
      BY <1>3, <3>1 DEF DataCellsOK, DataCellOK, Filled, DataIndex
  <2>9. NoTwoCopies'
    <3>1. ASSUME NEW j \in 0 .. DataSets - 1, NEW b \in Blocks, NEW c \in Blocks,
                 Filled(dataMemory'[j][b]),
                 dataMemory'[j][b].address = dataMemory'[j][c].address
          PROVE  b = c
      <4>1. CASE j # i
        BY <1>7, <2>1, <3>1, <4>1
      <4>2. CASE j = i
        BY <1>7, <2>1, <2>2, <3>1, <4>2 DEF Filled, SameContents
      <4> QED
        BY <4>1, <4>2
    <3> QED
      BY <1>3, <3>1 DEF NoTwoCopies, Filled
  <2> QED
    BY <1>5, <2>5, <2>8, <2>9
       DEF CellsOK, CodeCellsOK, CodeCellOK, Filled, CodeIndex
<1>9. CASE ~cacheMiss
  <2> DEFINE key == FindEntry(old, requestedIp)
  <2>1. /\ mem' = mem
        /\ \A j \in (0 .. DataSets - 1) \ {i} : dataMemory'[j] = dataMemory[j]
        /\ \A b \in Blocks \ {key} : SameContents(new[b], old[b])
        /\ new[key].address = old[key].address
        /\ type # "St" => SameContents(new[key], old[key])
        /\ type = "St" => ~new[key].validityBit
    BY <1>9, DataHitEffect
  <2>2. key \in Blocks /\ old[key].address = requestedIp
    BY <1>9, FindEntryFinds DEF DataRow
  <2> HIDE DEF key
  <2>3. ASSUME NEW j \in 0 .. DataSets - 1, NEW b \in Blocks
        PROVE  /\ DataCellOK(j, dataMemory'[j][b], mem')
               /\ dataMemory'[j][b].address = dataMemory[j][b].address
    <3>1. DataCellOK(j, dataMemory[j][b], mem)
      BY <1>6
    <3>2. CASE j = i /\ b = key /\ type = "St"
      BY <1>4, <2>1, <2>2, <3>1, <3>2 DEF DataCellOK, Filled
    <3>3. CASE ~(j = i /\ b = key /\ type = "St")
      <4>1. SameContents(dataMemory'[j][b], dataMemory[j][b])
        BY <2>1, <3>3 DEF SameContents
      <4> QED
        BY <2>1, <3>1, <4>1 DEF DataCellOK, Filled, SameContents
    <3> QED
      BY <3>2, <3>3
  <2>4. DataCellsOK'
    BY <1>3, <2>3 DEF DataCellsOK, DataCellOK, Filled, DataIndex
  <2>5. NoTwoCopies'
    BY <1>3, <1>7, <2>3 DEF NoTwoCopies, Filled
  <2> QED
    BY <1>5, <2>1, <2>4, <2>5
       DEF CellsOK, OnlyStoredLinesChange, CodeCellsOK, CodeCellOK, Filled, CodeIndex
<1> QED
  BY <1>8, <1>9

-----------------------------------------------------------------------------
(***************************************************************************)
(* The request registers.                                                  *)
(***************************************************************************)
LEMMA CellsFrame ==
    ASSUME CellsOK, UNCHANGED <<mem, codeMemory, dataMemory>>
    PROVE  CellsOK'
  BY DEF CellsOK, OnlyStoredLinesChange, CodeCellsOK, CodeCellOK, DataCellsOK,
         DataCellOK, NoTwoCopies, Filled, CodeIndex, DataIndex

LEMMA CodeRegistersFrame ==
    ASSUME UNCHANGED <<codeMemory, memoryRequestIp, requestedIp, requestedOffset, cacheMiss>>
    PROVE  CodeRequestValid' <=> CodeRequestValid
  BY DEF CodeRequestValid, CheckAddress, CodeRow, CodeIndex, Index,
         ToLineAddr, ToLineOffset

(***************************************************************************)
(* After a code request the registers are those of its ip, dropped or not. *)
(***************************************************************************)
LEMMA CodeRequestRegisters ==
    ASSUME NEW addr, CodeRequest(addr), memoryRequestIp = addr => CodeRequestValid
    PROVE  /\ CodeRequestValid'
           /\ memoryRequestIp' = addr
           /\ UNCHANGED <<mem, codeMemory, dataMemory>>
<1>1. CASE SameCodeRequest(addr)
  <2>1. memoryRequestIp = addr /\ UNCHANGED memVars
    BY <1>1 DEF CodeRequest, SameCodeRequest
  <2> QED
    BY <2>1, CodeRegistersFrame DEF memVars
<1>2. CASE ~SameCodeRequest(addr)
  <2>1. /\ memoryRequestIp' = addr
        /\ SetRequest(addr, CheckAddress(CodeRow(ToLineAddr(addr)), ToLineAddr(addr)))
        /\ UNCHANGED <<mem, codeMemory, dataMemory>>
    BY <1>2 DEF CodeRequest
  <2>2. CodeRequestValid'
    BY <2>1 DEF SetRequest, CodeRequestValid, CheckAddress, CodeRow, CodeIndex, Index,
                ToLineAddr, ToLineOffset
  <2> QED
    BY <2>1, <2>2
<1> QED
  BY <1>1, <1>2

(***************************************************************************)
(* A code response returns the word of the program, and the line it found  *)
(* stays findable.                                                         *)
(***************************************************************************)
LEMMA CodeResponseWord ==
    ASSUME ProgramPlacement, MemTypeOK, CellsOK, CodeRequestValid,
           memoryRequestIp \in CodeAddrs
    PROVE  CodeWord = ImageWord(memoryRequestIp)
<1>1. requestedIp \in CodeLines /\ requestedIp \in Lines
  BY AddressLines DEF CodeRequestValid, MemTypeOK
<1>2. CASE cacheMiss
  BY <1>1, <1>2, CodeLineInMemory DEF CodeWord, ImageWord, CodeRequestValid, CellsOK
<1>3. CASE ~cacheMiss
  <2> DEFINE i     == CodeIndex(requestedIp)
             entry == FindEntry(codeMemory[i], requestedIp)
  <2>1. i \in 0 .. CodeSets - 1 /\ codeMemory[i] \in Row
    BY <1>1, RowsInRange DEF MemTypeOK
  <2>2. entry \in Blocks /\ codeMemory[i][entry].address = requestedIp
    BY <1>3, <2>1, FindEntryFinds DEF CodeRequestValid, CodeRow
  <2>3. CodeWord = codeMemory[i][entry].dataLine[requestedOffset]
    BY <1>3 DEF CodeWord, CodeRow
  <2> HIDE DEF i, entry
  <2>4. CodeCellOK(i, codeMemory[i][entry])
    BY <2>1, <2>2 DEF CellsOK, CodeCellsOK, MemTypeOK
  <2>5. codeMemory[i][entry].dataLine = Image[requestedIp]
    BY <1>1, <2>2, <2>4, CodeLineInMemory DEF CodeCellOK, Filled, CellsOK
  <2> QED
    BY <2>3, <2>5 DEF ImageWord, CodeRequestValid
<1> QED
  BY <1>2, <1>3

LEMMA CodeResponseRegisters ==
    ASSUME MemTypeOK, CodeResponse, CodeRequestValid
    PROVE  /\ CodeRequestValid'
           /\ UNCHANGED <<dataMemory, memoryRequestIp, requestedIp, requestedOffset, cacheMiss>>
<1>1. UNCHANGED <<dataMemory, memoryRequestIp, requestedIp, requestedOffset, cacheMiss>>
  BY DEF CodeResponse
<1>2. CASE cacheMiss
  BY <1>1, <1>2 DEF CodeRequestValid, ToLineAddr, ToLineOffset
<1>3. CASE ~cacheMiss
  <2>1. \A j \in 0 .. CodeSets - 1, b \in Blocks :
           codeMemory'[j][b].address = codeMemory[j][b].address
    BY <1>3, CodeHitEffect DEF SameContents
  <2>2. CodeIndex(requestedIp) \in 0 .. CodeSets - 1
    BY RowsInRange DEF MemTypeOK
  <2>3. \E b \in Blocks : codeMemory[CodeIndex(requestedIp)][b].address = requestedIp
    BY <1>3 DEF CodeRequestValid, CheckAddress, CodeRow
  <2>4. \E b \in Blocks : codeMemory'[CodeIndex(requestedIp)][b].address = requestedIp
    BY <2>1, <2>2, <2>3
  <2> QED
    BY <1>1, <2>4 DEF CodeRequestValid, CheckAddress, CodeRow, CodeIndex, Index,
                      ToLineAddr, ToLineOffset
<1> QED
  BY <1>1, <1>2, <1>3

(***************************************************************************)
(* After a data request the registers are those of its access.             *)
(***************************************************************************)
LEMMA DataRequestRegisters ==
    ASSUME NEW i, i.type \in MemoryTypes, DataRequest(i.addr, i.type), instruction' = i
    PROVE  /\ PendingAccess(instruction)'
           /\ UNCHANGED <<mem, codeMemory, dataMemory, memoryRequestIp>>
<1> DEFINE line == ToLineAddr(i.addr)
<1>1. /\ SetRequest(i.addr, CheckAddress(DataRow(line), line))
      /\ UNCHANGED <<mem, codeMemory, dataMemory, memoryRequestIp>>
  BY DEF DataRequest
<1>2. PendingAccess(instruction)'
  BY <1>1 DEF SetRequest, PendingAccess, CheckAddress, DataRow, DataIndex, Index,
              ToLineAddr, ToLineOffset
<1> QED
  BY <1>1, <1>2

-----------------------------------------------------------------------------
(***************************************************************************)
(* IInv is inductive: what holds initially, and one step per action.       *)
(***************************************************************************)
LEMMA InitIInv == ProgramPlacement /\ Init => IInv
<1> SUFFICES ASSUME ProgramPlacement, Init PROVE IInv
  OBVIOUS
<1>1. TypeOK
  BY InitTypeOK
<1>2. CodeCellsOK /\ DataCellsOK /\ NoTwoCopies
  BY DEF Init, MemInit, EmptyRow, EmptyCell, CodeCellsOK, CodeCellOK, DataCellsOK,
         DataCellOK, NoTwoCopies, Filled
<1>3. OnlyStoredLinesChange
  BY DEF Init, MemInit, OnlyStoredLinesChange
<1>4. memoryRequestIp # ip
  <2>1. ToLineAddr(ResetIp) # 0
    BY AddressLines, ProgramAssumption DEF ProgramPlacement
  <2> QED
    BY <2>1, AddressZero DEF Init, MemInit
<1>5. FetchOK /\ PipelineOK /\ RequestStillValid /\ FetchedWordIsProgram
  BY <1>4 DEF Init, FetchOK, PipelineOK, RequestStillValid, FetchedWordIsProgram, Waiting
<1> QED
  BY <1>1, <1>2, <1>3, <1>5 DEF IInv

LEMMA IInvTypes ==
    ASSUME IInv
    PROVE  TypeOK /\ MemTypeOK /\ PipelineTypeOK /\ CellsOK
<1>1. ASSUME NEW i, InstructionOK(i) PROVE AddressedOK(i)
  BY <1>1, ProgramAddresses DEF InstructionOK, AddressedOK, MemoryTypes
<1> QED
  BY <1>1 DEF IInv, PipelineOK, PipelineTypeOK, CellsOK, TypeOK

LEMMA ClockStallIInv ==
    ASSUME IInv, ClockStall PROVE CellsOK' /\ PipelineOK' /\ RequestStillValid' /\ FetchOK'
                                  /\ FetchedWordIsProgram'
<1> USE DEF ClockStall, memVars, cpuVars
<1>1. CellsOK'
  BY IInvTypes, CellsFrame
<1>2. CodeRequestValid' <=> CodeRequestValid
  BY CodeRegistersFrame
<1>3. PipelineOK' /\ FetchOK' /\ FetchedWordIsProgram'
  BY <1>2 DEF IInv, PipelineOK, InstructionOK, FetchOK, FetchedWordIsProgram, Waiting
<1>4. RequestStillValid'
  BY DEF IInv, RequestStillValid, PendingAccess, Waiting, CheckAddress, DataRow, DataIndex
<1> QED
  BY <1>1, <1>3, <1>4

LEMMA ClockFetchIInv ==
    ASSUME IInv, ClockFetch PROVE CellsOK' /\ PipelineOK' /\ RequestStillValid' /\ FetchOK'
                                  /\ FetchedWordIsProgram'
<1>1. CodeRequest(ip) /\ (memoryRequestIp = ip => CodeRequestValid)
  BY DEF ClockFetch, IInv, FetchOK
<1>2. /\ CodeRequestValid'
      /\ memoryRequestIp' = ip
      /\ UNCHANGED <<mem, codeMemory, dataMemory>>
  BY <1>1, CodeRequestRegisters
<1>3. CellsOK'
  BY <1>2, IInvTypes, CellsFrame
<1> QED
  BY <1>2, <1>3 DEF ClockFetch, cpuVars, PipelineOK, RequestStillValid, FetchOK,
                    FetchedWordIsProgram, Waiting

LEMMA ClockResumeIInv ==
    ASSUME ProgramPlacement, IInv, ClockResume
    PROVE  CellsOK' /\ PipelineOK' /\ RequestStillValid' /\ FetchOK' /\ FetchedWordIsProgram'
<1> DEFINE i == waitingInstruction
<1>1. /\ InstructionOK(i) /\ i.type \in MemoryTypes /\ i.data \in Word
      /\ PendingAccess(i)
      /\ waitCycles = 0 /\ memoryRequestIp = ip
  BY DEF ClockResume, IInv, PipelineOK, RequestStillValid, FetchOK, InstructionOK, Instruction
<1>2. DataResponse(i.addr, i.data, i.type) /\ UNCHANGED <<ip, memoryRequestIp>>
  BY DEF ClockResume, DataResponse
<1>3. CellsOK'
  <2>1. i.addr \in LoadAddrs \cup StoreAddrs /\ (i.type = "St" => i.addr \in StoreAddrs)
    BY <1>1 DEF InstructionOK, MemoryTypes
  <2>2. MemTypeOK /\ CellsOK
    BY IInvTypes
  <2> QED
    BY <1>1, <1>2, <2>1, <2>2, DataResponseCells DEF PendingAccess, Completes
<1>4. DataResult(i.data, i.type) \in Word
  BY <1>1, <1>2, IInvTypes, DataResponseType, ProgramAddresses DEF InstructionOK, MemoryTypes
<1>5. instruction' = [i EXCEPT !.data = DataResult(i.data, i.type)]
  BY DEF ClockResume
<1>6. InstructionOK(instruction)' /\ instruction'.type = i.type
  BY <1>1, <1>2, <1>4, <1>5 DEF InstructionOK, Instruction
<1> QED
  BY <1>1, <1>2, <1>3, <1>6
     DEF ClockResume, PipelineOK, RequestStillValid, FetchOK, FetchedWordIsProgram, Waiting

LEMMA FetchWaitIInv ==
    ASSUME IInv, FetchWait PROVE CellsOK' /\ PipelineOK' /\ RequestStillValid' /\ FetchOK'
                                 /\ FetchedWordIsProgram'
<1> USE DEF FetchWait, memVars, cpuVars
<1>1. CellsOK'
  BY IInvTypes, CellsFrame
<1>2. CodeRequestValid' <=> CodeRequestValid
  BY CodeRegistersFrame
<1> QED
  BY <1>1, <1>2 DEF IInv, PipelineOK, RequestStillValid, FetchOK, FetchedWordIsProgram, Waiting

LEMMA FetchIInv ==
    ASSUME ProgramPlacement, IInv, Fetch
    PROVE  /\ CellsOK' /\ PipelineOK' /\ RequestStillValid' /\ FetchOK' /\ FetchedWordIsProgram'
           /\ mem' = mem
<1>1. /\ CodeResponse /\ CodeRequestValid /\ memoryRequestIp = ip /\ ip \in CodeAddrs
      /\ MemTypeOK /\ CellsOK
  BY IInvTypes DEF Fetch, IInv, FetchOK, TypeOK
<1>2. CellsOK' /\ mem' = mem
  BY <1>1, CodeResponseCells, AddressLines DEF CodeRequestValid
<1>3. CodeRequestValid' /\ memoryRequestIp' = memoryRequestIp
  BY <1>1, CodeResponseRegisters
<1>4. CodeWord = ImageWord(ip)
  BY <1>1, CodeResponseWord
<1> QED
  BY <1>1, <1>2, <1>3, <1>4
     DEF Fetch, IInv, PipelineOK, RequestStillValid, FetchOK, FetchedWordIsProgram,
         ImageWord, Waiting

LEMMA ExecuteIInv ==
    ASSUME IInv, Execute PROVE CellsOK' /\ PipelineOK' /\ RequestStillValid' /\ FetchOK'
                               /\ FetchedWordIsProgram'
<1>1. ip \in CodeAddrs /\ memoryRequestIp = ip /\ CodeRequestValid /\ ~Waiting
  BY DEF Execute, IInv, TypeOK, FetchOK, PipelineOK
<1>2. PICK i \in Decodable : instruction' = i /\ DataRequest(i.addr, i.type)
  BY DEF Execute
<1>3. InstructionOK(instruction)'
  BY <1>1, <1>2, DecodableType DEF InstructionOK, Execute
<1>4. CASE i.type \in MemoryTypes
  <2>1. /\ PendingAccess(instruction)'
        /\ UNCHANGED <<mem, codeMemory, dataMemory, memoryRequestIp>>
    BY <1>2, <1>4, DataRequestRegisters
  <2>2. CellsOK'
    BY <2>1, IInvTypes, CellsFrame
  <2> QED
    BY <1>1, <1>2, <1>3, <1>4, <2>1, <2>2
       DEF Execute, PipelineOK, RequestStillValid, FetchOK, FetchedWordIsProgram, Waiting
<1>5. CASE i.type \notin MemoryTypes
  <2>1. UNCHANGED memVars
    BY <1>2, <1>5 DEF DataRequest
  <2>2. CellsOK' /\ (CodeRequestValid' <=> CodeRequestValid)
    BY <2>1, IInvTypes, CellsFrame, CodeRegistersFrame DEF memVars
  <2> QED
    BY <1>1, <1>2, <1>3, <1>5, <2>1, <2>2
       DEF Execute, memVars, PipelineOK, RequestStillValid, FetchOK, FetchedWordIsProgram,
           Waiting
<1> QED
  BY <1>4, <1>5

LEMMA FirstResponseIInv ==
    ASSUME ProgramPlacement, IInv, FirstResponse
    PROVE  CellsOK' /\ PipelineOK' /\ RequestStillValid' /\ FetchOK' /\ FetchedWordIsProgram'
<1> DEFINE i == instruction
<1>1. /\ InstructionOK(i) /\ i.data \in Word
      /\ i.type \in MemoryTypes => PendingAccess(i)
      /\ i.type \notin MemoryTypes => CodeRequestValid
      /\ memoryRequestIp = ip /\ ~Waiting
  BY DEF FirstResponse, IInv, PipelineOK, RequestStillValid, FetchOK, InstructionOK,
         Instruction
<1>2. /\ DataResponse(i.addr, i.data, i.type)
      /\ UNCHANGED <<ip, codeMemory, memoryRequestIp, requestedIp, requestedOffset, cacheMiss>>
  BY DEF FirstResponse, DataResponse
<1>3. CodeRequestValid' <=> CodeRequestValid
  BY <1>2, CodeRegistersFrame
<1>4. CASE Completes(i.type)
  <2>1. i.addr \in LoadAddrs \cup StoreAddrs /\ (i.type = "St" => i.addr \in StoreAddrs)
    BY <1>1, <1>4 DEF InstructionOK, MemoryTypes, Completes
  <2>2. MemTypeOK /\ CellsOK
    BY IInvTypes
  <2>3. CellsOK'
    BY <1>1, <1>2, <1>4, <2>1, <2>2, DataResponseCells DEF PendingAccess, Completes
  <2>4. DataResult(i.data, i.type) \in Word
    BY <1>1, <1>2, <2>1, <2>2, DataResponseType, ProgramAddresses
  <2>5. /\ instruction' = [i EXCEPT !.data = DataResult(i.data, i.type)]
        /\ pc' = "write" /\ UNCHANGED waitingInstruction
    BY <1>4 DEF FirstResponse, Completes, DataReady
  <2>6. InstructionOK(instruction)' /\ instruction'.type = i.type
    BY <1>1, <1>2, <2>4, <2>5 DEF InstructionOK, Instruction
  <2> QED
    BY <1>1, <1>2, <1>4, <2>3, <2>5, <2>6
       DEF PipelineOK, RequestStillValid, FetchOK, FetchedWordIsProgram, Waiting, Completes
<1>5. CASE i.type \in MemoryTypes /\ waitCycles # 0
  <2>1. /\ UNCHANGED <<mem, dataMemory>>
        /\ waitingInstruction' = i /\ pc' = "memClock"
    BY <1>2, <1>5 DEF DataResponse, FirstResponse, DataReady
  <2>2. CellsOK'
    BY <1>2, <2>1, IInvTypes, CellsFrame
  <2>3. PendingAccess(waitingInstruction)'
    BY <1>1, <1>2, <1>5, <2>1 DEF PendingAccess, CheckAddress, DataRow, DataIndex, Index,
                                  ToLineAddr, ToLineOffset
  <2>4. InstructionOK(waitingInstruction)' /\ Waiting'
    BY <1>1, <1>2, <2>1, SentinelAssumption DEF InstructionOK, Waiting
  <2> QED
    BY <1>1, <1>2, <1>5, <2>1, <2>2, <2>3, <2>4
       DEF PipelineOK, RequestStillValid, FetchOK, FetchedWordIsProgram, Waiting
<1>6. CASE i.type \notin MemoryTypes
  <2>1. /\ UNCHANGED <<mem, dataMemory, waitingInstruction>>
        /\ instruction' = i /\ pc' = "write"
    <3>1. i = [i EXCEPT !.data = i.data]
      BY <1>1 DEF InstructionOK, Instruction
    <3> QED
      BY <1>2, <1>6, <3>1
         DEF DataResponse, FirstResponse, DataReady, DataResult, MemoryTypes
  <2>2. CellsOK'
    BY <1>2, <2>1, IInvTypes, CellsFrame
  <2>3. InstructionOK(instruction)'
    BY <1>1, <1>2, <2>1 DEF InstructionOK
  <2> QED
    BY <1>1, <1>2, <1>3, <1>6, <2>1, <2>2, <2>3
       DEF PipelineOK, RequestStillValid, FetchOK, FetchedWordIsProgram, Waiting
<1> QED
  BY <1>4, <1>5, <1>6 DEF Completes

(***************************************************************************)
(* Here the shared registers could go stale: the next fetch is dropped if  *)
(* the instruction jumps to itself, and then it must not have been a load  *)
(* or a store.                                                             *)
(***************************************************************************)
LEMMA WriteIInv ==
    ASSUME IInv, Write PROVE CellsOK' /\ PipelineOK' /\ RequestStillValid' /\ FetchOK'
                             /\ FetchedWordIsProgram'
<1> USE DEF Write, memVars
<1>1. CellsOK'
  BY IInvTypes, CellsFrame
<1>2. CodeRequestValid' <=> CodeRequestValid
  BY CodeRegistersFrame
<1>3. memoryRequestIp = ip /\ ~Waiting /\ ip \in Nat
  BY ProgramAddresses DEF IInv, FetchOK, PipelineOK, TypeOK, Addrs
<1>4. instruction.type \in MemoryTypes => ip' # ip
  BY <1>3 DEF IInv, PipelineOK, InstructionOK, MemoryTypes
<1>5. instruction.type \notin MemoryTypes => CodeRequestValid
  BY DEF IInv, FetchOK
<1> QED
  BY <1>1, <1>2, <1>3, <1>4, <1>5
     DEF PipelineOK, RequestStillValid, FetchOK, FetchedWordIsProgram, Waiting

LEMMA TickIInv ==
    ASSUME IInv, Tick PROVE CellsOK' /\ PipelineOK' /\ RequestStillValid' /\ FetchOK'
                            /\ FetchedWordIsProgram'
<1> USE DEF Tick, MemClock, cpuVars
<1>1. CellsOK'
  BY IInvTypes, CellsFrame
<1>2. CodeRequestValid' <=> CodeRequestValid
  BY CodeRegistersFrame
<1>3. PipelineOK' /\ FetchOK' /\ FetchedWordIsProgram'
  BY <1>2 DEF IInv, PipelineOK, InstructionOK, FetchOK, FetchedWordIsProgram, Waiting
<1>4. RequestStillValid'
  BY DEF IInv, RequestStillValid, PendingAccess, Waiting, CheckAddress, DataRow, DataIndex
<1> QED
  BY <1>1, <1>3, <1>4

LEMMA StutterIInv ==
    ASSUME IInv, UNCHANGED vars
    PROVE  CellsOK' /\ PipelineOK' /\ RequestStillValid' /\ FetchOK' /\ FetchedWordIsProgram'
<1> USE DEF vars, memVars, cpuVars
<1>1. CellsOK'
  BY IInvTypes, CellsFrame
<1>2. CodeRequestValid' <=> CodeRequestValid
  BY CodeRegistersFrame
<1>3. PipelineOK' /\ FetchOK' /\ FetchedWordIsProgram'
  BY <1>2 DEF IInv, PipelineOK, InstructionOK, FetchOK, FetchedWordIsProgram, Waiting
<1>4. RequestStillValid'
  BY DEF IInv, RequestStillValid, PendingAccess, Waiting, CheckAddress, DataRow, DataIndex
<1> QED
  BY <1>1, <1>3, <1>4

LEMMA StepIInv ==
    ASSUME ProgramPlacement, IInv, [Next]_vars
    PROVE  IInv'
<1>1. TypeOK'
  BY IInvTypes, StepTypeOK
<1>2. CellsOK' /\ PipelineOK' /\ RequestStillValid' /\ FetchOK' /\ FetchedWordIsProgram'
  BY ClockStallIInv, ClockFetchIInv, ClockResumeIInv, FetchWaitIInv, FetchIInv,
     ExecuteIInv, FirstResponseIInv, WriteIInv, TickIInv, StutterIInv DEF Next, Exited
<1> QED
  BY <1>1, <1>2 DEF IInv, CellsOK

-----------------------------------------------------------------------------
(***************************************************************************)
(* IInv holds in every reachable state, for every program that keeps its   *)
(* instructions apart from the words it stores to and uses no line 0.      *)
(***************************************************************************)
THEOREM Invariance ==
    ASSUME ProgramPlacement
    PROVE  Spec => []IInv
  BY InitIInv, StepIInv, PTL DEF Spec

(***************************************************************************)
(* The decoder only ever sees the program's own instruction at ip          *)
(* (Cpu::Clock), however data accesses have used the shared registers and  *)
(* the shared memory since the request for it.                             *)
(***************************************************************************)
THEOREM FetchDeliversProgram ==
    ASSUME ProgramPlacement
    PROVE  Spec => []FetchedWordIsProgram
<1>1. IInv => FetchedWordIsProgram
  BY DEF IInv
<1> QED
  BY <1>1, Invariance, PTL

(***************************************************************************)
(* The unconditional write-back of code cells and the silent dropping of   *)
(* clean data cells (CachedMem::Response) lose nothing: such copies are    *)
(* equal to memory.                                                        *)
(***************************************************************************)
THEOREM CleanCopies ==
    ASSUME ProgramPlacement
    PROVE  Spec => []CleanCopiesMatchMemory
<1>1. ASSUME IInv PROVE CleanCopiesMatchMemory
  <2>1. MemTypeOK /\ CellsOK
    BY <1>1, IInvTypes
  <2>2. ASSUME NEW cell \in DataCells, Filled(cell), cell.validityBit
        PROVE  cell.dataLine = mem[cell.address]
    <3>1. PICK i \in DOMAIN dataMemory, b \in Blocks : cell = dataMemory[i][b]
      BY <2>2 DEF DataCells
    <3>2. DataCellOK(i, cell, mem)
      BY <2>1, <3>1 DEF CellsOK, DataCellsOK
    <3> QED
      BY <2>2, <3>2 DEF DataCellOK
  <2>3. ASSUME NEW cell \in CodeCells, Filled(cell)
        PROVE  cell.dataLine = mem[cell.address]
    <3>1. PICK i \in DOMAIN codeMemory, b \in Blocks : cell = codeMemory[i][b]
      BY <2>3 DEF CodeCells
    <3>2. CodeCellOK(i, cell)
      BY <2>1, <3>1 DEF CellsOK, CodeCellsOK
    <3> QED
      BY <2>1, <2>3, <3>2, CodeLineInMemory DEF CodeCellOK, CellsOK
  <2> QED
    BY <2>2, <2>3 DEF CleanCopiesMatchMemory
<1> QED
  BY <1>1, Invariance, PTL

(***************************************************************************)
(* Each data line is cached in the row its address selects, and once: the  *)
(* first-match search of FindEntry finds the only copy.                    *)
(***************************************************************************)
THEOREM OneCopyOfEachLine ==
    ASSUME ProgramPlacement
    PROVE  Spec => []DataPlaced
<1>1. ASSUME IInv PROVE DataPlaced
  <2>1. ASSUME NEW i \in DOMAIN dataMemory, NEW b \in Blocks, dataMemory[i][b].address # 0
        PROVE  /\ DataIndex(dataMemory[i][b].address) = i
               /\ Holders(dataMemory[i], dataMemory[i][b].address) = {b}
    <3>1. DataCellOK(i, dataMemory[i][b], mem)
      BY <1>1 DEF IInv, DataCellsOK
    <3>2. \A c \in Blocks : dataMemory[i][c].address = dataMemory[i][b].address => c = b
      BY <1>1, <2>1 DEF IInv, NoTwoCopies, Filled
    <3> QED
      BY <2>1, <3>1, <3>2 DEF DataCellOK, Filled, Holders
  <2> QED
    BY <2>1 DEF DataPlaced
<1> QED
  BY <1>1, Invariance, PTL

(***************************************************************************)
(* Memory the program never stores to keeps what LoadElf put there: every  *)
(* write-back goes to the line its cell was filled from.                   *)
(***************************************************************************)
THEOREM UnstoredMemoryKept ==
    ASSUME ProgramPlacement
    PROVE  Spec => []OnlyStoredLinesChange
<1>1. IInv => OnlyStoredLinesChange
  BY DEF IInv
<1> QED
  BY <1>1, Invariance, PTL

(***************************************************************************)
(* The registers shared by the two ports (_requestedIp, _requestedOffset,  *)
(* _cacheMiss) describe the load or store that waits.                      *)
(***************************************************************************)
THEOREM RegistersNotStale ==
    ASSUME ProgramPlacement
    PROVE  Spec => []RequestStillValid
<1>1. IInv => RequestStillValid
  BY DEF IInv
<1> QED
  BY <1>1, Invariance, PTL

(***************************************************************************)
(* They describe the code request of ip when its response is read, even    *)
(* when Request(ip) was dropped as a repetition.                           *)
(***************************************************************************)
THEOREM FetchReadsOwnRequest ==
    ASSUME ProgramPlacement
    PROVE  Spec => []FetchUsesOwnRequest
<1>1. IInv => FetchUsesOwnRequest
  <2> SUFFICES ASSUME IInv, pc = "fetch"
               PROVE  memoryRequestIp = ip /\ CodeRequestValid
    BY DEF FetchUsesOwnRequest, CodeRequestValid
  <2> QED
    BY DEF IInv, FetchOK
<1> QED
  BY <1>1, Invariance, PTL

(***************************************************************************)
(* A fetch never changes memory, although a code miss writes the line it   *)
(* replaces back.                                                          *)
(***************************************************************************)
THEOREM FetchesKeepMemory ==
    ASSUME ProgramPlacement
    PROVE  Spec => FetchKeepsMemory
<1>1. ASSUME IInv, [Next]_vars PROVE [pc = "fetch" => mem' = mem]_vars
  <2> SUFFICES ASSUME Next, pc = "fetch" PROVE mem' = mem
    BY <1>1
  <2>1. CASE Fetch
    BY <1>1, <2>1, FetchIInv
  <2>2. CASE FetchWait
    BY <2>2 DEF FetchWait, memVars
  <2> QED
    BY <2>1, <2>2 DEF Next, ClockStall, ClockFetch, ClockResume, Execute, FirstResponse,
                      Write, Tick, Exited
<1> QED
  BY <1>1, Invariance, PTL DEF Spec, FetchKeepsMemory

-----------------------------------------------------------------------------
(***************************************************************************)
(* The data port implements WordMemory: each step of Cpu is a step of      *)
(* WordMemory or leaves its variables alone.                               *)
(***************************************************************************)
DataAddrs == LoadAddrs \cup StoreAddrs

(***************************************************************************)
(* DataView with memory and cache as arguments, so that the same facts can *)
(* be cited for a state and for its successor.                             *)
(***************************************************************************)
ViewOf(memory, row, a) ==
    LET line == ToLineAddr(a)
    IN  IF CheckAddress(row, line)
        THEN row[FindEntry(row, line)].dataLine[ToLineOffset(a)]
        ELSE memory[line][ToLineOffset(a)]

LEMMA DataViews ==
    ASSUME NEW a
    PROVE  /\ DataView(a) = ViewOf(mem, dataMemory[DataIndex(ToLineAddr(a))], a)
           /\ DataView(a)' = ViewOf(mem', dataMemory'[DataIndex(ToLineAddr(a))], a)
  BY DEF DataView, ViewOf, DataRow, CheckAddress, FindEntry, Holders, ToLineAddr,
         ToLineOffset, DataIndex, Index

LEMMA ViewCached ==
    ASSUME NEW memory, NEW row, NEW a, NEW b \in Blocks,
           row[b].address = ToLineAddr(a),
           \A c \in Blocks : row[c].address = row[b].address => c = b
    PROVE  ViewOf(memory, row, a) = row[b].dataLine[ToLineOffset(a)]
<1>1. CheckAddress(row, ToLineAddr(a))
  BY DEF CheckAddress
<1>2. FindEntry(row, ToLineAddr(a)) = b
  BY <1>1, FindEntryFinds
<1> QED
  BY <1>1, <1>2 DEF ViewOf

LEMMA ViewUncached ==
    ASSUME NEW memory, NEW row, NEW a, \A b \in Blocks : row[b].address # ToLineAddr(a)
    PROVE  ViewOf(memory, row, a) = memory[ToLineAddr(a)][ToLineOffset(a)]
  BY DEF ViewOf, CheckAddress

(***************************************************************************)
(* An address is determined by its line and its offset.                    *)
(***************************************************************************)
LEMMA AddressFromParts ==
    ASSUME NEW a \in Addrs, NEW c \in Addrs,
           ToLineAddr(a) = ToLineAddr(c), ToLineOffset(a) = ToLineOffset(c)
    PROVE  a = c
<1>1. a \in Nat /\ c \in Nat /\ LineWords \in Nat \ {0}
  BY GeometryAssumption DEF Addrs
<1>2. \A n \in Nat : n = LineWords * (n \div LineWords) + (n % LineWords)
  BY <1>1
<1> QED
  BY <1>1, <1>2 DEF ToLineAddr, ToLineOffset

LEMMA DataAddrParts ==
    ASSUME ProgramPlacement, NEW a \in DataAddrs
    PROVE  /\ a \in Addrs
           /\ ToLineAddr(a) \in Lines /\ ToLineAddr(a) # 0
           /\ ToLineOffset(a) \in Offsets
           /\ DataIndex(ToLineAddr(a)) \in 0 .. DataSets - 1
<1>1. a \in Addrs /\ ToLineAddr(a) \in DataLines
  BY ProgramAddresses, AddressLines DEF DataAddrs
<1> QED
  BY <1>1, AddressParts, RowsInRange DEF ProgramPlacement

(***************************************************************************)
(* What coherence says of one row.                                         *)
(***************************************************************************)
LEMMA CoherentRow ==
    ASSUME MemTypeOK, CellsOK, NEW i \in 0 .. DataSets - 1
    PROVE  /\ dataMemory[i] \in Row
           /\ \A b \in Blocks : DataCellOK(i, dataMemory[i][b], mem)
           /\ \A b, c \in Blocks :
                 dataMemory[i][b].address # 0
                 /\ dataMemory[i][c].address = dataMemory[i][b].address => c = b
<1>1. DOMAIN dataMemory = 0 .. DataSets - 1 /\ dataMemory[i] \in Row
  BY DEF MemTypeOK
<1> QED
  BY <1>1 DEF CellsOK, DataCellsOK, NoTwoCopies, Filled

-----------------------------------------------------------------------------
(***************************************************************************)
(* The view after a completed data response.                               *)
(***************************************************************************)
LEMMA FillView ==
    ASSUME ProgramPlacement, MemTypeOK, CellsOK, NEW data \in Word, NEW type,
           NEW addr \in DataAddrs, DataResponse(addr, data, type), Completes(type),
           requestedIp = ToLineAddr(addr), cacheMiss,
           ~CheckAddress(DataRow(requestedIp), requestedIp), NEW a \in DataAddrs
    PROVE  DataView(a)' = IF type = "St" /\ a = addr THEN data ELSE DataView(a)
<1> DEFINE i    == DataIndex(requestedIp)
           old  == dataMemory[i]
           new  == dataMemory'[i]
           line == ToLineAddr(a)
           off  == ToLineOffset(a)
           j    == DataIndex(line)
<1>1. /\ a \in Addrs /\ addr \in Addrs /\ line \in Lines /\ line # 0 /\ off \in Offsets
      /\ j \in 0 .. DataSets - 1 /\ i \in 0 .. DataSets - 1
      /\ requestedIp \in Lines
  BY DataAddrParts DEF MemTypeOK
<1>2. PICK key \in Blocks :
          /\ \A k \in (0 .. DataSets - 1) \ {i} : dataMemory'[k] = dataMemory[k]
          /\ \A b \in Blocks \ {key} : SameContents(new[b], old[b])
          /\ new[key].address = requestedIp
          /\ new[key].dataLine = StoreInLine(mem[requestedIp], addr, data, type)
          /\ new[key].validityBit = (type # "St")
          /\ mem' = IF IsDirty(old[key]) THEN WriteBack(old[key]) ELSE mem
  BY <1>1, DataFillEffect
<1>3. /\ DataCellOK(i, old[key], mem)
      /\ \A b, c \in Blocks : old[b].address # 0 /\ old[c].address = old[b].address => c = b
      /\ \A b \in Blocks : old[b].address # requestedIp
      /\ old[key] \in CacheCell
  BY <1>1, CoherentRow, RowCell DEF CheckAddress, DataRow
<1>4. /\ IsDirty(old[key]) => mem'[old[key].address] = old[key].dataLine
      /\ ~(IsDirty(old[key]) /\ old[key].address = line) => mem'[line] = mem[line]
  BY <1>1, <1>2, <1>3 DEF WriteBack, MemTypeOK, CacheCell
<1>5. /\ DataView(a) = ViewOf(mem, dataMemory[j], a)
      /\ DataView(a)' = ViewOf(mem', dataMemory'[j], a)
  BY DataViews
<1> HIDE DEF i, old, new, line, off, j
<1>6. CASE j # i
  <2>1. dataMemory'[j] = dataMemory[j] /\ mem'[line] = mem[line]
    BY <1>1, <1>2, <1>3, <1>4, <1>6 DEF DataCellOK, IsDirty, Filled, j
  <2>2. line # requestedIp
    BY <1>6 DEF i, j
  <2> QED
    BY <1>5, <2>1, <2>2 DEF ViewOf, line
<1>7. CASE j = i /\ line = requestedIp
  <2>1. \A c \in Blocks : new[c].address = new[key].address => c = key
    BY <1>2, <1>3 DEF SameContents
  <2>2. DataView(a)' = new[key].dataLine[off]
    BY <1>2, <1>5, <1>7, <2>1, ViewCached DEF new, line, off
  <2>3. DataView(a) = mem[requestedIp][off]
    BY <1>3, <1>5, <1>7, ViewUncached DEF old, line, off
  <2>4. a = addr <=> off = ToLineOffset(addr)
    BY <1>1, <1>7, AddressFromParts DEF line, off
  <2>5. mem[requestedIp] \in Line
    BY <1>1 DEF MemTypeOK
  <2> QED
    BY <1>1, <1>2, <2>2, <2>3, <2>4, <2>5 DEF StoreInLine, Line
<1>8. CASE j = i /\ line # requestedIp
  <2>1. a # addr
    BY <1>8 DEF line
  <2>2. ASSUME NEW b \in Blocks, old[b].address = line, b # key
        PROVE  DataView(a)' = DataView(a)
    <3>1. DataView(a) = old[b].dataLine[off]
      BY <1>1, <1>3, <1>5, <1>8, <2>2, ViewCached DEF old, line, off
    <3>2. new[b].address = line /\ new[b].dataLine = old[b].dataLine
      BY <1>2, <2>2 DEF SameContents
    <3>3. \A c \in Blocks : new[c].address = new[b].address => c = b
      BY <1>1, <1>2, <1>3, <1>8, <2>2, <3>2 DEF SameContents
    <3>4. DataView(a)' = new[b].dataLine[off]
      BY <1>5, <1>8, <3>2, <3>3, ViewCached DEF new, line, off
    <3> QED
      BY <3>1, <3>2, <3>4
  <2>3. ASSUME \A b \in Blocks : new[b].address # line
        PROVE  DataView(a)' = mem'[line][off]
    BY <1>5, <1>8, <2>3, ViewUncached DEF new, line, off
  <2>4. CASE old[key].address = line
    <3>1. DataView(a) = old[key].dataLine[off]
      BY <1>1, <1>3, <1>5, <1>8, <2>4, ViewCached DEF old, line, off
    <3>2. \A b \in Blocks : new[b].address # line
      BY <1>1, <1>2, <1>3, <1>8, <2>4 DEF SameContents
    <3>3. mem'[line] = old[key].dataLine
      BY <1>1, <1>3, <1>4, <2>4 DEF DataCellOK, IsDirty, Filled
    <3> QED
      BY <2>1, <2>3, <3>1, <3>2, <3>3
  <2>5. CASE \A b \in Blocks : old[b].address # line
    <3>1. DataView(a) = mem[line][off]
      BY <1>5, <1>8, <2>5, ViewUncached DEF old, line, off
    <3>2. \A b \in Blocks : new[b].address # line
      BY <1>2, <1>8, <2>5 DEF SameContents
    <3> QED
      BY <1>4, <2>1, <2>3, <2>5, <3>1, <3>2
  <2> QED
    BY <2>1, <2>2, <2>4, <2>5
<1> QED
  BY <1>6, <1>7, <1>8 DEF i, j

(***************************************************************************)
(* What a hit leaves in the words of the line it hits.                     *)
(***************************************************************************)
LEMMA DataHitWords ==
    ASSUME MemTypeOK, NEW data \in Word, NEW type, NEW addr,
           DataResponse(addr, data, type), Completes(type), ~cacheMiss,
           NEW off \in Offsets, NEW key, key = FindEntry(DataRow(requestedIp), requestedIp)
    PROVE  dataMemory'[DataIndex(requestedIp)][key].dataLine[off] =
              IF type = "St" /\ off = requestedOffset
              THEN data
              ELSE dataMemory[DataIndex(requestedIp)][key].dataLine[off]
<1> DEFINE i       == DataIndex(requestedIp)
           row     == dataMemory[i]
           touched == Touch(row, key)
           newCell == StoreInCell(touched[key], data, type)
<1>1. i \in 0 .. DataSets - 1 /\ row \in Row /\ key \in Blocks
  BY RowsInRange, FindEntryFinds DEF MemTypeOK
<1>2. dataMemory' = [dataMemory EXCEPT ![i] = [touched EXCEPT ![key] = newCell]]
  BY DEF DataResponse, DataReady, Completes, DataHit, DataRow
<1>3. touched \in Row /\ touched[key].dataLine = row[key].dataLine
  BY <1>1, TouchKeeps DEF SameContents
<1>4. touched[key] \in CacheCell
  BY <1>1, <1>3, RowCell
<1>5. row[key].dataLine \in Line
  BY <1>1, RowCell
<1> HIDE DEF i, touched
<1>6. newCell.dataLine =
         IF type = "St" THEN [row[key].dataLine EXCEPT ![requestedOffset] = data]
                        ELSE row[key].dataLine
  BY <1>3, <1>4 DEF StoreInCell, CacheCell
<1> HIDE DEF newCell
<1>7. dataMemory'[i][key] = newCell
  BY <1>1, <1>2, <1>3 DEF MemTypeOK, Row
<1> QED
  BY <1>5, <1>6, <1>7 DEF i, Line

LEMMA HitView ==
    ASSUME ProgramPlacement, MemTypeOK, CellsOK, NEW data \in Word, NEW type,
           NEW addr \in DataAddrs, DataResponse(addr, data, type), Completes(type),
           requestedIp = ToLineAddr(addr), requestedOffset = ToLineOffset(addr),
           ~cacheMiss, CheckAddress(DataRow(requestedIp), requestedIp), NEW a \in DataAddrs
    PROVE  DataView(a)' = IF type = "St" /\ a = addr THEN data ELSE DataView(a)
<1> DEFINE i    == DataIndex(requestedIp)
           old  == dataMemory[i]
           new  == dataMemory'[i]
           key  == FindEntry(old, requestedIp)
           line == ToLineAddr(a)
           off  == ToLineOffset(a)
           j    == DataIndex(line)
<1>1. /\ a \in Addrs /\ addr \in Addrs /\ line # 0 /\ off \in Offsets
      /\ j \in 0 .. DataSets - 1 /\ i \in 0 .. DataSets - 1
  BY DataAddrParts
<1>2. /\ mem' = mem
      /\ \A k \in (0 .. DataSets - 1) \ {i} : dataMemory'[k] = dataMemory[k]
      /\ \A b \in Blocks \ {key} : SameContents(new[b], old[b])
      /\ new[key].address = old[key].address
  BY DataHitEffect
<1>3. key \in Blocks /\ old[key].address = requestedIp
  BY FindEntryFinds DEF DataRow
<1>4. \A b, c \in Blocks : old[b].address # 0 /\ old[c].address = old[b].address => c = b
  BY <1>1, CoherentRow
<1>5. new[key].dataLine[off] =
         IF type = "St" /\ off = requestedOffset THEN data ELSE old[key].dataLine[off]
  BY <1>1, DataHitWords DEF DataRow
<1>6. /\ DataView(a) = ViewOf(mem, dataMemory[j], a)
      /\ DataView(a)' = ViewOf(mem', dataMemory'[j], a)
  BY DataViews
<1> HIDE DEF i, old, new, key, line, off, j
<1>7. \A b \in Blocks : new[b].address = old[b].address
  BY <1>2 DEF SameContents
<1>8. CASE j # i
  <2>1. dataMemory'[j] = dataMemory[j] /\ line # requestedIp
    BY <1>1, <1>2, <1>8 DEF i, j
  <2> QED
    BY <1>2, <1>6, <2>1 DEF ViewOf, line
<1>9. CASE j = i
  <2>1. ASSUME NEW b \in Blocks, old[b].address = line
        PROVE  /\ DataView(a) = old[b].dataLine[off]
               /\ DataView(a)' = new[b].dataLine[off]
    <3>1. \A c \in Blocks : old[c].address = old[b].address => c = b
      BY <1>1, <1>4, <2>1
    <3>2. new[b].address = line /\ \A c \in Blocks : new[c].address = new[b].address => c = b
      BY <1>7, <2>1, <3>1
    <3>3. DataView(a) = old[b].dataLine[off]
      BY <1>6, <1>9, <2>1, <3>1, ViewCached DEF old, line, off
    <3>4. DataView(a)' = new[b].dataLine[off]
      BY <1>6, <1>9, <3>2, ViewCached DEF new, line, off
    <3> QED
      BY <3>3, <3>4
  <2>2. CASE line = requestedIp
    <3>1. a = addr <=> off = requestedOffset
      BY <1>1, <2>2, AddressFromParts DEF line, off
    <3> QED
      BY <1>3, <1>5, <2>1, <2>2, <3>1
  <2>3. CASE line # requestedIp /\ \E b \in Blocks : old[b].address = line
    <3>1. PICK b \in Blocks : old[b].address = line
      BY <2>3
    <3>2. b # key /\ a # addr
      BY <1>3, <2>3, <3>1 DEF line
    <3> QED
      BY <1>2, <2>1, <3>1, <3>2 DEF SameContents
  <2>4. CASE line # requestedIp /\ \A b \in Blocks : old[b].address # line
    <3>1. DataView(a) = mem[line][off] /\ DataView(a)' = mem'[line][off]
      BY <1>6, <1>7, <1>9, <2>4, ViewUncached DEF old, new, line, off
    <3> QED
      BY <1>2, <2>4, <3>1 DEF line
  <2> QED
    BY <2>2, <2>3, <2>4
<1> QED
  BY <1>8, <1>9

(***************************************************************************)
(* A completed response applies a store to the view, and hands a load the  *)
(* viewed word.                                                            *)
(***************************************************************************)
LEMMA ResponseView ==
    ASSUME ProgramPlacement, MemTypeOK, CellsOK, NEW i, i.data \in Word,
           i.addr \in DataAddrs, DataResponse(i.addr, i.data, i.type), Completes(i.type),
           PendingAccess(i)
    PROVE  /\ \A a \in DataAddrs :
                 DataView(a)' = IF i.type = "St" /\ a = i.addr THEN i.data ELSE DataView(a)
           /\ DataResult(i.data, i.type) =
                 IF i.type = "Ld" THEN DataView(i.addr) ELSE i.data
<1>1. /\ requestedIp = ToLineAddr(i.addr) /\ requestedOffset = ToLineOffset(i.addr)
      /\ cacheMiss <=> ~CheckAddress(DataRow(requestedIp), requestedIp)
  BY DEF PendingAccess
<1>2. ASSUME NEW a \in DataAddrs
      PROVE  DataView(a)' = IF i.type = "St" /\ a = i.addr THEN i.data ELSE DataView(a)
  BY <1>1, FillView, HitView
<1>3. DataResult(i.data, i.type) = IF i.type = "Ld" THEN DataView(i.addr) ELSE i.data
  BY <1>1 DEF DataResult, DataView, DataReady, Completes
<1> QED
  BY <1>2, <1>3

-----------------------------------------------------------------------------
(***************************************************************************)
(* The refinement, one step per action.                                    *)
(***************************************************************************)
View == [a \in DataAddrs |-> DataView(a)]

LEMMA ViewFrame ==
    ASSUME UNCHANGED <<mem, dataMemory>> PROVE View' = View
<1>1. \A a \in DataAddrs : DataView(a)' = DataView(a)
  BY DataViews
<1> QED
  BY <1>1 DEF View

LEMMA ViewInit ==
    ASSUME ProgramPlacement, Init
    PROVE  WordStore!Init
<1>1. ASSUME NEW a \in DataAddrs PROVE DataView(a) = ImageWord(a)
  <2>1. \A b \in Blocks : dataMemory[DataIndex(ToLineAddr(a))][b].address # ToLineAddr(a)
    BY DataAddrParts DEF Init, MemInit, EmptyRow, EmptyCell
  <2> QED
    BY <2>1, DataViews, ViewUncached DEF Init, MemInit, ImageWord
<1>2. DataAccess = NoDataAccess
  BY DEF Init, DataAccess, Waiting
<1> QED
  BY <1>1, <1>2 DEF WordStore!Init, DataAddrs

LEMMA AccessTypes ==
    ASSUME NEW i \in Instruction, i.type \in MemoryTypes, i.addr \in DataAddrs,
           NEW done \in BOOLEAN
    PROVE  /\ AccessOf(i, done) \in WordStore!Access
           /\ AccessOf(i, done).type = i.type /\ AccessOf(i, done).addr = i.addr
           /\ AccessOf(i, done).data = i.data /\ AccessOf(i, done).done = done
           /\ AccessOf(i, done) # NoDataAccess
<1>1. NoDataAccess.type = "None" /\ AccessOf(i, done).type = i.type
  BY DEF NoDataAccess, AccessOf
<1> QED
  BY <1>1 DEF AccessOf, WordStore!Access, Instruction, MemoryTypes, DataAddrs

LEMMA AccessDone ==
    ASSUME NEW i, NEW j, j.type = i.type, j.addr = i.addr
    PROVE  AccessOf(j, TRUE) = WordStore!Completed(AccessOf(i, FALSE), j.data)
  BY DEF AccessOf, WordStore!Completed

(***************************************************************************)
(* A completed response is the completion of the abstract access.          *)
(***************************************************************************)
LEMMA CompleteStep ==
    ASSUME ProgramPlacement, MemTypeOK, CellsOK, NEW i \in Instruction,
           i.type \in MemoryTypes, i.addr \in DataAddrs,
           DataResponse(i.addr, i.data, i.type), Completes(i.type), PendingAccess(i),
           DataAccess = AccessOf(i, FALSE), NEW j,
           j = [i EXCEPT !.data = DataResult(i.data, i.type)],
           DataAccess' = AccessOf(j, TRUE)
    PROVE  WordStore!Next
<1>1. i.data \in Word
  BY DEF Instruction
<1>2. /\ \A a \in DataAddrs :
            DataView(a)' = IF i.type = "St" /\ a = i.addr THEN i.data ELSE DataView(a)
      /\ DataResult(i.data, i.type) = IF i.type = "Ld" THEN DataView(i.addr) ELSE i.data
  BY <1>1, ResponseView
<1>3. /\ DataAccess # NoDataAccess /\ ~DataAccess.done
      /\ DataAccess.type = i.type /\ DataAccess.addr = i.addr /\ DataAccess.data = i.data
  BY AccessTypes
<1>4. j.type = i.type /\ j.addr = i.addr /\ j.data = DataResult(i.data, i.type)
  BY DEF Instruction
<1>5. DataAccess' = WordStore!Completed(DataAccess, j.data)
  BY <1>4, AccessDone
<1>6. CASE i.type = "Ld"
  <2>1. View' = View
    BY <1>2, <1>6 DEF View
  <2>2. DataAccess' = WordStore!Completed(DataAccess, View[DataAccess.addr])
    BY <1>2, <1>3, <1>4, <1>5, <1>6 DEF View
  <2>3. WordStore!CompleteLoad
    BY <1>3, <1>6, <2>1, <2>2 DEF WordStore!CompleteLoad, View, DataAddrs
  <2> QED
    BY <2>3 DEF WordStore!Next
<1>7. CASE i.type = "St"
  <2>1. View' = [View EXCEPT ![DataAccess.addr] = DataAccess.data]
    BY <1>2, <1>3, <1>7 DEF View
  <2>2. DataAccess' = WordStore!Completed(DataAccess, DataAccess.data)
    BY <1>2, <1>3, <1>4, <1>5, <1>7
  <2>3. WordStore!CompleteStore
    BY <1>3, <1>7, <2>1, <2>2 DEF WordStore!CompleteStore, View, DataAddrs
  <2> QED
    BY <2>3 DEF WordStore!Next
<1> QED
  BY <1>6, <1>7 DEF MemoryTypes

LEMMA RefinementStep ==
    ASSUME ProgramPlacement, IInv, [Next]_vars
    PROVE  [WordStore!Next]_(WordStore!wordVars)
<1> DEFINE Stutter == UNCHANGED <<View, DataAccess>>
<1>1. Stutter => UNCHANGED WordStore!wordVars
  BY DEF WordStore!wordVars, View, DataAddrs
<1>2. MemTypeOK /\ CellsOK /\ TypeOK
  BY IInvTypes
<1> HIDE DEF Stutter
<1>3. CASE ClockStall \/ ClockFetch \/ FetchWait \/ Tick \/ Exited \/ UNCHANGED vars
  <2>1. UNCHANGED <<mem, dataMemory>>
    BY <1>3 DEF ClockStall, ClockFetch, FetchWait, Tick, Exited, vars, memVars, CodeRequest,
                MemClock
  <2>2. UNCHANGED DataAccess
    BY <1>3 DEF ClockStall, ClockFetch, FetchWait, Tick, Exited, vars, cpuVars,
                DataAccess, Waiting, AccessOf, NoDataAccess
  <2> QED
    BY <1>1, <2>1, <2>2, ViewFrame DEF Stutter
<1>4. CASE Fetch
  <2>1. UNCHANGED <<mem, dataMemory>>
    BY <1>4, FetchIInv DEF Fetch, CodeResponse
  <2>2. UNCHANGED DataAccess
    BY <1>4 DEF Fetch, DataAccess, Waiting, AccessOf, NoDataAccess
  <2> QED
    BY <1>1, <2>1, <2>2, ViewFrame DEF Stutter
<1>5. CASE Execute
  <2>1. PICK i \in Decodable : instruction' = i /\ DataRequest(i.addr, i.type)
    BY <1>5 DEF Execute
  <2>2. UNCHANGED <<mem, dataMemory>>
    BY <2>1 DEF DataRequest, memVars
  <2>3. View' = View
    BY <2>2, ViewFrame
  <2>4. /\ pc = "execute" /\ pc' = "dataResponse" /\ ~Waiting /\ ~Waiting'
        /\ DataAccess = NoDataAccess
    BY <1>5 DEF Execute, IInv, PipelineOK, Waiting, DataAccess
  <2>5. CASE i.type \notin MemoryTypes
    <3>1. DataAccess' = NoDataAccess
      BY <2>1, <2>4, <2>5 DEF DataAccess, NoDataAccess
    <3> QED
      BY <1>1, <2>3, <2>4, <3>1 DEF Stutter
  <2>6. CASE i.type \in MemoryTypes
    <3>1. i \in Instruction /\ i.addr \in DataAddrs
      BY <1>2, <2>1, <2>6, DecodableType DEF TypeOK, MemoryTypes, DataAddrs
    <3>2. DataAccess' = AccessOf(i, FALSE)
      BY <2>1, <2>4, <2>6 DEF DataAccess, AccessOf
    <3>3. AccessOf(i, FALSE) \in WordStore!Access /\ ~AccessOf(i, FALSE).done
      BY <2>6, <3>1, AccessTypes
    <3>4. WordStore!Issue
      BY <2>3, <2>4, <3>2, <3>3 DEF WordStore!Issue, View, DataAddrs
    <3> QED
      BY <3>4 DEF WordStore!Next
  <2> QED
    BY <2>5, <2>6
<1>6. CASE FirstResponse
  <2> DEFINE i == instruction
             j == [i EXCEPT !.data = DataResult(i.data, i.type)]
  <2>1. /\ i \in Instruction /\ ~Waiting
        /\ i.type \in MemoryTypes => i.addr \in DataAddrs /\ PendingAccess(i)
        /\ DataResponse(i.addr, i.data, i.type)
        /\ pc = "dataResponse"
    BY <1>6 DEF FirstResponse, IInv, PipelineOK, InstructionOK, RequestStillValid,
                MemoryTypes, DataAddrs
  <2>2. CASE Completes(i.type)
    <3>1. instruction' = j /\ pc' = "write" /\ ~Waiting'
      BY <1>6, <2>1, <2>2 DEF FirstResponse, Completes, DataReady, Waiting
    <3>2. j.type = i.type
      BY <2>1 DEF Instruction
    <3>3. DataAccess = AccessOf(i, FALSE) /\ DataAccess' = AccessOf(j, TRUE)
      BY <2>1, <2>2, <3>1, <3>2 DEF DataAccess, AccessOf, Completes
    <3> QED
      BY <1>2, <2>1, <2>2, <3>3, CompleteStep DEF Completes
  <2>3. CASE i.type \in MemoryTypes /\ waitCycles # 0
    <3>1. waitingInstruction' = i /\ UNCHANGED <<mem, dataMemory>>
      BY <1>6, <2>1, <2>3 DEF FirstResponse, DataResponse, DataReady
    <3>2. DataAccess = AccessOf(i, FALSE) /\ DataAccess' = AccessOf(i, FALSE)
      BY <2>1, <2>3, <3>1, SentinelAssumption DEF DataAccess, Waiting, AccessOf
    <3> QED
      BY <1>1, <3>1, <3>2, ViewFrame DEF Stutter
  <2>4. CASE i.type \notin MemoryTypes
    <3>1. /\ UNCHANGED <<mem, dataMemory, waitingInstruction>>
          /\ instruction'.type \notin MemoryTypes
      <4>1. j.type = i.type
        BY <2>1 DEF Instruction
      <4> QED
        BY <1>6, <2>1, <2>4, <4>1 DEF FirstResponse, DataResponse, DataReady
    <3>2. DataAccess = NoDataAccess /\ DataAccess' = NoDataAccess
      BY <2>1, <2>4, <3>1 DEF DataAccess, Waiting, NoDataAccess
    <3> QED
      BY <1>1, <3>1, <3>2, ViewFrame DEF Stutter
  <2> QED
    BY <2>2, <2>3, <2>4 DEF Completes
<1>7. CASE ClockResume
  <2> DEFINE i == waitingInstruction
             j == [i EXCEPT !.data = DataResult(i.data, i.type)]
  <2>1. /\ i \in Instruction /\ Waiting /\ i.type \in MemoryTypes
        /\ i.addr \in DataAddrs /\ PendingAccess(i) /\ Completes(i.type)
        /\ DataResponse(i.addr, i.data, i.type)
    BY <1>7 DEF ClockResume, IInv, PipelineOK, InstructionOK, RequestStillValid,
                MemoryTypes, DataAddrs, Completes
  <2>2. instruction' = j /\ pc' = "write" /\ ~Waiting'
    BY <1>7 DEF ClockResume, Waiting
  <2>3. j.type = i.type
    BY <2>1 DEF Instruction
  <2>4. DataAccess = AccessOf(i, FALSE) /\ DataAccess' = AccessOf(j, TRUE)
    BY <2>1, <2>2, <2>3 DEF DataAccess, AccessOf
  <2> QED
    BY <1>2, <2>1, <2>4, CompleteStep
<1>8. CASE Write
  <2>1. View' = View
    BY <1>8, ViewFrame DEF Write, memVars
  <2>2. ~Waiting /\ pc = "write" /\ DataAccess' = NoDataAccess
    BY <1>8 DEF Write, IInv, PipelineOK, Waiting, DataAccess, NoDataAccess
  <2>3. CASE instruction.type \in MemoryTypes
    <3>1. instruction \in Instruction /\ instruction.addr \in DataAddrs
      BY <2>2, <2>3 DEF IInv, PipelineOK, InstructionOK, MemoryTypes, DataAddrs
    <3>2. DataAccess = AccessOf(instruction, TRUE)
      BY <2>2, <2>3 DEF DataAccess
    <3>3. DataAccess # NoDataAccess /\ DataAccess.done
      BY <2>3, <3>1, <3>2, AccessTypes
    <3>4. WordStore!Retire
      BY <2>1, <2>2, <3>3 DEF WordStore!Retire, View, DataAddrs
    <3> QED
      BY <3>4 DEF WordStore!Next
  <2>4. CASE instruction.type \notin MemoryTypes
    <3>1. DataAccess = NoDataAccess
      BY <2>2, <2>4 DEF DataAccess
    <3> QED
      BY <1>1, <2>1, <2>2, <3>1 DEF Stutter
  <2> QED
    BY <2>3, <2>4
<1> QED
  BY <1>3, <1>4, <1>5, <1>6, <1>7, <1>8 DEF Next

(***************************************************************************)
(* The data cache, its replacement and write-backs, the shared registers   *)
(* and the split between request and response are invisible to the         *)
(* program: its loads and stores are those of a plain word memory          *)
(* (CachedMem::Request and Response, Cpu::Clock).                          *)
(***************************************************************************)
THEOREM DataPortRefinesWordMemory ==
    ASSUME ProgramPlacement
    PROVE  Spec => DataPortImplementsWordMemory
<1>1. Init => WordStore!Init
  BY ViewInit
<1>2. IInv /\ [Next]_vars => [WordStore!Next]_(WordStore!wordVars)
  BY RefinementStep
<1> QED
  BY <1>1, <1>2, Invariance, PTL DEF Spec, DataPortImplementsWordMemory, WordStore!Spec

=============================================================================
