--------------------------- MODULE CpuProperties ---------------------------
(***************************************************************************)
(* What makes the processor with its caches correct: the data port is a    *)
(* plain word memory, the code port delivers the program, and the          *)
(* bookkeeping that both rest on.                                          *)
(***************************************************************************)
EXTENDS Cpu

CodeCells == {codeMemory[i][b] : i \in DOMAIN codeMemory, b \in Blocks}
DataCells == {dataMemory[i][b] : i \in DOMAIN dataMemory, b \in Blocks}

Filled(cell) == cell.address # 0

ImageWord(addr) == Image[ToLineAddr(addr)][ToLineOffset(addr)]

-----------------------------------------------------------------------------
(***************************************************************************)
(* The value a load of the address has to return: the data cache's copy of *)
(* the line if there is one, else memory.                                  *)
(***************************************************************************)
DataView(addr) ==
    LET line == ToLineAddr(addr)
        row  == DataRow(line)
    IN  IF CheckAddress(row, line)
        THEN row[FindEntry(row, line)].dataLine[ToLineOffset(addr)]
        ELSE mem[line][ToLineOffset(addr)]

(***************************************************************************)
(* The access the processor has under way, completed once it gets to the   *)
(* write-back stage.                                                       *)
(***************************************************************************)
AccessOf(i, done) ==
    [type |-> i.type, addr |-> i.addr, data |-> i.data, done |-> done]

NoDataAccess ==
    [type |-> "None", addr |-> NoAddr, data |-> DeadWord, done |-> TRUE]

DataAccess ==
    IF Waiting
    THEN AccessOf(waitingInstruction, FALSE)
    ELSE IF pc \in {"dataResponse", "write"} /\ instruction.type \in MemoryTypes
    THEN AccessOf(instruction, pc = "write")
    ELSE NoDataAccess

WordStore ==
    INSTANCE WordMemory WITH
        Address  <- LoadAddrs \cup StoreAddrs,
        Value    <- Word,
        Contents <- [a \in LoadAddrs \cup StoreAddrs |-> ImageWord(a)],
        NoAccess <- NoDataAccess,
        store    <- [a \in LoadAddrs \cup StoreAddrs |-> DataView(a)],
        access   <- DataAccess

(***************************************************************************)
(* Loads and stores see a plain word memory: whatever hits, misses,        *)
(* write-backs and code fetches happen in between, each load returns the   *)
(* word last stored at its address, each store takes effect once, and an   *)
(* instruction reaches the write-back stage only when its access is done   *)
(* (Cpu.h:48 does not look at what Response returns).                      *)
(***************************************************************************)
DataPortImplementsWordMemory == WordStore!Spec

(***************************************************************************)
(* The word that is decoded is the program's instruction at ip, although   *)
(* the registers it was fetched through are shared with the data port and  *)
(* both caches write lines back to the memory it comes from.               *)
(***************************************************************************)
FetchedWordIsProgram == pc = "execute" => instrCode = ImageWord(ip)

(***************************************************************************)
(* A data line sits in the row its address selects and in one block only:  *)
(* with two copies a store would update the first and a write-back of the  *)
(* other could bring the old words back.                                   *)
(***************************************************************************)
DataPlaced ==
    \A i \in DOMAIN dataMemory, b \in Blocks :
        LET line == dataMemory[i][b].address
        IN  line # 0 => /\ DataIndex(line) = i
                        /\ Holders(dataMemory[i], line) = {b}

(***************************************************************************)
(* Copies the caches may drop or write back at will are equal to memory:   *)
(* every clean data cell (dropped on replacement) and every code cell      *)
(* (written back on replacement although nothing marked it dirty).         *)
(***************************************************************************)
CleanCopiesMatchMemory ==
    /\ \A cell \in DataCells :
          Filled(cell) /\ cell.validityBit => cell.dataLine = mem[cell.address]
    /\ \A cell \in CodeCells :
          Filled(cell) => cell.dataLine = mem[cell.address]

(***************************************************************************)
(* Memory that no store addresses is never written: every write-back goes  *)
(* to the line the cell was filled from.                                   *)
(***************************************************************************)
OnlyStoredLinesChange ==
    \A line \in Lines \ StoreLines : mem[line] = Image[line]

(***************************************************************************)
(* Fetching, which may replace and write back a code line, never changes   *)
(* memory.                                                                 *)
(***************************************************************************)
FetchKeepsMemory == [][pc = "fetch" => mem' = mem]_vars

-----------------------------------------------------------------------------
PendingAccess(i) ==
    /\ requestedIp = ToLineAddr(i.addr)
    /\ requestedOffset = ToLineOffset(i.addr)
    /\ cacheMiss <=> ~CheckAddress(DataRow(requestedIp), requestedIp)

(***************************************************************************)
(* While a load or store waits, the shared request registers still         *)
(* describe its access, and the hit or miss the request decided on is      *)
(* still what a lookup would find.                                         *)
(***************************************************************************)
RequestStillValid ==
    /\ Waiting => PendingAccess(waitingInstruction)
    /\ pc = "dataResponse" /\ instruction.type \in MemoryTypes
          => PendingAccess(instruction)

(***************************************************************************)
(* When the code response is ready the request registers are those of ip,  *)
(* even if the request was dropped because ip had been requested before,   *)
(* and a response that takes the hit path finds the line.                  *)
(***************************************************************************)
FetchUsesOwnRequest ==
    pc = "fetch" =>
        /\ memoryRequestIp = ip
        /\ requestedIp = ToLineAddr(ip)
        /\ requestedOffset = ToLineOffset(ip)
        /\ ~cacheMiss => CheckAddress(CodeRow(requestedIp), requestedIp)

(***************************************************************************)
(* The surcharge for evicting a dirty line is only ever waited for by a    *)
(* store that is going to evict one: the victim found at request time is   *)
(* the victim of the response.                                             *)
(***************************************************************************)
SurchargeOnlyForWriteBack ==
    waitCycles > FailLatency /\ Waiting =>
        /\ waitingInstruction.type = "St"
        /\ cacheMiss
        /\ IsDirty(DataRow(requestedIp)[PseudoLRUFinding(DataRow(requestedIp))])

-----------------------------------------------------------------------------
(***************************************************************************)
(* Of two or more blocks some one is always marked unused, in every row of *)
(* both caches: ageing never lets the bits saturate, so that the victim    *)
(* is never simply block 0.                                                *)
(***************************************************************************)
HasUnusedBlock(row) == \E b \in Blocks : row[b].lastUsage = 0

SomeBlockUnused ==
    BlockCount > 1 =>
        /\ \A i \in DOMAIN codeMemory : HasUnusedBlock(codeMemory[i])
        /\ \A i \in DOMAIN dataMemory : HasUnusedBlock(dataMemory[i])

(***************************************************************************)
(* No line is evicted while its row has an empty cell, although the        *)
(* replacement looks at usage bits and not at empty cells.                 *)
(***************************************************************************)
Evicts(row, newRow) ==
    \E b \in Blocks : row[b].address # 0 /\ newRow[b].address # row[b].address

EmptyBlocksFirst ==
    [][/\ \A i \in DOMAIN codeMemory :
             Evicts(codeMemory[i], codeMemory'[i]) => IfAllMarked(codeMemory[i])
       /\ \A i \in DOMAIN dataMemory :
             Evicts(dataMemory[i], dataMemory'[i]) => IfAllMarked(dataMemory[i])]_vars

(***************************************************************************)
(* A message is taken by the host before the next instruction can write    *)
(* another one into the only slot.                                         *)
(***************************************************************************)
NoMessageLost == pc = "write" => cpuToHostData = NoMessage

(***************************************************************************)
(* Every turn of the loop leads to an instruction that completes: no       *)
(* request is restarted or forgotten while it waits.                       *)
(***************************************************************************)
InstructionsComplete == pc = "clock" ~> pc = "write"

(***************************************************************************)
(* The two claims of the repository's unit tests about a code request,     *)
(* with the answer read where the code reads it, at the response: a line   *)
(* that is not cached misses, and a line that is cached hits.              *)
(***************************************************************************)
Cached(row, line) == \E b \in Blocks : row[b].address = line /\ row[b].validityBit

NotCachedMisses ==
    pc = "fetch" /\ ~Cached(CodeRow(ToLineAddr(ip)), ToLineAddr(ip)) => cacheMiss

CachedHits ==
    pc = "fetch" /\ Cached(CodeRow(ToLineAddr(ip)), ToLineAddr(ip)) => ~cacheMiss

(***************************************************************************)
(* The cycle count the program can read is accounted for: an instruction   *)
(* takes at least the cycle it executes in, and at most that cycle, a code *)
(* miss and a store miss with its write-back: no wait is counted twice or  *)
(* started again.  (Stated for counters that have not wrapped.)            *)
(***************************************************************************)
MaxCycles == 1 + FailLatency + FailLatency + WriteBackLatency

CycleBounds ==
    /\ numInstr <= numCycles
    /\ numCycles <= (numInstr + 1) * MaxCycles
    /\ pc = "write" => numCycles >= numInstr + 1

(***************************************************************************)
(* And no wait is left uncounted or cut short: each line a cache holds has *)
(* cost a miss, which has been waited for and counted in full before the   *)
(* line was installed (Cpu.h:20-24, CsrFile.h:47), besides the cycle every *)
(* instruction takes.  The second copy that a repeated fetch may install   *)
(* without a wait is no other line.                                        *)
(***************************************************************************)
LinesIn(cells) == {cell.address : cell \in {c \in cells : Filled(c)}}

LinesFilled == Cardinality(LinesIn(CodeCells)) + Cardinality(LinesIn(DataCells))

WaitsCounted == numInstr + FailLatency * LinesFilled <= numCycles

=============================================================================
