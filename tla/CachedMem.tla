----------------------------- MODULE CachedMem -----------------------------
(***************************************************************************)
(* class CachedMem (src/src/Memory.h): a code cache and a data cache in    *)
(* front of one memory, behind a single request/response port.             *)
(*                                                                         *)
(* A Request looks the line up, remembers line, offset and hit-or-miss in  *)
(* fields that the code and the data side share, and starts a countdown.   *)
(* Clock counts it down.  A Response does nothing before the countdown is  *)
(* over, and then performs the hit or the miss the Request had decided on. *)
(***************************************************************************)
EXTENDS CacheArrays

CONSTANTS
    CodeLatency,       \* cycles of a code hit (1)
    DataLatency,       \* cycles of a data hit (3)
    FailLatency,       \* cycles of a miss (152)
    WriteBackLatency,  \* extra cycles of a store that evicts a dirty line (120)
    Image              \* the memory contents LoadElf leaves behind

ASSUME LatencyAssumption ==
    /\ CodeLatency \in Nat
    /\ DataLatency \in Nat
    /\ FailLatency \in Nat
    /\ WriteBackLatency \in Nat

ASSUME ImageAssumption == Image \in [Lines -> Line]

VARIABLES
    mem,              \* UncachedMem / MemoryStorage: line number -> line
    codeMemory,       \* _codeMemory: index -> row of cells
    dataMemory,       \* _dataMemory: index -> row of cells
    memoryRequestIp,  \* _memoryRequestIp: the last ip a code request was for
    requestedIp,      \* _requestedIp: line of the current request
    requestedOffset,  \* _requestedOffset: word within that line
    waitCycles,       \* _waitCycles: cycles until the response is ready
    cacheMiss         \* _cacheMiss: what the current request found

memVars == <<mem, codeMemory, dataMemory, memoryRequestIp,
             requestedIp, requestedOffset, waitCycles, cacheMiss>>

CodeIndex(line) == Index(line, CodeSets)
DataIndex(line) == Index(line, DataSets)

CodeRow(line) == codeMemory[CodeIndex(line)]
DataRow(line) == dataMemory[DataIndex(line)]

MemTypeOK ==
    /\ mem \in [Lines -> Line]
    /\ codeMemory \in [0 .. CodeSets - 1 -> Row]
    /\ dataMemory \in [0 .. DataSets - 1 -> Row]
    /\ memoryRequestIp \in Addrs
    /\ requestedIp \in Lines
    /\ requestedOffset \in Offsets
    /\ waitCycles \in Nat
    /\ cacheMiss \in BOOLEAN

MemInit ==
    /\ mem = Image
    /\ codeMemory = [i \in 0 .. CodeSets - 1 |-> EmptyRow]
    /\ dataMemory = [i \in 0 .. DataSets - 1 |-> EmptyRow]
    /\ memoryRequestIp = 0
    /\ requestedIp = 0
    /\ requestedOffset = 0
    /\ waitCycles = 0
    /\ cacheMiss = FALSE

-----------------------------------------------------------------------------
(***************************************************************************)
(* What a request leaves in the fields the two ports share.                *)
(***************************************************************************)
\* Fault: a hit leaves the registers alone.
SetRequestOnMiss(addr, hit) ==
    /\ cacheMiss' = ~hit
    /\ requestedIp' = IF hit THEN requestedIp ELSE ToLineAddr(addr)
    /\ requestedOffset' = IF hit THEN requestedOffset ELSE ToLineOffset(addr)

SetRequest(addr, hit) ==
    /\ cacheMiss' = ~hit
    /\ requestedIp' = ToLineAddr(addr)
    /\ requestedOffset' = ToLineOffset(addr)

(***************************************************************************)
(* The memory after the line of a cell has been written to it.             *)
(***************************************************************************)
\* Fault: the line is dropped.
WriteBackDropped(cell) == mem

\* Fault: the line goes where the requested line came from.
WriteBackMisplaced(cell) == [mem EXCEPT ![requestedIp] = cell.dataLine]

WriteBack(cell) == [mem EXCEPT ![cell.address] = cell.dataLine]

-----------------------------------------------------------------------------
(***************************************************************************)
(* The code port.  A request for the ip of the previous code request is    *)
(* dropped: the processor repeats it on every cycle that it waits.         *)
(***************************************************************************)
\* Fault: every request starts the countdown again.
NeverSameRequest(ip) == FALSE

\* Fault: a request for another word of the same line is dropped too.
SameCodeLine(ip) == ToLineAddr(ip) = ToLineAddr(memoryRequestIp)

SameCodeRequest(ip) == ip = memoryRequestIp

CodeRequest(ip) ==
    IF SameCodeRequest(ip)
    THEN UNCHANGED memVars
    ELSE LET hit == CheckAddress(CodeRow(ToLineAddr(ip)), ToLineAddr(ip))
         IN  /\ memoryRequestIp' = ip
             /\ waitCycles' = IF hit THEN CodeLatency ELSE FailLatency
             /\ SetRequest(ip, hit)
             /\ UNCHANGED <<mem, codeMemory, dataMemory>>

(***************************************************************************)
(* The word a ready code response returns.                                 *)
(***************************************************************************)
CodeWord ==
    IF cacheMiss
    THEN mem[requestedIp][requestedOffset]
    ELSE CodeRow(requestedIp)[FindEntry(CodeRow(requestedIp), requestedIp)]
            .dataLine[requestedOffset]

(***************************************************************************)
(* A miss reads the line, then writes the replaced cell back whether or    *)
(* not it was changed (it never is), then installs the line as clean.      *)
(***************************************************************************)
CodeFill ==
    LET row     == CodeRow(requestedIp)
        block   == PseudoLRUFinding(row)
        victim  == row[block]
        newCell == [address     |-> requestedIp,
                    dataLine    |-> mem[requestedIp],
                    lastUsage   |-> 1,
                    validityBit |-> TRUE]
    IN  /\ mem' = IF victim.address # 0
                  THEN WriteBack(victim)
                  ELSE mem
        /\ codeMemory' = [codeMemory EXCEPT
                            ![CodeIndex(requestedIp)] = Install(row, block, newCell)]

CodeHit ==
    LET row == CodeRow(requestedIp)
    IN  /\ codeMemory' = [codeMemory EXCEPT
                            ![CodeIndex(requestedIp)] =
                                Touch(row, FindEntry(row, requestedIp))]
        /\ mem' = mem

(***************************************************************************)
(* The response once the countdown is over; before that the code returns   *)
(* an empty optional and changes nothing.                                  *)
(***************************************************************************)
CodeResponse ==
    /\ IF cacheMiss THEN CodeFill ELSE CodeHit
    /\ UNCHANGED <<dataMemory, memoryRequestIp, requestedIp, requestedOffset,
                   waitCycles, cacheMiss>>

-----------------------------------------------------------------------------
(***************************************************************************)
(* The data port.  Instructions other than loads and stores pass through.  *)
(* Only a store is charged for the dirty line its miss will evict.         *)
(***************************************************************************)
MemoryTypes == {"Ld", "St"}

IsDirty(cell) == cell.address # 0 /\ ~cell.validityBit

\* Fault: loads are charged for the write-back as well.
ChargesAll(row, type) == IsDirty(row[PseudoLRUFinding(row)])

Charges(row, type) == type = "St" /\ IsDirty(row[PseudoLRUFinding(row)])

DataRequest(addr, type) ==
    IF type \notin MemoryTypes
    THEN UNCHANGED memVars
    ELSE LET row == DataRow(ToLineAddr(addr))
             hit == CheckAddress(row, ToLineAddr(addr))
         IN  /\ waitCycles' = IF hit THEN DataLatency
                              ELSE IF Charges(row, type)
                              THEN FailLatency + WriteBackLatency
                              ELSE FailLatency
             /\ SetRequest(addr, hit)
             /\ UNCHANGED <<mem, codeMemory, dataMemory, memoryRequestIp>>

(***************************************************************************)
(* The bool Response returns: the access is complete.                      *)
(***************************************************************************)
DataReady(type) == type \in MemoryTypes => waitCycles = 0

\* Fault: the line is installed without the store that missed.
StoreForgotten(line, addr, data, type) == line

StoreInLine(line, addr, data, type) ==
    IF type = "St" THEN [line EXCEPT ![ToLineOffset(addr)] = data] ELSE line

(***************************************************************************)
(* A miss: read the line, apply the store to it, write the replaced cell   *)
(* back if it is dirty, install the line (dirty if stored to).             *)
(***************************************************************************)
DataFill(addr, data, type) ==
    LET row     == DataRow(requestedIp)
        block   == PseudoLRUFinding(row)
        victim  == row[block]
        newCell == [address     |-> requestedIp,
                    dataLine    |-> StoreInLine(mem[requestedIp], addr, data, type),
                    lastUsage   |-> 1,
                    validityBit |-> type # "St"]
    IN  /\ mem' = IF IsDirty(victim)
                  THEN WriteBack(victim)
                  ELSE mem
        /\ dataMemory' = [dataMemory EXCEPT
                            ![DataIndex(requestedIp)] = Install(row, block, newCell)]

\* Fault: a store hit does not make the cell dirty.
StoreInCellClean(cell, data, type) ==
    IF type = "St" THEN [cell EXCEPT !.dataLine[requestedOffset] = data] ELSE cell

StoreInCell(cell, data, type) ==
    IF type = "St"
    THEN [cell EXCEPT !.dataLine[requestedOffset] = data, !.validityBit = FALSE]
    ELSE cell

(***************************************************************************)
(* A hit: mark the cell used, and for a store change its word and make it  *)
(* dirty.                                                                  *)
(***************************************************************************)
DataHit(data, type) ==
    LET row   == DataRow(requestedIp)
        block == FindEntry(row, requestedIp)
    IN  /\ dataMemory' = [dataMemory EXCEPT
                            ![DataIndex(requestedIp)] =
                                [Touch(row, block) EXCEPT
                                    ![block] = StoreInCell(@, data, type)]]
        /\ mem' = mem

DataResponse(addr, data, type) ==
    /\ IF type \in MemoryTypes /\ DataReady(type)
       THEN IF cacheMiss THEN DataFill(addr, data, type) ELSE DataHit(data, type)
       ELSE UNCHANGED <<mem, dataMemory>>
    /\ UNCHANGED <<codeMemory, memoryRequestIp, requestedIp, requestedOffset,
                   waitCycles, cacheMiss>>

(***************************************************************************)
(* What the call leaves in its data argument: a completed load overwrites  *)
(* it with the loaded word.                                                *)
(***************************************************************************)
DataResult(data, type) ==
    IF type = "Ld" /\ DataReady(type)
    THEN IF cacheMiss
         THEN mem[requestedIp][requestedOffset]
         ELSE DataRow(requestedIp)[FindEntry(DataRow(requestedIp), requestedIp)]
                .dataLine[requestedOffset]
    ELSE data

-----------------------------------------------------------------------------
\* Fault: the countdown does not stop at zero.
CountDownPastZero(n) == n - 1

CountDown(n) == IF n > 0 THEN n - 1 ELSE n

MemClock ==
    /\ waitCycles' = CountDown(waitCycles)
    /\ UNCHANGED <<mem, codeMemory, dataMemory, memoryRequestIp,
                   requestedIp, requestedOffset, cacheMiss>>

=============================================================================
