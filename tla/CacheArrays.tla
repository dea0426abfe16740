---------------------------- MODULE CacheArrays ----------------------------
(***************************************************************************)
(* The arrays of the simulator's caches and the helpers that search them   *)
(* and keep their pseudo-LRU bits (src/src/Memory.h).                      *)
(*                                                                         *)
(* The code keeps a cache as blockCount blocks, each a vector of cells     *)
(* indexed by (line address % block size) / line size.  No helper ever     *)
(* looks at two indices at once, so the model stores the transposed array: *)
(* for each index, the BlockCount cells (one per block) a line with that   *)
(* index may live in.  Every operator below takes such a row of cells.     *)
(*                                                                         *)
(* An address is a word address (byte address >> 2, what ToWordAddr        *)
(* returns) and a line address is a line number (byte address / 128), so   *)
(* that line number 0 is the address 0 the code uses to mean "empty cell". *)
(***************************************************************************)
EXTENDS Integers, FiniteSetsExt

CONSTANTS
    BlockCount,   \* blocks per cache: the associativity (4 in the code)
    CodeSets,     \* cells per block of the code cache (1024/128/4 = 2)
    DataSets,     \* cells per block of the data cache (4096/128/4 = 8)
    LineWords,    \* words per line (128/4 = 32)
    MemLines,     \* lines of the memory (1024*1024 words = 32768 lines)
    Word,         \* the values of a memory word
    ZeroWord      \* the word 0

ASSUME GeometryAssumption ==
    /\ BlockCount \in Nat \ {0}
    /\ CodeSets \in Nat \ {0}
    /\ DataSets \in Nat \ {0}
    /\ LineWords \in Nat \ {0}
    /\ MemLines \in Nat \ {0}

ASSUME WordAssumption == ZeroWord \in Word

Blocks  == 0 .. BlockCount - 1
Offsets == 0 .. LineWords - 1
Lines   == 0 .. MemLines - 1
Addrs   == {a \in Nat : a \div LineWords \in Lines}

Line == [Offsets -> Word]

ToLineAddr(addr)   == addr \div LineWords
ToLineOffset(addr) == addr % LineWords

CacheCell == [address     : Lines,
              dataLine    : Line,
              lastUsage   : {0, 1},
              validityBit : BOOLEAN]

(***************************************************************************)
(* A value-initialised cell.  Address 0 doubles as "never filled", and a   *)
(* FALSE validity bit as "dirty".                                          *)
(***************************************************************************)
EmptyCell == [address     |-> 0,
              dataLine    |-> [o \in Offsets |-> ZeroWord],
              lastUsage   |-> 0,
              validityBit |-> FALSE]

Row == [Blocks -> CacheCell]

EmptyRow == [b \in Blocks |-> EmptyCell]

Index(line, sets) == line % sets

\* Fault: the search stops one block early.
CheckAddressButLast(row, line) ==
    \E b \in 0 .. BlockCount - 2 : row[b].address = line

CheckAddress(row, line) == \E b \in Blocks : row[b].address = line

IfAllMarked(row) == \A b \in Blocks : row[b].address # 0

(***************************************************************************)
(* Every block but "key" has been used since the bits were last reset.     *)
(***************************************************************************)
CheckAllBits(row, key) == \A b \in Blocks \ {key} : row[b].lastUsage # 0

\* Fault: the usage bits are never reset.
ChangeLRUBitNever(row, key) == row

\* Fault: the usage bits are reset on every use.
ChangeLRUBitAlways(row, key) ==
    [b \in Blocks |->
        IF b # key THEN [row[b] EXCEPT !.lastUsage = 0] ELSE row[b]]

ChangeLRUBit(row, key) ==
    [b \in Blocks |->
        IF b # key /\ CheckAllBits(row, key)
        THEN [row[b] EXCEPT !.lastUsage = 0]
        ELSE row[b]]

Dirty(row) == {b \in Blocks : ~row[b].validityBit}

LeastUsed(row) ==
    {b \in Blocks : \A c \in Blocks : row[b].lastUsage <= row[c].lastUsage}

\* Fault: an empty cell counts as a dirty one.
DirtyBlockFirst(row) ==
    IF Dirty(row) # {} THEN Min(Dirty(row)) ELSE Min(LeastUsed(row))

(***************************************************************************)
(* The block the next miss replaces: in a full row the first dirty one,    *)
(* otherwise the first of those with the smallest usage bit.               *)
(***************************************************************************)
PseudoLRUFinding(row) ==
    IF IfAllMarked(row) /\ Dirty(row) # {}
    THEN Min(Dirty(row))
    ELSE Min(LeastUsed(row))

Holders(row, line) == {b \in Blocks : row[b].address = line}

\* Fault: the block found is forgotten.
FindFirstBlock(row, line) == 0

(***************************************************************************)
(* The first block that holds the line.  Without one the code answers with *)
(* block 0 (of index 0); nobody asks then, as FetchUsesOwnRequest and      *)
(* RequestStillValid in CpuProperties show.                                *)
(***************************************************************************)
FindEntry(row, line) ==
    IF CheckAddress(row, line) THEN Min(Holders(row, line)) ELSE 0

(***************************************************************************)
(* The two ways a response updates a row: a hit marks the block and then   *)
(* ages the others, a miss ages the others and then overwrites the block.  *)
(***************************************************************************)
Touch(row, b) == ChangeLRUBit([row EXCEPT ![b].lastUsage = 1], b)

Install(row, b, cell) == [ChangeLRUBit(row, b) EXCEPT ![b] = cell]

=============================================================================
