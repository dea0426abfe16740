------------------------------- MODULE Loader -------------------------------
(***************************************************************************)
(* MemoryStorage::LoadElf and LoadElfSpecific (src/src/Memory.h) and their *)
(* only use, at the top of main: memory is cleared, the loadable segments  *)
(* of an ELF file are copied into it one program header after the other,   *)
(* and the simulation starts, whatever LoadElf returned.                   *)
(*                                                                         *)
(* A file is a record of what the loader looks at.  Its headers are the    *)
(* program headers as its class lays them out: the 32 and 64 bit versions  *)
(* are one template and differ in the sizes of the structures only.        *)
(***************************************************************************)
EXTENDS Integers, Sequences

CONSTANTS
    MemBytes,     \* size of memory in bytes (4 * memSize)
    Byte,         \* the contents of a byte
    EhdrSize,     \* sizeof(Elf32_Ehdr), sizeof(Elf64_Ehdr) by class
    PhdrSize,     \* sizeof(Elf32_Phdr), sizeof(Elf64_Phdr) by class
    Files         \* the files "program" may be

Class == {"32", "64"}

Header == [type : {"Load", "Other"}, offset : Nat, filesz : Nat,
           memsz : Nat, paddr : Nat]

(***************************************************************************)
(* A file that is cut off inside its own header, and a segment beyond the  *)
(* end of memory, are excluded: the code has no check for either.          *)
(***************************************************************************)
IsFile(f) ==
    /\ f.opens \in BOOLEAN
    /\ f.readable \in BOOLEAN
    /\ f.size \in Nat
    /\ f.bytes \in [0 .. f.size - 1 -> Byte]
    /\ f.magic \in BOOLEAN
    /\ f.class \in Class \cup {"Other"}
    /\ f.phoff \in Nat
    /\ f.headers \in Seq(Header)
    /\ f.class \in Class /\ f.size >= EhdrSize["32"] => f.size >= EhdrSize[f.class]
    /\ \A k \in DOMAIN f.headers :
           f.headers[k].paddr + f.headers[k].memsz <= MemBytes

ASSUME LoaderAssumption ==
    /\ MemBytes \in Nat
    /\ 0 \in Byte
    /\ EhdrSize \in [Class -> Nat]
    /\ PhdrSize \in [Class -> Nat]
    /\ \A f \in Files : IsFile(f)

Address == 0 .. MemBytes - 1

VARIABLES
    file,      \* the file named "program" (never changes)
    mem,       \* _mem, byte by byte
    i,         \* the program header to look at next
    pc,        \* where main is
    result     \* what LoadElf returned

vars == <<file, mem, i, pc, result>>

TypeOK ==
    /\ IsFile(file)
    /\ mem \in [Address -> Byte]
    /\ i \in 1 .. Len(file.headers) + 1
    /\ pc \in {"open", "segments", "loaded", "simulating"}
    /\ result \in BOOLEAN

Init ==
    /\ file \in Files
    /\ mem = [a \in Address |-> 0]
    /\ i = 1
    /\ pc = "open"
    /\ result = FALSE

Return(value) ==
    /\ result' = value
    /\ pc' = "loaded"
    /\ UNCHANGED <<mem, i>>

-----------------------------------------------------------------------------
(***************************************************************************)
(* The checks before the first program header.                             *)
(***************************************************************************)
TableFits(f) == f.size >= f.phoff + Len(f.headers) * PhdrSize[f.class]

IsElf(f) ==
    /\ f.opens
    /\ f.readable
    /\ f.size >= EhdrSize["32"]
    /\ f.magic
    /\ f.class \in Class
    /\ TableFits(f)

Open ==
    /\ pc = "open"
    /\ IF IsElf(file)
       THEN pc' = "segments" /\ UNCHANGED <<mem, i, result>>
       ELSE Return(FALSE)
    /\ UNCHANGED file

(***************************************************************************)
(* One turn of the loop over the program headers.                          *)
(***************************************************************************)
Loadable(h) == h.type = "Load" /\ h.memsz > 0

\* Fault: an empty file part is checked like any other.
ChecksEmptyPart(h) == h.memsz >= h.filesz /\ h.offset + h.filesz <= file.size

Sound(h) ==
    /\ h.memsz >= h.filesz
    /\ h.filesz > 0 => h.offset + h.filesz <= file.size

\* Fault: nothing is cleared behind the file part.
CopyOnly(h) ==
    [a \in Address |->
        IF a \in h.paddr .. h.paddr + h.filesz - 1
        THEN file.bytes[h.offset + (a - h.paddr)]
        ELSE mem[a]]

CopyAndClear(h) ==
    [a \in Address |->
        CASE a \in h.paddr .. h.paddr + h.filesz - 1 ->
                file.bytes[h.offset + (a - h.paddr)]
          [] a \in h.paddr + h.filesz .. h.paddr + h.memsz - 1 -> 0
          [] OTHER -> mem[a]]

\* Fault: a loaded header is counted twice.
NextTwice(h) == IF Loadable(h) THEN i + 2 ELSE i + 1

NextHeader(h) == i + 1

Segment ==
    /\ pc = "segments"
    /\ i <= Len(file.headers)
    /\ LET h == file.headers[i]
       IN  IF Loadable(h) /\ ~Sound(h)
           THEN Return(FALSE)
           ELSE /\ mem' = IF Loadable(h) THEN CopyAndClear(h) ELSE mem
                /\ i' = NextHeader(h)
                /\ UNCHANGED <<pc, result>>
    /\ UNCHANGED file

Finish ==
    /\ pc = "segments"
    /\ i > Len(file.headers)
    /\ Return(TRUE)
    /\ UNCHANGED file

(***************************************************************************)
(* main does not look at the result.                                       *)
(***************************************************************************)
Start ==
    /\ pc = "loaded"
    /\ pc' = "simulating"
    /\ UNCHANGED <<file, mem, i, result>>

Next == Open \/ Segment \/ Finish \/ Start

Spec == Init /\ [][Next]_vars

-----------------------------------------------------------------------------
(***************************************************************************)
(* The segment a header places in memory, and its byte at an address.      *)
(***************************************************************************)
Covers(h, a) == Loadable(h) /\ a \in h.paddr .. h.paddr + h.memsz - 1

ByteOf(h, a) ==
    IF a < h.paddr + h.filesz THEN file.bytes[h.offset + (a - h.paddr)] ELSE 0

(***************************************************************************)
(* Memory with the segments of the first n headers in it: each byte is     *)
(* that of the last segment over its address, if there is one.             *)
(***************************************************************************)
HoldsSegments(n) ==
    \A a \in Address :
        \/ /\ \A k \in 1 .. n : ~Covers(file.headers[k], a)
           /\ mem[a] = 0
        \/ \E k \in 1 .. n :
              /\ Covers(file.headers[k], a)
              /\ \A j \in k + 1 .. n : ~Covers(file.headers[j], a)
              /\ mem[a] = ByteOf(file.headers[k], a)

(***************************************************************************)
(* At every moment memory holds exactly the segments loaded so far:        *)
(* overlapping segments win in file order, the zeros behind a file part    *)
(* never spill over another segment, headers that are not loaded change    *)
(* nothing, and a load that fails in the middle (Memory.h:124) leaves      *)
(* whole segments only.                                                    *)
(***************************************************************************)
MemoryHoldsPrefix == HoldsSegments(i - 1)

(***************************************************************************)
(* The headers of segments that are not in the file as they claim.         *)
(***************************************************************************)
Broken ==
    {k \in DOMAIN file.headers :
        LET h == file.headers[k]
        IN  /\ h.type = "Load" /\ h.memsz > 0
            /\ \/ h.filesz > h.memsz
               \/ h.filesz > 0 /\ file.size < h.offset + h.filesz}

(***************************************************************************)
(* When the simulation starts (main.cpp:11 ignores the result), the result *)
(* says which program it runs: all of the file's segments, or those before *)
(* the first header that is not sound, or none of a file that is no ELF    *)
(* file.                                                                   *)
(***************************************************************************)
ImageOnStart ==
    pc = "simulating" =>
        /\ result <=> IsElf(file) /\ Broken = {}
        /\ result => HoldsSegments(Len(file.headers))
        /\ ~IsElf(file) => HoldsSegments(0)
        /\ ~result /\ IsElf(file) =>
              \E n \in Broken : /\ \A k \in Broken : n <= k
                              /\ HoldsSegments(n - 1)

=============================================================================
