---------------------------- MODULE LoaderProofs ----------------------------
(***************************************************************************)
(* What the loader leaves in memory, for every size of memory and every    *)
(* set of files.  The invariant adds to the properties what the loop knows *)
(* of the headers it has passed.                                           *)
(***************************************************************************)
EXTENDS Loader, TLAPS

Outcome ==
    /\ result => IsElf(file) /\ Broken = {} /\ i = Len(file.headers) + 1
    /\ ~result =>
          \/ ~IsElf(file) /\ i = 1
          \/ IsElf(file) /\ i \in Broken /\ \A k \in Broken : i <= k

Inv ==
    /\ TypeOK
    /\ MemoryHoldsPrefix
    /\ pc = "open" => i = 1
    /\ pc = "segments" => IsElf(file) /\ \A k \in Broken : i <= k
    /\ pc \in {"loaded", "simulating"} => Outcome

-----------------------------------------------------------------------------
LEMMA HeaderFacts ==
    ASSUME IsFile(file), NEW k \in DOMAIN file.headers
    PROVE  /\ file.headers[k] \in Header
           /\ file.headers[k].paddr + file.headers[k].memsz <= MemBytes
           /\ k \in Nat \ {0}
           /\ k <= Len(file.headers)
           /\ k \in Broken <=> Loadable(file.headers[k]) /\ ~Sound(file.headers[k])
<1>1. file.headers \in Seq(Header)
  BY DEF IsFile
<1>2. DOMAIN file.headers = 1 .. Len(file.headers) /\ Len(file.headers) \in Nat
  BY <1>1
<1>3. file.headers[k] \in Header
  BY <1>1, <1>2
<1>4. file.headers[k].paddr + file.headers[k].memsz <= MemBytes
  BY DEF IsFile
<1>5. file.size \in Nat
  BY DEF IsFile
<1>6. k \in Broken <=> Loadable(file.headers[k]) /\ ~Sound(file.headers[k])
  BY <1>3, <1>5 DEF Broken, Loadable, Sound, Header
<1> QED BY <1>2, <1>3, <1>4, <1>6

(***************************************************************************)
(* Copying a sound segment gives the bytes it covers their new contents    *)
(* and leaves all others.                                                  *)
(***************************************************************************)
LEMMA CopyFacts ==
    ASSUME IsFile(file), NEW h \in Header, Loadable(h), Sound(h),
           mem \in [Address -> Byte]
    PROVE  /\ CopyAndClear(h) \in [Address -> Byte]
           /\ \A a \in Address :
                 CopyAndClear(h)[a] = IF Covers(h, a) THEN ByteOf(h, a) ELSE mem[a]
<1>1. /\ h.paddr \in Nat /\ h.filesz \in Nat /\ h.memsz \in Nat /\ h.offset \in Nat
      /\ h.memsz >= h.filesz
      /\ h.filesz > 0 => h.offset + h.filesz <= file.size
      /\ file.size \in Nat
      /\ file.bytes \in [0 .. file.size - 1 -> Byte]
  BY DEF Header, Sound, IsFile
<1>2. ASSUME NEW a \in Address
      PROVE  /\ CopyAndClear(h)[a] = IF Covers(h, a) THEN ByteOf(h, a) ELSE mem[a]
             /\ CopyAndClear(h)[a] \in Byte
  <2>1. a \in Int
    BY DEF Address
  <2>2. CASE a \in h.paddr .. h.paddr + h.filesz - 1
    <3>0. a \notin h.paddr + h.filesz .. h.paddr + h.memsz - 1
      BY <1>1, <2>1, <2>2
    <3>1. CopyAndClear(h)[a] = file.bytes[h.offset + (a - h.paddr)]
      BY <2>2, <3>0 DEF CopyAndClear
    <3>2. h.offset + (a - h.paddr) \in 0 .. file.size - 1
      <4>1. h.filesz > 0 /\ a - h.paddr \in 0 .. h.filesz - 1
        BY <1>1, <2>1, <2>2
      <4>2. h.offset + h.filesz <= file.size
        BY <1>1, <4>1
      <4>3. ASSUME NEW o \in Nat, NEW n \in Nat, NEW d \in 0 .. n - 1,
                   NEW size \in Nat, o + n <= size
            PROVE  o + d \in 0 .. size - 1
        BY <4>3
      <4> QED BY <1>1, <4>1, <4>2, <4>3
    <3>3. Covers(h, a) /\ a < h.paddr + h.filesz
      BY <1>1, <2>1, <2>2 DEF Covers
    <3> QED BY <1>1, <3>1, <3>2, <3>3 DEF ByteOf
  <2>3. CASE a \in h.paddr + h.filesz .. h.paddr + h.memsz - 1
    <3>1. a \notin h.paddr .. h.paddr + h.filesz - 1
      BY <1>1, <2>1, <2>3
    <3>2. CopyAndClear(h)[a] = 0
      BY <2>3, <3>1 DEF CopyAndClear
    <3>3. Covers(h, a) /\ ~(a < h.paddr + h.filesz)
      BY <1>1, <2>1, <2>3 DEF Covers
    <3> QED BY <3>2, <3>3, LoaderAssumption DEF ByteOf
  <2>4. CASE /\ a \notin h.paddr .. h.paddr + h.filesz - 1
             /\ a \notin h.paddr + h.filesz .. h.paddr + h.memsz - 1
    <3>1. CopyAndClear(h)[a] = mem[a]
      BY <2>4 DEF CopyAndClear
    <3>2. ~Covers(h, a)
      BY <1>1, <2>1, <2>4 DEF Covers
    <3> QED BY <3>1, <3>2
  <2> QED BY <2>2, <2>3, <2>4
<1>3. CopyAndClear(h) = [a \in Address |-> CopyAndClear(h)[a]]
  BY DEF CopyAndClear
<1> QED BY <1>2, <1>3

(***************************************************************************)
(* One more header: its segment, if it is loaded, covers the earlier ones. *)
(***************************************************************************)
LEMMA OneMoreHeader ==
    ASSUME TypeOK, MemoryHoldsPrefix, i <= Len(file.headers),
           file' = file, mem' \in [Address -> Byte],
           \A a \in Address :
              mem'[a] = IF Covers(file.headers[i], a)
                        THEN ByteOf(file.headers[i], a)
                        ELSE mem[a],
           i' = i + 1
    PROVE  MemoryHoldsPrefix'
<1>1. i \in Nat \ {0} /\ i' - 1 = i
  BY DEF TypeOK
<1> DEFINE hs == file.headers
<1>2. ASSUME NEW a \in Address
      PROVE  \/ /\ \A k \in 1 .. i : ~Covers(hs[k], a)
                /\ mem'[a] = 0
             \/ \E k \in 1 .. i :
                   /\ Covers(hs[k], a)
                   /\ \A j \in k + 1 .. i : ~Covers(hs[j], a)
                   /\ mem'[a] = ByteOf(hs[k], a)
  <2>1. CASE Covers(hs[i], a)
    <3>1. mem'[a] = ByteOf(hs[i], a)
      BY <2>1
    <3>2. i \in 1 .. i /\ i + 1 .. i = {}
      BY <1>1
    <3> QED BY <2>1, <3>1, <3>2
  <2>2. CASE ~Covers(hs[i], a)
    <3>1. mem'[a] = mem[a]
      BY <2>2
    <3>2. CASE (\A k \in 1 .. i - 1 : ~Covers(hs[k], a)) /\ mem[a] = 0
      <4>1. \A k \in 1 .. i : k = i \/ k \in 1 .. i - 1
        BY <1>1
      <4> HIDE DEF hs
      <4> QED BY <2>2, <3>1, <3>2, <4>1
    <3>3. CASE \E k \in 1 .. i - 1 :
                   /\ Covers(hs[k], a)
                   /\ \A j \in k + 1 .. i - 1 : ~Covers(hs[j], a)
                   /\ mem[a] = ByteOf(hs[k], a)
      <4>1. PICK k \in 1 .. i - 1 :
                   /\ Covers(hs[k], a)
                   /\ \A j \in k + 1 .. i - 1 : ~Covers(hs[j], a)
                   /\ mem[a] = ByteOf(hs[k], a)
        BY <3>3
      <4>2. k \in 1 .. i /\ \A j \in k + 1 .. i : j = i \/ j \in k + 1 .. i - 1
        BY <1>1
      <4> HIDE DEF hs
      <4> QED BY <2>2, <3>1, <4>1, <4>2
    <3> QED BY <3>2, <3>3 DEF MemoryHoldsPrefix, HoldsSegments
  <2> QED BY <2>1, <2>2
<1>3. HoldsSegments(i - 1)' <=>
        \A a \in Address :
            \/ /\ \A k \in 1 .. i' - 1 : ~Covers(hs[k], a)
               /\ mem'[a] = 0
            \/ \E k \in 1 .. i' - 1 :
                  /\ Covers(hs[k], a)
                  /\ \A j \in k + 1 .. i' - 1 : ~Covers(hs[j], a)
                  /\ mem'[a] = ByteOf(hs[k], a)
  BY DEF HoldsSegments, ByteOf
<1> QED BY <1>1, <1>2, <1>3 DEF MemoryHoldsPrefix

-----------------------------------------------------------------------------
LEMMA InitInv == Init => Inv
<1> SUFFICES ASSUME Init PROVE Inv
  OBVIOUS
<1>1. IsFile(file)
  BY LoaderAssumption DEF Init
<1>2. Len(file.headers) \in Nat
  BY <1>1 DEF IsFile
<1>3. TypeOK
  <2>1. mem \in [Address -> Byte]
    BY LoaderAssumption DEF Init
  <2>2. i \in 1 .. Len(file.headers) + 1
    BY <1>2 DEF Init
  <2> QED BY <1>1, <2>1, <2>2 DEF Init, TypeOK
<1>4. MemoryHoldsPrefix
  BY DEF Init, MemoryHoldsPrefix, HoldsSegments
<1> QED BY <1>3, <1>4 DEF Inv, Init

(***************************************************************************)
(* Steps that only move pc, i and the result.                              *)
(***************************************************************************)
LEMMA SameMemory ==
    ASSUME TypeOK, MemoryHoldsPrefix, UNCHANGED <<file, mem, i>>,
           pc' \in {"open", "segments", "loaded", "simulating"}, result' \in BOOLEAN
    PROVE  /\ TypeOK'
           /\ MemoryHoldsPrefix'
           /\ Broken' = Broken
           /\ IsElf(file)' = IsElf(file)
<1>1. IsFile(file)'
  BY DEF TypeOK, IsFile
<1>2. TypeOK'
  BY <1>1 DEF TypeOK
<1>3. MemoryHoldsPrefix'
  BY DEF MemoryHoldsPrefix, HoldsSegments, ByteOf
<1>4. Broken' = Broken
  BY DEF Broken
<1>5. IsElf(file)' = IsElf(file)
  BY DEF IsElf, TableFits
<1> QED BY <1>2, <1>3, <1>4, <1>5

LEMMA StepInv == Inv /\ [Next]_vars => Inv'
<1> SUFFICES ASSUME Inv, [Next]_vars PROVE Inv'
  OBVIOUS
<1>0. TypeOK /\ MemoryHoldsPrefix
  BY DEF Inv
<1>1. CASE Open
  <2>1. UNCHANGED <<file, mem, i>> /\ pc = "open" /\ i = 1
    BY <1>1 DEF Open, Return, Inv
  <2>2. CASE IsElf(file)
    <3>1. pc' = "segments" /\ result' = result
      BY <1>1, <2>2 DEF Open
    <3>2. /\ TypeOK' /\ MemoryHoldsPrefix'
          /\ Broken' = Broken /\ IsElf(file)' = IsElf(file)
      BY <1>0, <2>1, <3>1, SameMemory DEF TypeOK
    <3>3. \A k \in Broken : i <= k
      BY <1>0, <2>1, HeaderFacts DEF Broken, TypeOK
    <3> QED BY <2>1, <2>2, <3>1, <3>2, <3>3 DEF Inv
  <2>3. CASE ~IsElf(file)
    <3>1. pc' = "loaded" /\ result' = FALSE
      BY <1>1, <2>3 DEF Open, Return
    <3>2. /\ TypeOK' /\ MemoryHoldsPrefix'
          /\ Broken' = Broken /\ IsElf(file)' = IsElf(file)
      BY <1>0, <2>1, <3>1, SameMemory
    <3> QED BY <2>1, <2>3, <3>1, <3>2 DEF Inv, Outcome
  <2> QED BY <2>2, <2>3
<1>2. CASE Segment
  <2> DEFINE h == file.headers[i]
  <2>1. /\ pc = "segments" /\ i <= Len(file.headers) /\ file' = file
        /\ IsElf(file) /\ \A k \in Broken : i <= k
    BY <1>2 DEF Segment, Inv
  <2>2. IsFile(file) /\ i \in DOMAIN file.headers /\ i \in Nat \ {0}
    BY <1>0, <2>1 DEF TypeOK, IsFile
  <2>3. h \in Header /\ (i \in Broken <=> Loadable(h) /\ ~Sound(h))
    BY <2>2, HeaderFacts
  <2>4. CASE Loadable(h) /\ ~Sound(h)
    <3>1. UNCHANGED <<file, mem, i>> /\ pc' = "loaded" /\ result' = FALSE
      BY <1>2, <2>4 DEF Segment, Return
    <3>2. /\ TypeOK' /\ MemoryHoldsPrefix'
          /\ Broken' = Broken /\ IsElf(file)' = IsElf(file)
      BY <1>0, <3>1, SameMemory
    <3> QED BY <2>1, <2>3, <2>4, <3>1, <3>2 DEF Inv, Outcome
  <2>5. CASE ~(Loadable(h) /\ ~Sound(h))
    <3>1. /\ mem' = IF Loadable(h) THEN CopyAndClear(h) ELSE mem
          /\ i' = i + 1 /\ pc' = pc /\ result' = result
      BY <1>2, <2>5 DEF Segment, NextHeader
    <3>2. /\ mem' \in [Address -> Byte]
          /\ \A a \in Address :
                mem'[a] = IF Covers(h, a) THEN ByteOf(h, a) ELSE mem[a]
      <4>1. CASE Loadable(h)
        <5> HIDE DEF h
        <5> QED BY <4>1, <1>0, <2>2, <2>3, <2>5, <3>1, CopyFacts DEF TypeOK
      <4>2. CASE ~Loadable(h)
        <5> HIDE DEF h
        <5> QED BY <4>2, <1>0, <3>1 DEF TypeOK, Covers
      <4> QED BY <4>1, <4>2
    <3>3. MemoryHoldsPrefix'
      BY <1>0, <2>1, <3>1, <3>2, OneMoreHeader
    <3>4. Broken' = Broken /\ IsElf(file)' = IsElf(file)
      BY <2>1 DEF Broken, IsElf, TableFits
    <3>5. \A k \in Broken : i + 1 <= k
      <4>1. i \notin Broken
        BY <2>3, <2>5
      <4>2. \A k \in Broken : k \in Nat
        BY <2>2, HeaderFacts DEF Broken
      <4> QED BY <4>1, <4>2, <2>1, <2>2
    <3>6. TypeOK'
      <4>1. i' \in 1 .. Len(file.headers) + 1
        BY <2>1, <2>2, <3>1, HeaderFacts DEF IsFile
      <4>2. IsFile(file)'
        BY <2>1, <2>2 DEF IsFile
      <4> QED BY <1>0, <2>1, <3>1, <3>2, <4>1, <4>2 DEF TypeOK
    <3> QED BY <2>1, <3>1, <3>3, <3>4, <3>5, <3>6 DEF Inv
  <2> QED BY <2>4, <2>5
<1>3. CASE Finish
  <2>1. /\ pc = "segments" /\ i > Len(file.headers) /\ UNCHANGED <<file, mem, i>>
        /\ pc' = "loaded" /\ result' = TRUE
        /\ IsElf(file) /\ \A k \in Broken : i <= k
    BY <1>3 DEF Finish, Return, Inv
  <2>2. /\ TypeOK' /\ MemoryHoldsPrefix'
        /\ Broken' = Broken /\ IsElf(file)' = IsElf(file)
    BY <1>0, <2>1, SameMemory
  <2>3. IsFile(file) /\ Len(file.headers) \in Nat
    BY <1>0 DEF TypeOK, IsFile
  <2>4. Broken = {}
    BY <2>1, <2>3, <1>0, HeaderFacts DEF Broken, TypeOK
  <2>5. i = Len(file.headers) + 1
    BY <1>0, <2>1, <2>3 DEF TypeOK
  <2> QED BY <2>1, <2>2, <2>4, <2>5 DEF Inv, Outcome
<1>4. CASE Start
  <2>1. /\ pc = "loaded" /\ pc' = "simulating" /\ UNCHANGED <<file, mem, i>>
        /\ result' = result
    BY <1>4 DEF Start
  <2>2. /\ TypeOK' /\ MemoryHoldsPrefix'
        /\ Broken' = Broken /\ IsElf(file)' = IsElf(file)
    BY <1>0, <2>1, SameMemory DEF TypeOK
  <2> QED BY <2>1, <2>2 DEF Inv, Outcome
<1>5. CASE UNCHANGED vars
  <2>1. UNCHANGED <<file, mem, i>> /\ pc' = pc /\ result' = result
    BY <1>5 DEF vars
  <2>2. /\ TypeOK' /\ MemoryHoldsPrefix'
        /\ Broken' = Broken /\ IsElf(file)' = IsElf(file)
    BY <1>0, <2>1, SameMemory DEF TypeOK
  <2> QED BY <2>1, <2>2 DEF Inv, Outcome
<1> QED BY <1>1, <1>2, <1>3, <1>4, <1>5 DEF Next

LEMMA AlwaysInv == Spec => []Inv
<1> QED BY InitInv, StepInv, PTL DEF Spec

(***************************************************************************)
(* The loop never leaves the program headers, and memory stays an array of *)
(* bytes of the size it was made with (Memory.h:47, 114).                  *)
(***************************************************************************)
THEOREM LoaderTypes == Spec => []TypeOK
<1>1. Inv => TypeOK
  BY DEF Inv
<1> QED BY <1>1, AlwaysInv, PTL

(***************************************************************************)
(* Memory is always the segments of the headers passed so far, laid over   *)
(* each other in file order on zeros (Memory.h:114-144).                   *)
(***************************************************************************)
THEOREM MemoryIsThePrefix == Spec => []MemoryHoldsPrefix
<1>1. Inv => MemoryHoldsPrefix
  BY DEF Inv
<1> QED BY <1>1, AlwaysInv, PTL

(***************************************************************************)
(* What the simulation runs on when main goes on without looking at the    *)
(* result of LoadElf (main.cpp:11).                                        *)
(***************************************************************************)
THEOREM ImageIsDetermined == Spec => []ImageOnStart
<1>1. Inv => ImageOnStart
  <2> SUFFICES ASSUME Inv, pc = "simulating"
               PROVE  /\ result <=> IsElf(file) /\ Broken = {}
                      /\ result => HoldsSegments(Len(file.headers))
                      /\ ~IsElf(file) => HoldsSegments(0)
                      /\ ~result /\ IsElf(file) =>
                            \E n \in Broken : /\ \A k \in Broken : n <= k
                                              /\ HoldsSegments(n - 1)
    BY DEF ImageOnStart
  <2>1. Outcome /\ HoldsSegments(i - 1) /\ result \in BOOLEAN
    BY DEF Inv, TypeOK, MemoryHoldsPrefix
  <2>2. Len(file.headers) \in Nat
    BY DEF Inv, TypeOK, IsFile
  <2>3. CASE result
    <3>1. i - 1 = Len(file.headers)
      BY <2>1, <2>2, <2>3 DEF Outcome
    <3> QED BY <2>1, <2>3, <3>1 DEF Outcome
  <2>4. CASE ~result /\ IsElf(file)
    BY <2>1, <2>4 DEF Outcome
  <2>5. CASE ~result /\ ~IsElf(file)
    <3>1. i - 1 = 0
      BY <2>1, <2>5 DEF Outcome
    <3> QED BY <2>1, <2>5, <3>1
  <2> QED BY <2>1, <2>3, <2>4, <2>5
<1> QED BY <1>1, AlwaysInv, PTL

=============================================================================
