----------------------------- MODULE PoolProofs -----------------------------
(***************************************************************************)
(* The pool allocator is an object pool and loses no chunk, for blocks of  *)
(* any size and any number of them.  The invariant is the free list        *)
(* written out: a sequence, given as a function on 1 .. n, that lists each *)
(* free chunk exactly once in the order of the links.  With it goes that   *)
(* no chunk is held twice.                                                 *)
(***************************************************************************)
EXTENDS PoolAllocator, TLAPS

FreeListIs(n, f, link, first, free) ==
    /\ f \in [1 .. n -> Chunk]
    /\ \A i, j \in 1 .. n : f[i] = f[j] => i = j
    /\ \A c : c \in free <=> \E i \in 1 .. n : f[i] = c
    /\ first = IF n = 0 THEN Null ELSE f[1]
    /\ \A i \in 1 .. n : link[f[i]] = IF i = n THEN Null ELSE f[i + 1]

FreeList(link, first, free) ==
    \E n \in Nat : \E f : FreeListIs(n, f, link, first, free)

Inv ==
    /\ TypeOK
    /\ holders \in [Chunk -> {0, 1}]
    /\ live \subseteq Provided
    /\ FreeList(next, alloc, Provided \ live)

-----------------------------------------------------------------------------
(***************************************************************************)
(* Where the blocks lie.                                                   *)
(***************************************************************************)
LEMMA BlockBounds ==
    ASSUME blocks \in 0 .. MaxBlocks
    PROVE  /\ blocks * ChunksPerBlock \in Nat
           /\ MaxBlocks * ChunksPerBlock \in Nat
           /\ blocks * ChunksPerBlock <= MaxBlocks * ChunksPerBlock
           /\ (blocks + 1) * ChunksPerBlock = blocks * ChunksPerBlock + ChunksPerBlock
           /\ blocks < MaxBlocks =>
                 blocks * ChunksPerBlock + ChunksPerBlock
                     <= MaxBlocks * ChunksPerBlock
  BY PoolAssumption

(***************************************************************************)
(* How the chunks that are held change with the count of one of them.      *)
(***************************************************************************)
LEMMA Taken ==
    ASSUME holders \in [Chunk -> {0, 1}], NEW chunk \in Chunk \ live,
           holders' = [holders EXCEPT ![chunk] = @ + 1]
    PROVE  /\ holders[chunk] = 0 /\ holders' = [holders EXCEPT ![chunk] = 1]
           /\ holders' \in [Chunk -> {0, 1}]
           /\ live' = live \cup {chunk}
<1>1. holders[chunk] = 0
  BY DEF live
<1>2. holders' = [holders EXCEPT ![chunk] = 1]
  BY <1>1
<1>3. \A c \in Chunk : holders'[c] = IF c = chunk THEN 1 ELSE holders[c]
  BY <1>2
<1> QED BY <1>1, <1>2, <1>3 DEF live

LEMMA Returned ==
    ASSUME holders \in [Chunk -> {0, 1}], NEW chunk \in live,
           holders' = [holders EXCEPT ![chunk] = @ - 1]
    PROVE  /\ holders[chunk] = 1 /\ holders' = [holders EXCEPT ![chunk] = 0]
           /\ holders' \in [Chunk -> {0, 1}]
           /\ live' = live \ {chunk}
<1>1. chunk \in Chunk /\ holders[chunk] = 1
  BY DEF live
<1>2. holders' = [holders EXCEPT ![chunk] = 0]
  BY <1>1
<1>3. \A c \in Chunk : holders'[c] = IF c = chunk THEN 0 ELSE holders[c]
  BY <1>2
<1> QED BY <1>1, <1>2, <1>3 DEF live

LEMMA Kept == holders' = holders => live' = live
  BY DEF live

LEMMA CountsAreNumbers == holders \in [Chunk -> {0, 1}] => holders \in [Chunk -> Nat]
  OBVIOUS

(***************************************************************************)
(* Popping the first chunk of a free list leaves the list of the others.   *)
(***************************************************************************)
LEMMA PopFirst ==
    ASSUME NEW link \in [Chunk -> Chunk \cup {Null}], NEW first, NEW free,
           FreeList(link, first, free), first # Null
    PROVE  /\ first \in free
           /\ first \in Chunk
           /\ FreeList(link, link[first], free \ {first})
<1>0. PICK n \in Nat : \E f : FreeListIs(n, f, link, first, free)
  BY DEF FreeList
<1>1. PICK f : FreeListIs(n, f, link, first, free)
  BY <1>0
<1>2. n # 0 /\ 1 \in 1 .. n /\ f[1] = first /\ f[1] \in Chunk
  BY <1>1 DEF FreeListIs
<1>3. first \in free
  BY <1>1, <1>2 DEF FreeListIs
<1> DEFINE m == n - 1
           g == [i \in 1 .. m |-> f[i + 1]]
<1>4. m \in Nat /\ \A i \in 1 .. m : i + 1 \in 1 .. n /\ g[i] = f[i + 1]
  BY <1>2
<1>5. FreeListIs(m, g, link, link[first], free \ {first})
  <2>1. g \in [1 .. m -> Chunk]
    BY <1>1, <1>4 DEF FreeListIs
  <2>2. \A i, j \in 1 .. m : g[i] = g[j] => i = j
    <3> SUFFICES ASSUME NEW i \in 1 .. m, NEW j \in 1 .. m, g[i] = g[j]
                 PROVE  i = j
      OBVIOUS
    <3>1. f[i + 1] = f[j + 1] /\ i + 1 \in 1 .. n /\ j + 1 \in 1 .. n
      BY <1>4
    <3>2. i + 1 = j + 1
      BY <3>1, <1>1 DEF FreeListIs
    <3> QED BY <3>2
  <2>3. \A c : c \in free \ {first} <=> \E i \in 1 .. m : g[i] = c
    <3> SUFFICES ASSUME NEW c
                 PROVE  c \in free \ {first} <=> \E i \in 1 .. m : g[i] = c
      OBVIOUS
    <3>1. ASSUME c \in free \ {first} PROVE \E i \in 1 .. m : g[i] = c
      <4>1. PICK i \in 1 .. n : f[i] = c
        BY <3>1, <1>1 DEF FreeListIs
      <4>2. i # 1
        BY <4>1, <3>1, <1>2
      <4>3. i - 1 \in 1 .. m /\ (i - 1) + 1 = i
        BY <4>2, <1>2
      <4>4. g[i - 1] = c
        BY <4>1, <4>3, <1>4
      <4> QED BY <4>3, <4>4
    <3>2. ASSUME NEW i \in 1 .. m, g[i] = c PROVE c \in free \ {first}
      <4>1. f[i + 1] = c /\ i + 1 \in 1 .. n /\ i + 1 # 1
        BY <3>2, <1>4
      <4>2. c \in free
        BY <4>1, <1>1 DEF FreeListIs
      <4>3. c # f[1]
        BY <4>1, <1>1, <1>2 DEF FreeListIs
      <4> QED BY <4>2, <4>3, <1>2
    <3> QED BY <3>1, <3>2
  <2>4. link[first] = IF m = 0 THEN Null ELSE g[1]
    <3>1. link[first] = IF 1 = n THEN Null ELSE f[2]
      BY <1>1, <1>2 DEF FreeListIs
    <3>2. CASE n = 1
      BY <3>1, <3>2
    <3>3. CASE n # 1
      <4>1. 1 \in 1 .. m
        BY <3>3, <1>2
      <4> QED BY <3>1, <3>3, <4>1
    <3> QED BY <3>2, <3>3
  <2>5. \A i \in 1 .. m : link[g[i]] = IF i = m THEN Null ELSE g[i + 1]
    <3> SUFFICES ASSUME NEW i \in 1 .. m
                 PROVE  link[g[i]] = IF i = m THEN Null ELSE g[i + 1]
      OBVIOUS
    <3>1. link[g[i]] = IF i + 1 = n THEN Null ELSE f[(i + 1) + 1]
      BY <1>1, <1>4 DEF FreeListIs
    <3>2. CASE i = m
      BY <3>1, <3>2
    <3>3. CASE i # m
      <4>1. i + 1 \in 1 .. m
        BY <3>3, <1>4
      <4> QED BY <3>1, <3>3, <4>1, <1>4
    <3> QED BY <3>2, <3>3
  <2> QED BY <2>1, <2>2, <2>3, <2>4, <2>5 DEF FreeListIs
<1> HIDE DEF m, g
<1>6. \E h : FreeListIs(m, h, link, link[first], free \ {first})
  BY <1>5
<1> QED BY <1>2, <1>3, <1>4, <1>6 DEF FreeList

(***************************************************************************)
(* Linking a chunk in front of a free list.                                *)
(***************************************************************************)
LEMMA PushFirst ==
    ASSUME NEW link \in [Chunk -> Chunk \cup {Null}], NEW first, NEW free,
           FreeList(link, first, free), NEW chunk \in Chunk, chunk \notin free
    PROVE  FreeList([link EXCEPT ![chunk] = first], chunk, free \cup {chunk})
<1>0. PICK n \in Nat : \E f : FreeListIs(n, f, link, first, free)
  BY DEF FreeList
<1>1. PICK f : FreeListIs(n, f, link, first, free)
  BY <1>0
<1> DEFINE m == n + 1
           g == [i \in 1 .. m |-> IF i = 1 THEN chunk ELSE f[i - 1]]
           newLink == [link EXCEPT ![chunk] = first]
<1>2. /\ m \in Nat /\ m # 0 /\ 1 \in 1 .. m
      /\ g[1] = chunk
      /\ \A i \in 1 .. m : i # 1 => i - 1 \in 1 .. n /\ g[i] = f[i - 1]
      /\ \A i \in 1 .. n : i + 1 \in 1 .. m /\ i + 1 # 1 /\ g[i + 1] = f[i]
  OBVIOUS
<1>3. \A i \in 1 .. n : f[i] \in Chunk /\ f[i] # chunk
  BY <1>1 DEF FreeListIs
<1>4. FreeListIs(m, g, newLink, chunk, free \cup {chunk})
  <2>1. g \in [1 .. m -> Chunk]
    BY <1>2, <1>3
  <2>2. \A i, j \in 1 .. m : g[i] = g[j] => i = j
    <3> SUFFICES ASSUME NEW i \in 1 .. m, NEW j \in 1 .. m, g[i] = g[j]
                 PROVE  i = j
      OBVIOUS
    <3>1. CASE i = 1 \/ j = 1
      BY <3>1, <1>2, <1>3
    <3>2. CASE i # 1 /\ j # 1
      <4>1. f[i - 1] = f[j - 1] /\ i - 1 \in 1 .. n /\ j - 1 \in 1 .. n
        BY <3>2, <1>2
      <4>2. i - 1 = j - 1
        BY <4>1, <1>1 DEF FreeListIs
      <4> QED BY <4>2
    <3> QED BY <3>1, <3>2
  <2>3. \A c : c \in free \cup {chunk} <=> \E i \in 1 .. m : g[i] = c
    <3> SUFFICES ASSUME NEW c
                 PROVE  c \in free \cup {chunk} <=> \E i \in 1 .. m : g[i] = c
      OBVIOUS
    <3>1. ASSUME c \in free PROVE \E i \in 1 .. m : g[i] = c
      <4>1. PICK i \in 1 .. n : f[i] = c
        BY <3>1, <1>1 DEF FreeListIs
      <4> QED BY <4>1, <1>2
    <3>2. ASSUME NEW i \in 1 .. m, g[i] = c PROVE c \in free \cup {chunk}
      <4>1. CASE i = 1
        BY <4>1, <3>2, <1>2
      <4>2. CASE i # 1
        BY <4>2, <3>2, <1>1, <1>2 DEF FreeListIs
      <4> QED BY <4>1, <4>2
    <3> HIDE DEF g, m
    <3> QED BY <3>1, <3>2, <1>2
  <2>4. chunk = IF m = 0 THEN Null ELSE g[1]
    BY <1>2
  <2>5. \A i \in 1 .. m : newLink[g[i]] = IF i = m THEN Null ELSE g[i + 1]
    <3> SUFFICES ASSUME NEW i \in 1 .. m
                 PROVE  newLink[g[i]] = IF i = m THEN Null ELSE g[i + 1]
      OBVIOUS
    <3>1. CASE i = 1
      <4>1. newLink[g[i]] = first
        BY <3>1, <1>2
      <4>2. first = IF n = 0 THEN Null ELSE f[1]
        BY <1>1 DEF FreeListIs
      <4>3. CASE n = 0
        BY <4>1, <4>2, <4>3, <3>1
      <4>4. CASE n # 0
        <5>1. 1 \in 1 .. n /\ i # m
          BY <4>4, <3>1
        <5>2. g[1 + 1] = f[1]
          BY <5>1, <1>2
        <5> QED BY <5>1, <5>2, <4>1, <4>2, <4>4, <3>1
      <4> QED BY <4>3, <4>4
    <3>2. CASE i # 1
      <4>1. i - 1 \in 1 .. n /\ g[i] = f[i - 1] /\ (i - 1) + 1 = i
        BY <3>2, <1>2
      <4>2. newLink[g[i]] = link[f[i - 1]]
        BY <4>1, <1>3
      <4>3. link[f[i - 1]] = IF i - 1 = n THEN Null ELSE f[(i - 1) + 1]
        BY <4>1, <1>1 DEF FreeListIs
      <4>4. CASE i = m
        BY <4>2, <4>3, <4>4
      <4>5. CASE i # m
        <5>1. i \in 1 .. n
          BY <4>5, <4>1
        <5>2. g[i + 1] = f[i]
          BY <5>1, <1>2
        <5> QED BY <5>2, <4>1, <4>2, <4>3, <4>5
      <4> QED BY <4>4, <4>5
    <3> QED BY <3>1, <3>2
  <2> QED BY <2>1, <2>2, <2>3, <2>4, <2>5 DEF FreeListIs
<1> HIDE DEF m, g, newLink
<1>5. FreeList(newLink, chunk, free \cup {chunk})
  BY <1>2, <1>4 DEF FreeList
<1> QED BY <1>5 DEF newLink

(***************************************************************************)
(* A fresh block is the free list of its own chunks.                       *)
(***************************************************************************)
LEMMA FreshBlock ==
    ASSUME TypeOK, blocks < MaxBlocks
    PROVE  /\ Chained \in [Chunk -> Chunk \cup {Null}]
           /\ BlockBegin \in Chunk
           /\ BlockBegin .. BlockEnd = (1 .. (blocks + 1) * ChunksPerBlock) \ Provided
           /\ \A c \in Chunk \ (BlockBegin .. BlockEnd) : Chained[c] = next[c]
           /\ FreeList(Chained, BlockBegin, BlockBegin .. BlockEnd)
<1> DEFINE base == blocks * ChunksPerBlock
           f == [i \in 1 .. ChunksPerBlock |-> base + i]
<1>1. /\ base \in Nat
      /\ ChunksPerBlock \in Nat \ {0}
      /\ MaxBlocks * ChunksPerBlock \in Nat
      /\ (blocks + 1) * ChunksPerBlock = base + ChunksPerBlock
      /\ base + ChunksPerBlock <= MaxBlocks * ChunksPerBlock
  BY BlockBounds, PoolAssumption DEF TypeOK
<1> HIDE DEF base
<1>2. BlockBegin = base + 1 /\ BlockEnd = base + ChunksPerBlock
  BY DEF BlockBegin, BlockEnd, base
<1>3. Provided = 1 .. base
  BY DEF Provided, base
<1>4. \A c : c \in BlockBegin .. BlockEnd => c \in Chunk /\ c # Null
  BY <1>1, <1>2 DEF Chunk, Null
<1>5. BlockBegin \in BlockBegin .. BlockEnd
  BY <1>1, <1>2
<1>6. Chained \in [Chunk -> Chunk \cup {Null}]
  <2> SUFFICES ASSUME NEW c \in Chunk PROVE Chained[c] \in Chunk \cup {Null}
    BY DEF Chained
  <2>1. CASE c \in BlockBegin .. BlockEnd - 1
    <3>1. c + 1 \in BlockBegin .. BlockEnd
      BY <2>1, <1>1, <1>2
    <3> QED BY <2>1, <3>1, <1>4 DEF Chained
  <2>2. CASE c \notin BlockBegin .. BlockEnd - 1
    BY <2>2 DEF Chained, TypeOK
  <2> QED BY <2>1, <2>2
<1>7. BlockBegin .. BlockEnd = (1 .. (blocks + 1) * ChunksPerBlock) \ Provided
  BY <1>1, <1>2, <1>3
<1>8. \A c \in Chunk \ (BlockBegin .. BlockEnd) : Chained[c] = next[c]
  <2>1. \A c : c \notin BlockBegin .. BlockEnd =>
               c \notin BlockBegin .. BlockEnd - 1 /\ c # BlockEnd
    BY <1>1, <1>2
  <2> QED BY <2>1 DEF Chained
<1>9. FreeListIs(ChunksPerBlock, f, Chained, BlockBegin, BlockBegin .. BlockEnd)
  <2>1. \A i \in 1 .. ChunksPerBlock :
            f[i] = base + i /\ f[i] \in BlockBegin .. BlockEnd
    BY <1>1, <1>2
  <2>2. f \in [1 .. ChunksPerBlock -> Chunk]
    BY <2>1, <1>4
  <2>3. \A i, j \in 1 .. ChunksPerBlock : f[i] = f[j] => i = j
    BY <2>1, <1>1
  <2>4. \A c : c \in BlockBegin .. BlockEnd <=> \E i \in 1 .. ChunksPerBlock : f[i] = c
    <3> SUFFICES ASSUME NEW c \in BlockBegin .. BlockEnd
                 PROVE  \E i \in 1 .. ChunksPerBlock : f[i] = c
      BY <2>1
    <3>1. c - base \in 1 .. ChunksPerBlock /\ base + (c - base) = c
      BY <1>1, <1>2
    <3> QED BY <3>1, <2>1
  <2>5. BlockBegin = IF ChunksPerBlock = 0 THEN Null ELSE f[1]
    BY <1>1, <1>2
  <2>6. \A i \in 1 .. ChunksPerBlock :
            Chained[f[i]] = IF i = ChunksPerBlock THEN Null ELSE f[i + 1]
    <3> SUFFICES ASSUME NEW i \in 1 .. ChunksPerBlock
                 PROVE  Chained[f[i]] = IF i = ChunksPerBlock THEN Null ELSE f[i + 1]
      OBVIOUS
    <3>1. CASE i = ChunksPerBlock
      <4>1. f[i] = BlockEnd /\ f[i] \notin BlockBegin .. BlockEnd - 1 /\ f[i] \in Chunk
        BY <3>1, <2>1, <1>1, <1>2, <1>4
      <4> QED BY <3>1, <4>1 DEF Chained
    <3>2. CASE i # ChunksPerBlock
      <4>1. f[i] \in BlockBegin .. BlockEnd - 1 /\ f[i] \in Chunk
        BY <3>2, <2>1, <1>1, <1>2, <1>4
      <4>2. f[i + 1] = f[i] + 1
        BY <3>2, <1>1, <2>1
      <4> QED BY <3>2, <4>1, <4>2 DEF Chained
    <3> QED BY <3>1, <3>2
  <2> QED BY <2>2, <2>3, <2>4, <2>5, <2>6 DEF FreeListIs
<1> HIDE DEF f
<1>10. FreeList(Chained, BlockBegin, BlockBegin .. BlockEnd)
  BY <1>1, <1>9 DEF FreeList
<1> QED BY <1>4, <1>5, <1>6, <1>7, <1>8, <1>10

(***************************************************************************)
(* Links of other chunks do not concern a free list.                       *)
(***************************************************************************)
LEMMA OtherLinks ==
    ASSUME NEW link, NEW newLink, NEW first, NEW free,
           FreeList(link, first, free), \A c \in free : newLink[c] = link[c]
    PROVE  FreeList(newLink, first, free)
<1>0. PICK n \in Nat : \E f : FreeListIs(n, f, link, first, free)
  BY DEF FreeList
<1>1. PICK f : FreeListIs(n, f, link, first, free)
  BY <1>0
<1>2. \A i \in 1 .. n : f[i] \in free
  BY <1>1 DEF FreeListIs
<1>3. FreeListIs(n, f, newLink, first, free)
  BY <1>1, <1>2 DEF FreeListIs
<1> QED BY <1>3 DEF FreeList

LEMMA EmptyList ==
    ASSUME NEW f, FreeListIs(0, f, next, alloc, Provided \ live),
           live \subseteq Provided
    PROVE  live = Provided
<1>1. \A c : c \notin Provided \ live
  BY DEF FreeListIs
<1> QED BY <1>1

-----------------------------------------------------------------------------
LEMMA InitInv == Init => Inv
<1> SUFFICES ASSUME Init PROVE Inv
  OBVIOUS
<1>1. TypeOK
  BY PoolAssumption DEF Init, TypeOK, Null
<1>2. Provided = {} /\ live = {} /\ holders \in [Chunk -> {0, 1}]
  BY PoolAssumption DEF Init, Provided, live
<1>3. FreeList(next, alloc, {})
  <2> DEFINE f == [i \in 1 .. 0 |-> Null]
  <2>1. FreeListIs(0, f, next, alloc, {})
    BY DEF FreeListIs, Init
  <2> HIDE DEF f
  <2> QED BY <2>1 DEF FreeList
<1> QED BY <1>1, <1>2, <1>3 DEF Inv

(***************************************************************************)
(* What an allocation takes, and from which list.                          *)
(***************************************************************************)
LEMMA AllocateStep ==
    ASSUME Inv, Allocate
    PROVE  \E chunk \in Chunk \ live :
              /\ next' \in [Chunk -> Chunk \cup {Null}]
              /\ \A c \in live : next'[c] = next[c]
              /\ holders[chunk] = 0 /\ holders' = [holders EXCEPT ![chunk] = 1]
              /\ holders' \in [Chunk -> {0, 1}]
              /\ live' = live \cup {chunk}
              /\ chunk \in Provided'
              /\ Provided \subseteq Provided'
              /\ blocks' \in 0 .. MaxBlocks
              /\ alloc' \in Chunk \cup {Null}
              /\ FreeList(next', alloc', Provided' \ live')
<1> USE DEF Inv
<1>1. CASE Exhausted
  <2>1. /\ blocks < MaxBlocks
        /\ next' = Chained
        /\ alloc' = Chained[BlockBegin]
        /\ blocks' = blocks + 1
        /\ holders' = [holders EXCEPT ![BlockBegin] = @ + 1]
    BY <1>1 DEF Allocate, After
  <2>2. Provided' = 1 .. (blocks + 1) * ChunksPerBlock
    BY <2>1 DEF Provided
  <2>3. PICK n \in Nat : \E f : FreeListIs(n, f, next, alloc, Provided \ live)
    BY DEF FreeList
  <2>4. PICK f : FreeListIs(n, f, next, alloc, Provided \ live)
    BY <2>3
  <2>5. n = 0
    <3>1. CASE n # 0
      <4>1. f[1] \in Chunk /\ f[1] = alloc
        BY <3>1, <2>4 DEF FreeListIs
      <4>2. Null \notin Chunk
        BY DEF Null, Chunk
      <4> QED BY <4>1, <4>2, <1>1 DEF Exhausted
    <3> QED BY <3>1
  <2>6. live = Provided
    BY <2>4, <2>5, EmptyList
  <2>7. BlockBegin .. BlockEnd = Provided' \ Provided /\ BlockBegin \in Chunk
    BY <2>1, <2>2, FreshBlock
  <2>8. FreeList(Chained, BlockBegin, Provided' \ Provided)
    BY <2>1, <2>7, FreshBlock
  <2>9. BlockBegin # Null
    BY <2>7 DEF Chunk, Null
  <2>10. /\ BlockBegin \in Provided' \ Provided
         /\ FreeList(Chained, Chained[BlockBegin], (Provided' \ Provided) \ {BlockBegin})
    BY <2>1, <2>8, <2>9, FreshBlock, PopFirst
  <2>11. BlockBegin \in Chunk \ live /\ BlockBegin \in Provided'
    BY <2>6, <2>7, <2>10
  <2>12. /\ holders[BlockBegin] = 0 /\ holders' = [holders EXCEPT ![BlockBegin] = 1]
         /\ holders' \in [Chunk -> {0, 1}]
         /\ live' = live \cup {BlockBegin}
    BY <2>1, <2>11, Taken
  <2>13. (Provided' \ Provided) \ {BlockBegin} = Provided' \ live'
    BY <2>6, <2>12
  <2>14. Provided \subseteq Provided'
    <3>1. /\ blocks * ChunksPerBlock \in Nat
          /\ (blocks + 1) * ChunksPerBlock = blocks * ChunksPerBlock + ChunksPerBlock
      BY BlockBounds DEF TypeOK
    <3>2. Provided = 1 .. blocks * ChunksPerBlock
      BY DEF Provided
    <3> QED BY <2>2, <3>1, <3>2, PoolAssumption
  <2>15. \A c \in live : c \in Chunk \ (BlockBegin .. BlockEnd)
    BY <2>6, <2>7 DEF live
  <2>16. \A c \in live : next'[c] = next[c]
    BY <2>1, <2>15, FreshBlock
  <2>17. blocks' \in 0 .. MaxBlocks
    BY <2>1, PoolAssumption DEF TypeOK
  <2>18. next' \in [Chunk -> Chunk \cup {Null}] /\ alloc' \in Chunk \cup {Null}
    BY <2>1, <2>7, FreshBlock
  <2>19. FreeList(next', alloc', Provided' \ live')
    BY <2>1, <2>10, <2>13
  <2> QED BY <2>11, <2>12, <2>14, <2>16, <2>17, <2>18, <2>19
<1>2. CASE ~Exhausted
  <2>1. /\ next' = next
        /\ alloc' = next[alloc]
        /\ blocks' = blocks
        /\ holders' = [holders EXCEPT ![alloc] = @ + 1]
    BY <1>2 DEF Allocate, After
  <2>2. alloc # Null
    BY <1>2 DEF Exhausted
  <2>3. Provided' = Provided
    BY <2>1 DEF Provided
  <2>4. next \in [Chunk -> Chunk \cup {Null}]
    BY DEF TypeOK
  <2>5. /\ alloc \in Provided \ live
        /\ alloc \in Chunk
        /\ FreeList(next, next[alloc], (Provided \ live) \ {alloc})
    BY <2>2, <2>4, PopFirst
  <2>6. /\ holders[alloc] = 0 /\ holders' = [holders EXCEPT ![alloc] = 1]
        /\ holders' \in [Chunk -> {0, 1}]
        /\ live' = live \cup {alloc}
    BY <2>1, <2>5, Taken
  <2>7. (Provided \ live) \ {alloc} = Provided' \ live'
    BY <2>3, <2>6
  <2>8. next[alloc] \in Chunk \cup {Null}
    BY <2>4, <2>5
  <2> QED BY <2>1, <2>3, <2>4, <2>5, <2>6, <2>7, <2>8 DEF TypeOK
<1> QED BY <1>1, <1>2

LEMMA DeallocateStep ==
    ASSUME Inv, NEW chunk \in live, Deallocate(chunk)
    PROVE  Inv'
<1> USE DEF Inv
<1>1. /\ next' = [next EXCEPT ![chunk] = alloc]
      /\ alloc' = chunk
      /\ blocks' = blocks
  BY DEF Deallocate, Link
<1>2. holders' \in [Chunk -> {0, 1}] /\ live' = live \ {chunk}
  BY Returned DEF Deallocate
<1>3. chunk \in Chunk /\ chunk \in Provided /\ chunk \notin Provided \ live
  BY DEF live
<1>4. Provided' = Provided
  BY <1>1 DEF Provided
<1>5. FreeList(next', chunk, (Provided \ live) \cup {chunk})
  BY <1>1, <1>3, PushFirst DEF TypeOK
<1>6. (Provided \ live) \cup {chunk} = Provided' \ live'
  BY <1>3, <1>4, <1>2
<1>7. TypeOK'
  BY <1>1, <1>3, <1>2, CountsAreNumbers DEF TypeOK, Chunk
<1> QED BY <1>1, <1>4, <1>5, <1>6, <1>7, <1>2

LEMMA UseStep ==
    ASSUME Inv, NEW chunk \in live, Use(chunk)
    PROVE  Inv'
<1> USE DEF Inv
<1>1. PICK v \in Chunk \cup {Null} : next' = [next EXCEPT ![chunk] = v]
  BY DEF Use
<1>2. /\ alloc' = alloc /\ blocks' = blocks /\ holders' = holders
      /\ live' = live /\ Provided' = Provided
  BY Kept DEF Use, Provided
<1>3. \A c \in Provided \ live : next'[c] = next[c]
  <2> SUFFICES ASSUME NEW c \in Provided \ live PROVE next'[c] = next[c]
    OBVIOUS
  <2>1. c # chunk
    OBVIOUS
  <2>2. c \in Chunk
    BY BlockBounds DEF Provided, Chunk, TypeOK
  <2> QED BY <1>1, <2>1, <2>2 DEF TypeOK
<1>4. FreeList(next', alloc', Provided' \ live')
  BY <1>2, <1>3, OtherLinks
<1>5. TypeOK'
  BY <1>1, <1>2 DEF TypeOK, Chunk
<1> QED BY <1>2, <1>4, <1>5

LEMMA StepInv == Inv /\ [Next]_vars => Inv'
<1> SUFFICES ASSUME Inv, [Next]_vars PROVE Inv'
  OBVIOUS
<1>1. CASE Allocate
  <2>1. PICK chunk \in Chunk \ live :
              /\ next' \in [Chunk -> Chunk \cup {Null}]
              /\ holders' \in [Chunk -> {0, 1}]
              /\ live' = live \cup {chunk}
              /\ chunk \in Provided'
              /\ Provided \subseteq Provided'
              /\ blocks' \in 0 .. MaxBlocks
              /\ alloc' \in Chunk \cup {Null}
              /\ FreeList(next', alloc', Provided' \ live')
    BY <1>1, AllocateStep
  <2>2. TypeOK'
    BY <2>1, CountsAreNumbers DEF TypeOK, Inv, Chunk
  <2> QED BY <2>1, <2>2 DEF Inv
<1>2. CASE \E chunk \in live : Deallocate(chunk)
  BY <1>2, DeallocateStep
<1>3. CASE \E chunk \in live : Use(chunk)
  BY <1>3, UseStep
<1>4. CASE UNCHANGED vars
  <2>1. /\ next' = next /\ alloc' = alloc /\ blocks' = blocks /\ holders' = holders
        /\ live' = live
    BY <1>4, Kept DEF vars
  <2>2. Provided' = Provided
    BY <2>1 DEF Provided
  <2>3. TypeOK'
    BY <2>1 DEF Inv, TypeOK, Chunk
  <2> QED BY <2>1, <2>2, <2>3 DEF Inv
<1> QED BY <1>1, <1>2, <1>3, <1>4 DEF Next

LEMMA AlwaysInv == Spec => []Inv
<1> QED BY InitInv, StepInv, PTL DEF Spec

(***************************************************************************)
(* Every variable keeps to its type: links and the list head lead to       *)
(* chunks or end the list (PoolAllocator.h:36, 46, 93).                    *)
(***************************************************************************)
THEOREM PoolTypes == Spec => []TypeOK
<1>1. Inv => TypeOK
  BY DEF Inv
<1> QED BY <1>1, AlwaysInv, PTL

-----------------------------------------------------------------------------
LEMMA InitMaps == Init => Objects!Init
<1> SUFFICES ASSUME Init PROVE Objects!Init
  OBVIOUS
<1>1. live = {}
  BY DEF Init, live
<1>2. [c \in live |-> next[c]] = [o \in {} |-> o]
  BY <1>1
<1> QED BY <1>2 DEF Init, Objects!Init

LEMMA StepMaps == Inv /\ [Next]_vars => [Objects!Next]_(Objects!poolVars)
<1> SUFFICES ASSUME Inv, [Next]_vars
             PROVE  Objects!Next \/ UNCHANGED Objects!poolVars
  OBVIOUS
<1>1. /\ next \in [Chunk -> Chunk \cup {Null}]
      /\ holders \in [Chunk -> {0, 1}] /\ live \subseteq Chunk
  BY DEF Inv, TypeOK, live
<1>2. Objects!live = live
  BY DEF Objects!live, live
<1>3. CASE Allocate
  <2>1. PICK chunk \in Chunk \ live :
              /\ next' \in [Chunk -> Chunk \cup {Null}]
              /\ \A c \in live : next'[c] = next[c]
              /\ holders[chunk] = 0 /\ holders' = [holders EXCEPT ![chunk] = 1]
              /\ live' = live \cup {chunk}
    BY <1>3, AllocateStep
  <2>2. next'[chunk] \in Chunk \cup {Null}
    BY <2>1
  <2>3. [c \in live' |-> next'[c]]
          = [p \in live \cup {chunk} |->
                IF p = chunk THEN next'[chunk] ELSE [c \in live |-> next[c]][p]]
    BY <2>1
  <2>4. Objects!New
    BY <1>2, <2>1, <2>2, <2>3 DEF Objects!New
  <2> QED BY <2>4 DEF Objects!Next
<1>4. ASSUME NEW chunk \in live, Deallocate(chunk) PROVE Objects!Next
  <2>0. /\ holders[chunk] = 1 /\ holders' = [holders EXCEPT ![chunk] = 0]
        /\ live' = live \ {chunk}
    BY <1>1, <1>4, Returned DEF Deallocate
  <2>1. live' = live \ {chunk} /\ next' = [next EXCEPT ![chunk] = alloc]
    BY <1>4, <2>0 DEF Deallocate, Link
  <2>2. \A c \in live \ {chunk} : next'[c] = next[c]
    BY <2>1, <1>1
  <2>3. [c \in live' |-> next'[c]]
          = [p \in live \ {chunk} |-> [c \in live |-> next[c]][p]]
    BY <2>1, <2>2
  <2>4. Objects!Delete
    BY <1>1, <1>2, <2>0, <2>3 DEF Objects!Delete
  <2> QED BY <2>4 DEF Objects!Next
<1>5. ASSUME NEW chunk \in live, Use(chunk) PROVE Objects!Next
  <2>1. PICK v \in Chunk \cup {Null} : next' = [next EXCEPT ![chunk] = v]
    BY <1>5 DEF Use
  <2>2. holders' = holders /\ live' = live
    BY <1>5, Kept DEF Use
  <2>3. [c \in live' |-> next'[c]] = [[c \in live |-> next[c]] EXCEPT ![chunk] = v]
    BY <2>1, <2>2, <1>1
  <2>4. Objects!Use
    BY <1>2, <2>1, <2>2, <2>3 DEF Objects!Use
  <2> QED BY <2>4 DEF Objects!Next
<1>6. CASE UNCHANGED vars
  BY <1>6, Kept DEF vars, Objects!poolVars
<1> QED BY <1>3, <1>4, <1>5, <1>6 DEF Next

(***************************************************************************)
(* The allocator behind Instruction's operator new and delete hands out    *)
(* only chunks nobody holds, so that no two live objects share storage,    *)
(* and writes only into chunks nobody holds, whatever its client keeps in  *)
(* the ones it does hold.                                                  *)
(***************************************************************************)
THEOREM PoolRefinesObjects == Spec => PoolImplementsObjects
<1>1. Spec => Objects!Init
  BY InitMaps, PTL DEF Spec
<1>2. Spec => [][Objects!Next]_(Objects!poolVars)
  BY StepMaps, AlwaysInv, PTL DEF Spec
<1> QED BY <1>1, <1>2, PTL DEF PoolImplementsObjects, Objects!Spec

(***************************************************************************)
(* malloc is called only when no chunk is free: deallocated chunks are all *)
(* found again.                                                            *)
(***************************************************************************)
THEOREM PoolGrowsOnlyWhenFull == Spec => GrowsOnlyWhenFull
<1>1. ASSUME Inv, [Next]_vars, blocks' # blocks PROVE live = Provided
  <2>1. Allocate /\ Exhausted
    BY <1>1 DEF Next, Allocate, Deallocate, Use, vars
  <2>0. PICK n \in Nat : \E f : FreeListIs(n, f, next, alloc, Provided \ live)
    BY <1>1 DEF Inv, FreeList
  <2>2. PICK f : FreeListIs(n, f, next, alloc, Provided \ live)
    BY <2>0
  <2>3. n = 0
    <3>1. CASE n # 0
      <4>1. f[1] \in Chunk /\ f[1] = alloc
        BY <3>1, <2>2 DEF FreeListIs
      <4> QED BY <4>1, <2>1 DEF Exhausted, Null, Chunk
    <3> QED BY <3>1
  <2> QED BY <1>1, <2>2, <2>3, EmptyList DEF Inv
<1>2. Inv /\ [Next]_vars => [blocks' # blocks => live = Provided]_vars
  BY <1>1
<1> QED BY <1>2, AlwaysInv, PTL DEF Spec, GrowsOnlyWhenFull

=============================================================================
