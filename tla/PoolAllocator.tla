--------------------------- MODULE PoolAllocator ---------------------------
(***************************************************************************)
(* class PoolAllocator (src/src/PoolAllocator.h), from which Instruction   *)
(* objects come: a list of free chunks threaded through the chunks         *)
(* themselves, refilled by a block of ChunksPerBlock chunks when it is     *)
(* empty.  Memory is never returned to malloc.                             *)
(*                                                                         *)
(* The pointer to the next free chunk is the first field of a free chunk;  *)
(* the owner of a live chunk writes its own data there.  So next[c] is a   *)
(* link if c is free and anything at all if it is live.  A history         *)
(* variable counts how often the client has been given a chunk and has not *)
(* given it back: nothing in the code keeps such a count.                  *)
(***************************************************************************)
EXTENDS Integers

CONSTANTS
    ChunksPerBlock,   \* _chunksPerBlock (8: maxInstructionInFlight)
    MaxBlocks         \* bound: the blocks malloc can provide

ASSUME PoolAssumption ==
    /\ ChunksPerBlock \in Nat \ {0}
    /\ MaxBlocks \in Nat \ {0}

\* nullptr; chunks are numbered from 1 in the order malloc hands them out.
Null  == 0
Chunk == 1 .. MaxBlocks * ChunksPerBlock

VARIABLES
    next,     \* Chunk::next, the first word of every chunk
    alloc,    \* _alloc: the first free chunk
    blocks,   \* blocks obtained from malloc so far
    holders   \* history: how often the client holds each chunk

vars == <<next, alloc, blocks, holders>>

TypeOK ==
    /\ next \in [Chunk -> Chunk \cup {Null}]
    /\ alloc \in Chunk \cup {Null}
    /\ blocks \in 0 .. MaxBlocks
    /\ holders \in [Chunk -> Nat]

Init ==
    /\ next = [c \in Chunk |-> Null]
    /\ alloc = Null
    /\ blocks = 0
    /\ holders = [c \in Chunk |-> 0]

-----------------------------------------------------------------------------
Provided == 1 .. blocks * ChunksPerBlock

\* The chunks the client has and has not given back.
live == {c \in Chunk : holders[c] > 0}

(***************************************************************************)
(* allocateBlock: chain the chunks of a fresh block.                       *)
(***************************************************************************)
BlockBegin == blocks * ChunksPerBlock + 1
BlockEnd   == blocks * ChunksPerBlock + ChunksPerBlock

\* Fault: the last chunk is linked like the others.
ChainedOn == [c \in Chunk |-> IF c \in BlockBegin .. BlockEnd THEN c + 1 ELSE next[c]]

Chained == [c \in Chunk |-> IF c \in BlockBegin .. BlockEnd - 1 THEN c + 1
                            ELSE IF c = BlockEnd THEN Null
                            ELSE next[c]]

\* Fault: the last free chunk counts as none.
ExhaustedEarly == alloc = Null \/ next[alloc] = Null

Exhausted == alloc = Null

(***************************************************************************)
(* allocate: take the first free chunk, of a new block if there is none.   *)
(***************************************************************************)
\* Fault: the chunk handed out stays the first of the list.
AfterItself(chain, chunk) == chunk

\* `_alloc = _alloc->next`, once the chunk at _alloc has been taken.
After(chain, chunk) == chain[chunk]

Allocate ==
    /\ Exhausted => blocks < MaxBlocks
    /\ LET chain == IF Exhausted THEN Chained ELSE next
           chunk == IF Exhausted THEN BlockBegin ELSE alloc
       IN  /\ next' = chain
           /\ alloc' = After(chain, chunk)
           /\ blocks' = IF Exhausted THEN blocks + 1 ELSE blocks
           /\ holders' = [holders EXCEPT ![chunk] = @ + 1]

(***************************************************************************)
(* deallocate: the chunk given back becomes the first of the list.         *)
(***************************************************************************)
Link(chunk) == [next EXCEPT ![chunk] = alloc]

Deallocate(chunk) ==
    /\ next' = Link(chunk)
    /\ alloc' = chunk
    /\ holders' = [holders EXCEPT ![chunk] = @ - 1]
    /\ UNCHANGED blocks

(***************************************************************************)
(* The client keeps anything it likes in a chunk it holds.                 *)
(***************************************************************************)
Use(chunk) ==
    /\ \E v \in Chunk \cup {Null} : next' = [next EXCEPT ![chunk] = v]
    /\ UNCHANGED <<alloc, blocks, holders>>

Next ==
    \/ Allocate
    \/ \E chunk \in live : Deallocate(chunk) \/ Use(chunk)

Spec == Init /\ [][Next]_vars

-----------------------------------------------------------------------------
(***************************************************************************)
(* The allocator is an object pool.  A chunk it hands out is held by       *)
(* nobody: it becomes held once, never twice, whatever the owners of other *)
(* chunks have written over the links.  And the links it writes itself     *)
(* never land in somebody's object.                                        *)
(***************************************************************************)
Objects ==
    INSTANCE ObjectPool WITH
        Object   <- Chunk,
        Value    <- Chunk \cup {Null},
        contents <- [c \in live |-> next[c]]

PoolImplementsObjects == Objects!Spec

(***************************************************************************)
(* A block is asked for only when every chunk of the earlier ones is held: *)
(* no free chunk is ever lost from the list.  With at most two             *)
(* instructions in the processor, one block of eight serves for good.      *)
(***************************************************************************)
GrowsOnlyWhenFull == [][blocks' # blocks => live = Provided]_vars

=============================================================================
