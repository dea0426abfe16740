------------------------------ MODULE MCCycles ------------------------------
(***************************************************************************)
(* The latencies of the code and enough instructions to fill the one block *)
(* of each cache, make it dirty and evict it.                              *)
(***************************************************************************)
EXTENDS CpuInvariant

CONSTANT MaxInstr    \* bound on the instructions executed

Words == {"zero", "one", "dead"}

\* Lines 1 to 3 hold the code, lines 4 to 6 the data.
MCImage == [l \in 0 .. 6 |-> [o \in 0 .. 0 |-> "zero"]]

ASSUME ProgramPlacement

FewInstructions == numInstr <= MaxInstr

=============================================================================
