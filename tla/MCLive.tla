------------------------------- MODULE MCLive -------------------------------
(***************************************************************************)
(* Progress, with four different latencies, code lines that evict each     *)
(* other and loops of a single instruction.                                *)
(***************************************************************************)
EXTENDS CpuInvariant

Words == {"zero", "one", "dead"}

\* Lines 1 to 3 hold the code, lines 4 to 6 the data.
MCImage == [l \in 0 .. 6 |-> [o \in 0 .. 0 |-> "zero"]]

ASSUME ProgramPlacement

=============================================================================
