------------------------------ MODULE MCShared ------------------------------
(***************************************************************************)
(* A program whose last instructions and first variables share a line, as  *)
(* the linker script of the benchmarks allows.                             *)
(***************************************************************************)
EXTENDS CpuProperties

Words == {"zero", "one", "dead"}

\* Line 1 and the first two words of line 2 hold the code, the third word of
\* line 2 and line 3 the data.
MCImage == [l \in 0 .. 3 |-> [o \in 0 .. 2 |-> "zero"]]

=============================================================================
