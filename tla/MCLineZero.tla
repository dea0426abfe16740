----------------------------- MODULE MCLineZero -----------------------------
(***************************************************************************)
(* A program with code in line 0, the line whose address marks an empty    *)
(* cell: the unit tests fetch from there, the linked programs do not.      *)
(***************************************************************************)
EXTENDS CpuProperties

Words == {"zero", "one", "dead"}

\* Lines 0 and 1 hold the code, line 2 the data.
MCImage == [l \in 0 .. 2 |-> [o \in 0 .. 0 |-> "one"]]

=============================================================================
