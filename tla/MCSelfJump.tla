----------------------------- MODULE MCSelfJump -----------------------------
(***************************************************************************)
(* A program that ends, as the shipped ones do, in a jump to itself.       *)
(***************************************************************************)
EXTENDS CpuInvariant

Words == {"zero", "one", "dead"}

\* Lines 1 and 2 hold the code, line 3 the data.
MCImage == [l \in 0 .. 3 |-> [o \in 0 .. 0 |-> "one"]]

=============================================================================
