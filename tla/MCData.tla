------------------------------- MODULE MCData -------------------------------
(***************************************************************************)
(* The data side under pressure: three data lines of one word compete for  *)
(* the two blocks of a single row, so that hits, clean and dirty           *)
(* evictions and refills of evicted lines all happen; two instructions,    *)
(* in a row of their own, keep the code port busy in between.              *)
(***************************************************************************)
EXTENDS CpuInvariant

Words == {"zero", "one", "dead"}

\* Lines 1 and 2 hold the code, lines 3 to 5 the data.
MCImage == [l \in 0 .. 5 |-> [o \in 0 .. 0 |-> IF l \in {1, 4} THEN "one" ELSE "zero"]]

ASSUME ProgramPlacement

=============================================================================
