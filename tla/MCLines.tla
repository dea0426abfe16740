------------------------------ MODULE MCLines ------------------------------
(***************************************************************************)
(* Lines of two words and caches of two rows: accesses to different words  *)
(* of one line, lines of different rows, and a load from the program text  *)
(* (a constant), while three data lines compete for the blocks of row 0.   *)
(***************************************************************************)
EXTENDS CpuInvariant

Words == {"zero", "one", "dead"}

\* Lines 1 and 2 hold the code, lines 4, 6 and 8 the data.
MCImage == [l \in 0 .. 8 |->
              [o \in 0 .. 1 |-> IF l = 1 \/ o = 1 THEN "one"
                                ELSE IF l = 2 THEN "dead" ELSE "zero"]]

ASSUME ProgramPlacement

=============================================================================
