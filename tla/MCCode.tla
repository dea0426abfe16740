------------------------------- MODULE MCCode -------------------------------
(***************************************************************************)
(* The code side under pressure: four code lines of one word compete for   *)
(* the three blocks of a single row, with jumps from anywhere to anywhere  *)
(* (to the same instruction too), and one data line that is loaded and     *)
(* stored in between.                                                      *)
(***************************************************************************)
EXTENDS CpuInvariant

Words == {"zero", "one", "dead"}

\* Lines 1 to 4 hold the code, line 5 the data.
MCImage == [l \in 0 .. 5 |->
              [o \in 0 .. 0 |-> IF l \in {1, 4} THEN "one"
                                ELSE IF l = 3 THEN "dead" ELSE "zero"]]

ASSUME ProgramPlacement

=============================================================================
