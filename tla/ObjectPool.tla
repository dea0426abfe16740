----------------------------- MODULE ObjectPool -----------------------------
(***************************************************************************)
(* What operator new and operator delete promise their client: a new       *)
(* object shares its storage with no live one, and nobody but the client   *)
(* ever changes the contents of a live object.  The objects the client     *)
(* holds are counted: handing out an object that is held already would     *)
(* count it twice, which no step here does.                                *)
(***************************************************************************)
EXTENDS Naturals

CONSTANTS Object, Value

VARIABLES
    holders,   \* how often the client holds each object
    contents   \* what it keeps in those it holds

poolVars == <<holders, contents>>

live == {o \in Object : holders[o] > 0}

Init ==
    /\ holders = [o \in Object |-> 0]
    /\ contents = [o \in {} |-> o]

New ==
    \E o \in Object, v \in Value :
        /\ holders[o] = 0
        /\ holders' = [holders EXCEPT ![o] = 1]
        /\ contents' = [p \in live \cup {o} |-> IF p = o THEN v ELSE contents[p]]

Delete ==
    \E o \in Object :
        /\ holders[o] = 1
        /\ holders' = [holders EXCEPT ![o] = 0]
        /\ contents' = [p \in live \ {o} |-> contents[p]]

Use ==
    \E o \in live, v \in Value :
        /\ contents' = [contents EXCEPT ![o] = v]
        /\ UNCHANGED holders

Next == New \/ Delete \/ Use

Spec == Init /\ [][Next]_poolVars

=============================================================================
