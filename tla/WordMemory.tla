----------------------------- MODULE WordMemory -----------------------------
(***************************************************************************)
(* What the data side of the memory system promises the processor: a       *)
(* plain array of words with at most one access outstanding.  A load       *)
(* returns the word most recently stored at its address, or the initial    *)
(* one; a store takes effect exactly once, when its access completes.      *)
(* There are no caches, lines, latencies or replacement here.              *)
(***************************************************************************)
CONSTANTS
    Address,    \* the word addresses loads and stores use
    Value,      \* the values of a word
    Contents,   \* the initial contents, [Address -> Value]
    NoAccess    \* no access outstanding

VARIABLES
    store,      \* Address -> Value
    access      \* the outstanding access, or NoAccess

wordVars == <<store, access>>

Access == [type : {"Ld", "St"}, addr : Address, data : Value, done : BOOLEAN]

Init ==
    /\ store = Contents
    /\ access = NoAccess

Issue ==
    /\ access = NoAccess
    /\ access' \in {a \in Access : ~a.done}
    /\ UNCHANGED store

Completed(a, data) ==
    [type |-> a.type, addr |-> a.addr, data |-> data, done |-> TRUE]

CompleteLoad ==
    /\ access # NoAccess
    /\ ~access.done
    /\ access.type = "Ld"
    /\ access' = Completed(access, store[access.addr])
    /\ UNCHANGED store

CompleteStore ==
    /\ access # NoAccess
    /\ ~access.done
    /\ access.type = "St"
    /\ store' = [store EXCEPT ![access.addr] = access.data]
    /\ access' = Completed(access, access.data)

Retire ==
    /\ access # NoAccess
    /\ access.done
    /\ access' = NoAccess
    /\ UNCHANGED store

Next == Issue \/ CompleteLoad \/ CompleteStore \/ Retire

Spec == Init /\ [][Next]_wordVars

=============================================================================
