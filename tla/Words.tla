------------------------------- MODULE Words -------------------------------
(***************************************************************************)
(* Words and their bits (Word of src/src/BaseTypes.h, a uint32_t).  A word *)
(* is a natural number of WordBits bits, and arithmetic wraps around.      *)
(***************************************************************************)
EXTENDS Integers

CONSTANT WordBits    \* bits of a word (32)

ASSUME WidthAssumption == WordBits \in Nat \ {0}

\* 2 ^ n
TwoTo[n \in Nat] == IF n = 0 THEN 1 ELSE 2 * TwoTo[n - 1]

Modulus == TwoTo[WordBits]
WordSet == 0 .. Modulus - 1
Wrap(n) == n % Modulus

Bit(w, k) == (w \div TwoTo[k]) % 2

(***************************************************************************)
(* The number whose bits are those of the function bit, lowest first.      *)
(***************************************************************************)
FromBits(bit, size) ==
    LET value[n \in 0 .. size] ==
            IF n = 0 THEN 0 ELSE value[n - 1] + bit[n - 1] * TwoTo[n - 1]
    IN  value[size]

=============================================================================
