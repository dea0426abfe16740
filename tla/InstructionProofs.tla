------------------------- MODULE InstructionProofs -------------------------
(***************************************************************************)
(* One instruction does what it says: proofs about Instructions.  Decode   *)
(* undoes the encoding of every format, the executor's arithmetic has the  *)
(* bits and numbers Assembly asks for, and the stages of Cpu::Clock put    *)
(* the two together.                                                       *)
(***************************************************************************)
EXTENDS InstructionInvariant, ExecutorProofs

(***************************************************************************)
(* A wrapped number is the number modulo the word size, and has its bits.  *)
(***************************************************************************)
LEMMA WrapSame ==
    ASSUME NEW n \in Int
    PROVE  /\ Wrap(n) \in WordSet /\ Same(Wrap(n), n)
           /\ \E c \in Int : n = Wrap(n) + Modulus * c
<1>1. Modulus \in Nat \ {0}
  BY ModulusType
<1>2. PICK c \in Int : c = n \div Modulus
  BY <1>1, Division
<1>3. n = Modulus * c + Wrap(n) /\ Wrap(n) \in 0 .. Modulus - 1
  BY <1>1, <1>2, Division DEF Wrap
<1>4. Wrap(n) - n = 0 + Modulus * (-c)
  <2>1. Modulus * c \in Int /\ Modulus * (-c) = -(Modulus * c)
    BY <1>1
  <2> DEFINE x == Modulus * c
  <2> HIDE DEF x
  <2>2. n = x + Wrap(n) /\ x \in Int /\ Wrap(n) \in Int
    BY <1>3, <2>1 DEF x
  <2> QED BY <2>1, <2>2 DEF x
<1>5. (0 + Modulus * (-c)) % Modulus = 0 % Modulus
  <2>1. -c \in Int
    BY <1>2
  <2> QED BY <1>1, <2>1, AddMultiple
<1>6. 0 % Modulus = 0
  BY <1>1
<1>7. Same(Wrap(n), n)
  BY <1>4, <1>5, <1>6 DEF Same
<1>8. Wrap(n) \in WordSet /\ n = Wrap(n) + Modulus * c
  <2> DEFINE x == Modulus * c
  <2>1. x \in Int
    BY <1>1
  <2> HIDE DEF x
  <2>2. n = x + Wrap(n) /\ Wrap(n) \in Int
    BY <1>1, <1>3 DEF x
  <2>3. n = Wrap(n) + x
    BY <2>1, <2>2
  <2> QED BY <1>3, <2>3 DEF x, WordSet
<1> QED BY <1>7, <1>8

LEMMA WordUnwrapped == \A w \in WordSet : Wrap(w) = w
  BY ModulusType DEF WordSet, Wrap

\* Adding a number or what is left of it modulo the word size is the same.
LEMMA WrapSum ==
    ASSUME NEW a \in Int, NEW v \in Int
    PROVE  Wrap(a + Wrap(v)) = Wrap(a + v)
<1>1. Modulus \in Nat \ {0}
  BY ModulusType
<1>2. PICK c \in Int : v = Wrap(v) + Modulus * c
  BY WrapSame
<1>3. Wrap(v) \in Int /\ Modulus * c \in Int
  BY <1>1, ModulusType DEF WordSet
<1>4. a + v = (a + Wrap(v)) + Modulus * c
  <2> DEFINE x == Modulus * c
  <2> HIDE DEF x
  <2> QED BY <1>2, <1>3 DEF x
<1>5. ((a + Wrap(v)) + Modulus * c) % Modulus = (a + Wrap(v)) % Modulus
  <2> DEFINE b == a + Wrap(v)
  <2>1. b \in Int
    BY <1>3
  <2> HIDE DEF b
  <2>2. (b + Modulus * c) % Modulus = b % Modulus
    BY <1>1, <2>1, AddMultiple
  <2> QED BY <2>2 DEF b
<1> QED BY <1>4, <1>5 DEF Wrap

(***************************************************************************)
(* Bits of multiples and quotients.                                        *)
(***************************************************************************)
LEMMA BitOfZero == \A k \in Nat : Bit(0, k) = 0
<1> SUFFICES ASSUME NEW k \in Nat PROVE Bit(0, k) = 0
  OBVIOUS
<1>1. TwoTo[k] \in Nat \ {0}
  BY TwoToPositive
<1>2. 0 \in 0 .. TwoTo[k] - 1
  BY <1>1
<1> QED BY <1>2, BitAbove

LEMMA BitOfQuotient ==
    ASSUME NEW n \in Nat, NEW k \in Nat, NEW a \in Int
    PROVE  Bit(a \div TwoTo[n], k) = Bit(a, n + k)
<1>1. TwoTo[n] \in Nat \ {0} /\ TwoTo[k] \in Nat \ {0} /\ TwoTo[n + k] = TwoTo[n] * TwoTo[k]
  BY TwoToPositive, TwoToSum
<1>2. (a \div TwoTo[n]) \div TwoTo[k] = a \div (TwoTo[n] * TwoTo[k])
  BY <1>1, DivideTwice
<1> QED BY <1>1, <1>2 DEF Bit

LEMMA BitOfProduct ==
    ASSUME NEW n \in Nat, NEW k \in Nat, NEW a \in Int
    PROVE  Bit(a * TwoTo[n], k) = IF k >= n THEN Bit(a, k - n) ELSE 0
<1>1. TwoTo[n] \in Nat \ {0}
  BY TwoToPositive
<1>2. CASE k < n
  <2>1. Bit(0 + a * TwoTo[n], k) = Bit(0, k)
    <3> DEFINE zero == 0
    <3>1. zero \in Int
      OBVIOUS
    <3> HIDE DEF zero
    <3>2. Bit(zero + a * TwoTo[n], k) = Bit(zero, k)
      BY <1>2, <3>1, BitOfMultiple
    <3> QED BY <3>2 DEF zero
  <2>2. 0 + a * TwoTo[n] = a * TwoTo[n]
    BY <1>1
  <2> QED BY <1>2, <2>1, <2>2, BitOfZero
<1>3. CASE k >= n
  <2>1. k - n \in Nat /\ n + (k - n) = k
    BY <1>3
  <2>2. a * TwoTo[n] \in Int /\ a * TwoTo[n] = TwoTo[n] * a + 0
    BY <1>1
  <2>3. (a * TwoTo[n]) \div TwoTo[n] = a
    <3>1. 0 \in 0 .. TwoTo[n] - 1
      BY <1>1
    <3> QED BY <1>1, <2>2, <3>1, DivisionUnique
  <2>4. Bit((a * TwoTo[n]) \div TwoTo[n], k - n) = Bit(a * TwoTo[n], n + (k - n))
    BY <2>1, <2>2, BitOfQuotient
  <2> QED BY <1>3, <2>1, <2>3, <2>4
<1> QED BY <1>2, <1>3

\* The lowest bits do not depend on what is a multiple of a higher power.
LEMMA BitOfRest ==
    ASSUME NEW n \in Nat, NEW k \in Nat, k < n, NEW a \in Int
    PROVE  Bit(a % TwoTo[n], k) = Bit(a, k)
<1>1. TwoTo[n] \in Nat \ {0}
  BY TwoToPositive
<1>2. PICK q \in Int : q = a \div TwoTo[n]
  BY <1>1, Division
<1>3. a % TwoTo[n] \in Int /\ a = TwoTo[n] * q + (a % TwoTo[n])
  <2>1. a % TwoTo[n] \in 0 .. TwoTo[n] - 1 /\ a = TwoTo[n] * (a \div TwoTo[n]) + (a % TwoTo[n])
    BY <1>1, Division
  <2> QED BY <1>1, <1>2, <2>1
<1> DEFINE r == a % TwoTo[n]
<1> HIDE DEF r
<1>4. Bit(r + q * TwoTo[n], k) = Bit(r, k)
  BY <1>3, BitOfMultiple DEF r
<1>5. a = r + q * TwoTo[n]
  BY <1>1, <1>3 DEF r
<1> QED BY <1>4, <1>5 DEF r

\* Wrapping keeps the bits a word has.
LEMMA BitOfWrap ==
    ASSUME NEW a \in Int, NEW k \in 0 .. WordBits - 1
    PROVE  Bit(Wrap(a), k) = Bit(a, k)
  BY BitOfRest, WidthAssumption DEF Wrap, Modulus

-----------------------------------------------------------------------------
(***************************************************************************)
(* The two's complement number of a word, by its sign bit and by its size. *)
(***************************************************************************)
LEMMA HalfModulus ==
    /\ WordBits - 1 \in Nat
    /\ TwoTo[WordBits - 1] \in Nat \ {0} /\ Modulus = 2 * TwoTo[WordBits - 1]
<1>1. WordBits - 1 \in Nat /\ (WordBits - 1) + 1 = WordBits
  BY WidthAssumption
<1>2. TwoTo[(WordBits - 1) + 1] = 2 * TwoTo[WordBits - 1]
  BY <1>1, TwoToRecursion
<1> QED BY <1>1, <1>2, TwoToPositive DEF Modulus

\* The highest bit of a word tells whether it lies in the upper half.
LEMMA SignBit ==
    ASSUME NEW w \in WordSet
    PROVE  Bit(w, WordBits - 1) = IF w < TwoTo[WordBits - 1] THEN 0 ELSE 1
<1> DEFINE p == TwoTo[WordBits - 1]
<1>1. /\ p \in Nat \ {0} /\ Modulus = 2 * p /\ WordBits - 1 \in Nat
      /\ w \in Nat /\ w < 2 * p
  BY HalfModulus DEF WordSet
<1>2. CASE w < p
  <2>1. w \in 0 .. TwoTo[WordBits - 1] - 1
    BY <1>1, <1>2
  <2> QED BY <1>1, <1>2, <2>1, BitAbove
<1>3. CASE ~(w < p)
  <2>1. w - TwoTo[WordBits - 1] \in 0 .. TwoTo[WordBits - 1] - 1
    BY <1>1, <1>3
  <2> DEFINE rest == w - TwoTo[WordBits - 1]
             one  == 1
  <2>2. one \in {0, 1}
    OBVIOUS
  <2>3. rest + one * TwoTo[WordBits - 1] = w
    BY <1>1
  <2> HIDE DEF rest, one
  <2>4. Bit(rest + one * TwoTo[WordBits - 1], WordBits - 1) = one
    BY <1>1, <2>1, <2>2, TopBit DEF rest
  <2> QED BY <1>3, <2>3, <2>4 DEF one
<1> QED BY <1>2, <1>3

\* The conversion to int (Signed) is two's complement (Number).
LEMMA NumberIsSigned ==
    ASSUME NEW w \in WordSet
    PROVE  /\ Number(w) = Signed(w)
           /\ Signed(w) \in -TwoTo[WordBits - 1] .. TwoTo[WordBits - 1] - 1
           /\ \E s \in {0, 1} : s = Bit(w, WordBits - 1) /\ Signed(w) = w - s * Modulus
<1>1. /\ TwoTo[WordBits - 1] \in Nat \ {0} /\ Modulus = 2 * TwoTo[WordBits - 1]
      /\ w \in 0 .. Modulus - 1
  BY HalfModulus DEF WordSet
<1>2. CASE w < TwoTo[WordBits - 1]
  <2>1. Bit(w, WordBits - 1) = 0 /\ Signed(w) = w
    BY <1>2, SignBit DEF Signed
  <2>2. w - 0 * Modulus = w
    BY <1>1
  <2> QED BY <1>1, <1>2, <2>1, <2>2 DEF Number
<1>3. CASE ~(w < TwoTo[WordBits - 1])
  <2>1. Bit(w, WordBits - 1) = 1 /\ Signed(w) = w - Modulus
    BY <1>3, SignBit DEF Signed
  <2>2. w - 1 * Modulus = w - Modulus
    BY <1>1
  <2> QED BY <1>1, <1>3, <2>1, <2>2 DEF Number
<1> QED BY <1>2, <1>3

(***************************************************************************)
(* Copies of the sign bit continue a signed number upwards.                *)
(***************************************************************************)
LEMMA BitOfSigned ==
    ASSUME NEW w \in WordSet, NEW k \in Nat
    PROVE  Bit(Signed(w), k) = Bit(w, IF k < WordBits THEN k ELSE WordBits - 1)
<1>1. /\ WordBits \in Nat /\ WordBits - 1 \in Nat /\ w \in Int
      /\ TwoTo[WordBits - 1] \in Nat \ {0} /\ Modulus \in Nat /\ Modulus = TwoTo[WordBits]
  BY WidthAssumption, HalfModulus DEF WordSet, Modulus
<1>2. PICK s \in {0, 1} : s = Bit(w, WordBits - 1) /\ Signed(w) = w - s * Modulus
  BY NumberIsSigned
<1>3. CASE k < WordBits
  <2>1. Signed(w) = w + (-s) * TwoTo[WordBits] /\ -s \in Int
    <3>1. CASE s = 0
      <4>1. w - 0 * Modulus = w /\ w + (-0) * TwoTo[WordBits] = w
        BY <1>1
      <4> QED BY <1>2, <3>1, <4>1
    <3>2. CASE s = 1
      <4> DEFINE M == Modulus
      <4>1. Signed(w) = w - 1 * M /\ TwoTo[WordBits] = M /\ M \in Int
        BY <1>1, <1>2, <3>2
      <4> HIDE DEF M
      <4>2. w - 1 * M = w + (-1) * M
        BY <1>1, <4>1
      <4> QED BY <3>2, <4>1, <4>2
    <3> QED BY <3>1, <3>2
  <2>2. Bit(w + (-s) * TwoTo[WordBits], k) = Bit(w, k)
    <3> DEFINE c == -s
    <3>1. c \in Int /\ w \in Int /\ k \in Nat /\ WordBits \in Nat /\ k < WordBits
      BY <1>1, <1>3, <2>1
    <3> HIDE DEF c
    <3>2. Bit(w + c * TwoTo[WordBits], k) = Bit(w, k)
      BY <3>1, BitOfMultiple
    <3> QED BY <3>2 DEF c
  <2> QED BY <1>3, <2>1, <2>2
<1>4. CASE k >= WordBits
  <2>1. k - (WordBits - 1) \in Nat /\ WordBits - 1 <= k
    BY <1>1, <1>4
  <2>2. TwoTo[WordBits - 1] <= TwoTo[k] /\ TwoTo[k] \in Nat \ {0}
    BY <1>1, <2>1, TwoToMonotone, TwoToPositive
  <2>3. CASE w < TwoTo[WordBits - 1]
    <3>1. Signed(w) = w /\ Bit(w, WordBits - 1) = 0
      BY <2>3, SignBit DEF Signed
    <3>2. w \in 0 .. TwoTo[k] - 1
      BY <1>1, <2>2, <2>3 DEF WordSet
    <3>3. Bit(w, k) = 0
      BY <2>1, <3>2, BitAbove
    <3> QED BY <1>4, <3>1, <3>3
  <2>4. CASE ~(w < TwoTo[WordBits - 1])
    <3>1. Bit(w, WordBits - 1) = 1 /\ Signed(w) = w - Modulus
      BY <2>4, SignBit DEF Signed
    <3>2. Signed(w) \in -TwoTo[k] .. -1
      <4>1. Signed(w) \in -TwoTo[WordBits - 1] .. -1
        BY <1>1, <3>1, NumberIsSigned DEF WordSet
      <4> QED BY <1>1, <2>2, <4>1
    <3> DEFINE x == Signed(w)
               p == TwoTo[k]
    <3>3. x \in -p .. -1 /\ p \in Nat \ {0}
      BY <2>2, <3>2
    <3> HIDE DEF x, p
    <3>4. x = p * (-1) + (x + p) /\ x + p \in 0 .. p - 1
      BY <3>3
    <3>5. x \div p = -1
      BY <3>3, <3>4, DivisionUnique
    <3>6. Bit(x, k) = 1
      <4>1. \A y \in Int : y + 1 = 0 => (y % 2) = 1
        OBVIOUS
      <4>2. x \div p \in Int /\ (x \div p) + 1 = 0
        BY <3>5
      <4>3. (x \div p) % 2 = 1
        BY <4>1, <4>2
      <4> QED BY <4>3 DEF Bit, p
    <3> QED BY <1>1, <1>4, <3>1, <3>6 DEF x
  <2> QED BY <2>3, <2>4
<1> QED BY <1>1, <1>3, <1>4

-----------------------------------------------------------------------------
(***************************************************************************)
(* The shifts, bit by bit.                                                 *)
(***************************************************************************)
LEMMA BitOfShiftLeft ==
    ASSUME NEW a \in WordSet, NEW n \in Nat, NEW k \in 0 .. WordBits - 1
    PROVE  Bit(ShiftLeft(a, n), k) = IF k >= n THEN Bit(a, k - n) ELSE 0
<1>1. WordBits \in Nat /\ a \in Int /\ k \in Nat
  BY WidthAssumption DEF WordSet
<1>2. CASE n < WordBits
  <2> DEFINE x == a % TwoTo[WordBits - n]
  <2>1. WordBits - n \in Nat
    BY <1>1, <1>2
  <2>2. x \in Int
    BY <1>1, <2>1, TwoToPositive, Division
  <2>3. ShiftLeft(a, n) = x * TwoTo[n]
    BY <1>2 DEF ShiftLeft
  <2>4. k >= n => Bit(x, k - n) = Bit(a, k - n)
    BY <1>1, <2>1, BitOfRest
  <2> HIDE DEF x
  <2>5. Bit(x * TwoTo[n], k) = IF k >= n THEN Bit(x, k - n) ELSE 0
    BY <1>1, <2>2, BitOfProduct
  <2> QED BY <2>3, <2>4, <2>5
<1>3. CASE ~(n < WordBits)
  <2>1. ShiftLeft(a, n) = 0 /\ ~(k >= n)
    BY <1>1, <1>3 DEF ShiftLeft
  <2> QED BY <1>1, <2>1, BitOfZero
<1> QED BY <1>2, <1>3

LEMMA BitOfShiftRight ==
    ASSUME NEW a \in WordSet, NEW n \in Nat, NEW k \in 0 .. WordBits - 1
    PROVE  Bit(ShiftRight(a, n), k) = IF k + n < WordBits THEN Bit(a, k + n) ELSE 0
<1>1. WordBits \in Nat /\ a \in Int /\ k \in Nat
  BY WidthAssumption DEF WordSet
<1>2. CASE n < WordBits
  <2>1. Bit(a \div TwoTo[n], k) = Bit(a, n + k)
    BY <1>1, BitOfQuotient
  <2>2. ShiftRight(a, n) = a \div TwoTo[n] /\ n + k = k + n
    BY <1>1, <1>2 DEF ShiftRight
  <2>3. CASE k + n < WordBits
    BY <2>1, <2>2, <2>3
  <2>4. CASE ~(k + n < WordBits)
    <3>1. WordBits <= k + n /\ k + n \in Nat /\ a \in 0 .. TwoTo[WordBits] - 1
      BY <1>1, <2>4 DEF WordSet, Modulus
    <3>2. Bit(a, k + n) = 0
      BY <1>1, <3>1, BitAbove
    <3> QED BY <2>1, <2>2, <2>4, <3>2
  <2> QED BY <2>3, <2>4
<1>3. CASE ~(n < WordBits)
  <2>1. ShiftRight(a, n) = 0 /\ ~(k + n < WordBits)
    BY <1>1, <1>3 DEF ShiftRight
  <2> QED BY <1>1, <2>1, BitOfZero
<1> QED BY <1>2, <1>3

LEMMA BitOfShiftArithmetic ==
    ASSUME NEW a \in WordSet, NEW b \in Int, NEW k \in 0 .. WordBits - 1
    PROVE  Bit(ShiftArithmetic(a, b), k)
             = Bit(a, IF k + (b % 32) < WordBits THEN k + (b % 32) ELSE WordBits - 1)
<1> DEFINE n == IF b % 32 < WordBits THEN b % 32 ELSE WordBits - 1
           x == Signed(a)
<1>1. WordBits \in Nat \ {0} /\ n \in Nat /\ b % 32 \in Nat /\ k \in Nat /\ x \in Int
  BY WidthAssumption, SignedType
<1>2. x \div TwoTo[n] \in Int
  BY <1>1, TwoToPositive, Division
<1>3. Bit(Wrap(x \div TwoTo[n]), k) = Bit(x \div TwoTo[n], k)
  BY <1>2, BitOfWrap
<1>4. Bit(x \div TwoTo[n], k) = Bit(x, n + k)
  BY <1>1, BitOfQuotient
<1>5. Bit(x, n + k) = Bit(a, IF n + k < WordBits THEN n + k ELSE WordBits - 1)
  BY <1>1, BitOfSigned
<1>6. (IF n + k < WordBits THEN n + k ELSE WordBits - 1)
        = (IF k + (b % 32) < WordBits THEN k + (b % 32) ELSE WordBits - 1)
  BY <1>1
<1> QED BY <1>3, <1>4, <1>5, <1>6 DEF ShiftArithmetic

-----------------------------------------------------------------------------
(***************************************************************************)
(* The executor's function for an operation yields its result, and its     *)
(* branch function is the operation's condition.                           *)
(***************************************************************************)

\* The operations of each format.
LEMMA OpDomains ==
    /\ DOMAIN ImmediateOps = {"addi", "slti", "sltiu", "xori", "ori", "andi"}
    /\ DOMAIN ShiftOps = {"slli", "srli", "srai"}
    /\ DOMAIN RegisterOps = {"add", "sub", "sll", "slt", "sltu", "xor", "srl", "sra",
                             "or", "and"}
    /\ DOMAIN BranchOps = {"beq", "bne", "blt", "bge", "bltu", "bgeu"}
  BY DEF ImmediateOps, ShiftOps, RegisterOps, BranchOps

(***************************************************************************)
(* On any two words the function the decoder has to choose for an          *)
(* operation computes what the operation is to compute.                    *)
(***************************************************************************)
LEMMA ComputeMeets ==
    ASSUME NEW op \in ComputedOps, NEW a \in WordSet, NEW b \in WordSet
    PROVE  /\ AluFuncOf(op) \in AluFunc
           /\ IsResult(op, a, b, Compute(AluFuncOf(op), a, b))
<1>1. a \in Int /\ b \in Int /\ (b % 32) \in Nat
  BY DEF WordSet
<1>2. CASE op \in {"add", "addi"}
  <2>1. Same(Wrap(a + b), a + b)
    BY <1>1, WrapSame
  <2> QED BY <1>2, <2>1 DEF AluFuncOf, AluFunc, IsResult, Compute
<1>3. CASE op = "sub"
  <2>1. Same(Wrap(a - b), a - b) /\ Wrap(a - b) \in Int
    BY <1>1, WrapSame DEF WordSet
  <2>2. (Wrap(a - b) + b) - a = Wrap(a - b) - (a - b)
    BY <1>1, <2>1
  <2>3. Same(Wrap(a - b) + b, a)
    BY <2>1, <2>2 DEF Same
  <2> QED BY <1>3, <2>3 DEF AluFuncOf, AluFunc, IsResult, Compute
<1>4. CASE op \in {"slt", "slti"}
  <2>1. Number(a) = Signed(a) /\ Number(b) = Signed(b)
    BY NumberIsSigned
  <2> QED BY <1>4, <2>1 DEF AluFuncOf, AluFunc, IsResult, Compute, Truth
<1>5. CASE op \in {"sltu", "sltiu"}
  BY <1>5 DEF AluFuncOf, AluFunc, IsResult, Compute, Truth
<1>6. CASE op \in {"and", "andi"}
  BY <1>1, <1>6, BitwiseWords DEF AluFuncOf, AluFunc, IsResult, Compute, AllBits
<1>7. CASE op \in {"or", "ori"}
  BY <1>1, <1>7, BitwiseWords DEF AluFuncOf, AluFunc, IsResult, Compute, AllBits
<1>8. CASE op \in {"xor", "xori"}
  BY <1>1, <1>8, BitwiseWords DEF AluFuncOf, AluFunc, IsResult, Compute, AllBits
<1>9. CASE op \in {"sll", "slli"}
  BY <1>1, <1>9, BitOfShiftLeft DEF AluFuncOf, AluFunc, IsResult, Compute, AllBits, Amount
<1>10. CASE op \in {"srl", "srli"}
  BY <1>1, <1>10, BitOfShiftRight DEF AluFuncOf, AluFunc, IsResult, Compute, AllBits, Amount
<1>11. CASE op \in {"sra", "srai"}
  BY <1>1, <1>11, BitOfShiftArithmetic
     DEF AluFuncOf, AluFunc, IsResult, Compute, AllBits, Amount
<1> QED
  BY <1>2, <1>3, <1>4, <1>5, <1>6, <1>7, <1>8, <1>9, <1>10, <1>11, OpDomains DEF ComputedOps

\* And branching_processing decides what the branch is to decide.
LEMMA BranchingMeets ==
    ASSUME NEW i \in InstructionObject, NEW op \in DOMAIN BranchOps,
           i.brFunc = BrFuncOf(op)
    PROVE  BranchingProcessing(i) <=> Taken(op, i.src1Val, i.src2Val)
<1>1. i.src1Val \in WordSet /\ i.src2Val \in WordSet
  BY DEF InstructionObject
<1>2. Number(i.src1Val) = Signed(i.src1Val) /\ Number(i.src2Val) = Signed(i.src2Val)
  BY <1>1, NumberIsSigned
<1> QED BY <1>2, OpDomains DEF BranchingProcessing, Taken, BrFuncOf

-----------------------------------------------------------------------------
(***************************************************************************)
(* Encodings.  A bit of a packed word is that of the only field it lies    *)
(* in, and a bit-field that holds the lowest bits of a number is that      *)
(* number modulo its size.                                                 *)
(***************************************************************************)
LEMMA PackBit ==
    ASSUME NEW fields, NEW f \in fields, NEW k \in 0 .. 31, k \in f.low .. f.high,
           \A g \in fields : k \in g.low .. g.high => g = f
    PROVE  Pack(fields)[k] = Bit(f.value, k - f.low)
<1>1. (CHOOSE g \in fields : k \in g.low .. g.high) = f
  OBVIOUS
<1> QED BY <1>1 DEF Pack

\* The field of w of that size from bit first on has the lowest bits of v.
Holds(w, first, size, v) == \A k \in 0 .. size - 1 : w[first + k] = Bit(v, k)

\* So the bit-field read there is v modulo two to its size.
LEMMA FieldHolds ==
    ASSUME NEW w, NEW first \in Nat, NEW size \in Nat, NEW v \in Int, Holds(w, first, size, v)
    PROVE  Field(w, first, size) = v % TwoTo[size]
<1> DEFINE bit == [k \in 0 .. size - 1 |-> w[first + k]]
<1>1. bit = [k \in 0 .. size - 1 |-> Bit(v, k)]
  BY DEF Holds
<1>2. FromBits(bit, size) = v % TwoTo[size]
  <2> HIDE DEF bit
  <2> QED BY <1>1, FromBitsOfNumber
<1> QED BY <1>2 DEF Field

\* The fields of a format do not overlap.
Apart(fields) ==
    \A f, g \in fields : f = g \/ f.high < g.low \/ g.high < f.low

\* Packed fields that do not overlap are all there.
LEMMA PackHolds ==
    ASSUME NEW fields, Apart(fields), NEW high \in 0 .. 31, NEW low \in 0 .. high, NEW v,
           In(high, low, v) \in fields,
           \A g \in fields : g.low \in Int /\ g.high \in Int
    PROVE  Holds(Pack(fields), low, high - low + 1, v)
<1> DEFINE f == In(high, low, v)
<1>1. f.low = low /\ f.high = high /\ f.value = v /\ f \in fields
  BY DEF In
<1> HIDE DEF f
<1> SUFFICES ASSUME NEW k \in 0 .. (high - low + 1) - 1
             PROVE  Pack(fields)[low + k] = Bit(v, k)
  BY DEF Holds
<1>2. low + k \in 0 .. 31 /\ low + k \in f.low .. f.high /\ (low + k) - f.low = k
  BY <1>1
<1>3. ASSUME NEW g \in fields, low + k \in g.low .. g.high PROVE g = f
  BY <1>1, <1>2, <1>3 DEF Apart
<1> DEFINE j == low + k
<1>4. /\ j \in 0 .. 31 /\ j \in f.low .. f.high /\ j - f.low = k
      /\ \A g \in fields : j \in g.low .. g.high => g = f
  BY <1>2, <1>3
<1> HIDE DEF j
<1>5. Pack(fields)[j] = Bit(f.value, j - f.low)
  BY <1>1, <1>4, PackBit
<1> QED BY <1>1, <1>4, <1>5 DEF j

(***************************************************************************)
(* The formats: what the decoder's bit-fields find in them.                *)
(***************************************************************************)

\* Opcodes, register numbers and function codes fit in their fields.
LEMMA SmallValues ==
    /\ \A v \in 0 .. 1   : v % TwoTo[1] = v
    /\ \A v \in 0 .. 7   : v % TwoTo[3] = v
    /\ \A v \in 0 .. 31  : v % TwoTo[5] = v
    /\ \A v \in 0 .. 127 : v % TwoTo[7] = v
<1>1. TwoTo[1] = 2 /\ TwoTo[3] = 8 /\ TwoTo[5] = 32 /\ TwoTo[7] = 128
  BY TwoToValues
<1>2. /\ \A v \in 0 .. 1   : v % 2 = v
      /\ \A v \in 0 .. 7   : v % 8 = v
      /\ \A v \in 0 .. 31  : v % 32 = v
      /\ \A v \in 0 .. 127 : v % 128 = v
  OBVIOUS
<1> QED BY <1>1, <1>2

\* I format: addi and its like, jalr, lw, csrr and csrw.
IHolds(w, opcode, funct3, m) ==
    /\ Opcode(w) = opcode /\ Rd(w) = m.rd /\ Funct3(w) = funct3 /\ Rs1(w) = m.rs1
    /\ Field(w, 20, 12) = m.imm % TwoTo[12]

LEMMA IFields ==
    ASSUME NEW opcode \in Int, NEW funct3 \in Int, NEW m,
           opcode \in 0 .. 127, funct3 \in 0 .. 7,
           m.rd \in 0 .. 31, m.rs1 \in 0 .. 31, m.imm \in Int,
           NEW w, w = IFormat(opcode, funct3, m)
    PROVE  IHolds(w, opcode, funct3, m)
<1> DEFINE fields == {In(6, 0, opcode), In(11, 7, m.rd), In(14, 12, funct3),
                      In(19, 15, m.rs1), In(31, 20, m.imm)}
<1>1. w = Pack(fields)
  BY DEF IFormat
<1>2. Apart(fields) /\ \A g \in fields : g.low \in Int /\ g.high \in Int
  BY DEF Apart, In
<1>3. /\ In(6, 0, opcode) \in fields /\ In(11, 7, m.rd) \in fields
      /\ In(14, 12, funct3) \in fields /\ In(19, 15, m.rs1) \in fields
      /\ In(31, 20, m.imm) \in fields
  OBVIOUS
<1> HIDE DEF fields
<1>4. /\ Holds(w, 0, 6 - 0 + 1, opcode) /\ Holds(w, 7, 11 - 7 + 1, m.rd)
      /\ Holds(w, 12, 14 - 12 + 1, funct3) /\ Holds(w, 15, 19 - 15 + 1, m.rs1)
      /\ Holds(w, 20, 31 - 20 + 1, m.imm)
  BY <1>1, <1>2, <1>3, PackHolds
<1>5. /\ Field(w, 0, 7) = opcode % TwoTo[7] /\ Field(w, 7, 5) = m.rd % TwoTo[5]
      /\ Field(w, 12, 3) = funct3 % TwoTo[3] /\ Field(w, 15, 5) = m.rs1 % TwoTo[5]
      /\ Field(w, 20, 12) = m.imm % TwoTo[12]
  BY <1>4, FieldHolds
<1> QED
  BY <1>5, SmallValues, TwoToValues DEF IHolds, Opcode, Rd, Funct3, Rs1

\* S format: sw. The immediate is in two pieces.
SHolds(w, opcode, funct3, m) ==
    /\ Opcode(w) = opcode /\ Funct3(w) = funct3 /\ Rs1(w) = m.rs1 /\ Rs2(w) = m.rs2
    /\ Field(w, 7, 5) = m.imm % 32 /\ Field(w, 25, 7) = (m.imm \div 32) % 128

LEMMA SFields ==
    ASSUME NEW opcode \in Int, NEW funct3 \in Int, NEW m,
           opcode \in 0 .. 127, funct3 \in 0 .. 7,
           m.rs1 \in 0 .. 31, m.rs2 \in 0 .. 31, m.imm \in Int,
           NEW w, w = SFormat(opcode, funct3, m)
    PROVE  SHolds(w, opcode, funct3, m)
<1> DEFINE fields == {In(6, 0, opcode), In(11, 7, m.imm), In(14, 12, funct3),
                      In(19, 15, m.rs1), In(24, 20, m.rs2),
                      In(31, 25, m.imm \div 2 ^ 5)}
<1>1. w = Pack(fields)
  BY DEF SFormat
<1>2. Apart(fields) /\ \A g \in fields : g.low \in Int /\ g.high \in Int
  BY DEF Apart, In
<1>3. /\ In(6, 0, opcode) \in fields
      /\ In(11, 7, m.imm) \in fields
      /\ In(14, 12, funct3) \in fields
      /\ In(19, 15, m.rs1) \in fields
      /\ In(24, 20, m.rs2) \in fields
      /\ In(31, 25, m.imm \div 2 ^ 5) \in fields
  OBVIOUS
<1> HIDE DEF fields
<1>4. /\ Holds(w, 0, 6 - 0 + 1, opcode)
      /\ Holds(w, 7, 11 - 7 + 1, m.imm)
      /\ Holds(w, 12, 14 - 12 + 1, funct3)
      /\ Holds(w, 15, 19 - 15 + 1, m.rs1)
      /\ Holds(w, 20, 24 - 20 + 1, m.rs2)
      /\ Holds(w, 25, 31 - 25 + 1, m.imm \div 2 ^ 5)
  BY <1>1, <1>2, <1>3, PackHolds
<1>5. m.imm \div 2 ^ 5 \in Int
  OBVIOUS
<1>6. /\ Field(w, 0, 7) = opcode % TwoTo[7]
      /\ Field(w, 7, 5) = m.imm % TwoTo[5]
      /\ Field(w, 12, 3) = funct3 % TwoTo[3]
      /\ Field(w, 15, 5) = m.rs1 % TwoTo[5]
      /\ Field(w, 20, 5) = m.rs2 % TwoTo[5]
      /\ Field(w, 25, 7) = (m.imm \div 2 ^ 5) % TwoTo[7]
  BY <1>4, <1>5, FieldHolds
<1> QED
  BY <1>6, SmallValues, TwoToValues DEF SHolds, Opcode, Funct3, Rs1, Rs2

\* B format: branches. The immediate is in four pieces, without its lowest bit.
BHolds(w, opcode, funct3, m) ==
    /\ Opcode(w) = opcode /\ Funct3(w) = funct3 /\ Rs1(w) = m.rs1 /\ Rs2(w) = m.rs2
    /\ Field(w, 31, 1) = (m.imm \div 4096) % 2 /\ Field(w, 7, 1) = (m.imm \div 2048) % 2
    /\ Field(w, 25, 6) = (m.imm \div 32) % 64 /\ Field(w, 8, 4) = (m.imm \div 2) % 16

LEMMA BFields ==
    ASSUME NEW opcode \in Int, NEW funct3 \in Int, NEW m,
           opcode \in 0 .. 127, funct3 \in 0 .. 7,
           m.rs1 \in 0 .. 31, m.rs2 \in 0 .. 31, m.imm \in Int,
           NEW w, w = BFormat(opcode, funct3, m)
    PROVE  BHolds(w, opcode, funct3, m)
<1> DEFINE fields == {In(6, 0, opcode), In(7, 7, m.imm \div 2 ^ 11),
                      In(11, 8, m.imm \div 2), In(14, 12, funct3),
                      In(19, 15, m.rs1), In(24, 20, m.rs2),
                      In(30, 25, m.imm \div 2 ^ 5), In(31, 31, m.imm \div 2 ^ 12)}
<1>1. w = Pack(fields)
  BY DEF BFormat
<1>2. Apart(fields) /\ \A g \in fields : g.low \in Int /\ g.high \in Int
  BY DEF Apart, In
<1>3. /\ In(6, 0, opcode) \in fields
      /\ In(7, 7, m.imm \div 2 ^ 11) \in fields
      /\ In(11, 8, m.imm \div 2) \in fields
      /\ In(14, 12, funct3) \in fields
      /\ In(19, 15, m.rs1) \in fields
      /\ In(24, 20, m.rs2) \in fields
      /\ In(30, 25, m.imm \div 2 ^ 5) \in fields
      /\ In(31, 31, m.imm \div 2 ^ 12) \in fields
  OBVIOUS
<1> HIDE DEF fields
<1>4. /\ Holds(w, 0, 6 - 0 + 1, opcode)
      /\ Holds(w, 7, 7 - 7 + 1, m.imm \div 2 ^ 11)
      /\ Holds(w, 8, 11 - 8 + 1, m.imm \div 2)
      /\ Holds(w, 12, 14 - 12 + 1, funct3)
      /\ Holds(w, 15, 19 - 15 + 1, m.rs1)
      /\ Holds(w, 20, 24 - 20 + 1, m.rs2)
      /\ Holds(w, 25, 30 - 25 + 1, m.imm \div 2 ^ 5)
      /\ Holds(w, 31, 31 - 31 + 1, m.imm \div 2 ^ 12)
  BY <1>1, <1>2, <1>3, PackHolds
<1>5. /\ m.imm \div 2 ^ 11 \in Int /\ m.imm \div 2 \in Int
      /\ m.imm \div 2 ^ 5 \in Int /\ m.imm \div 2 ^ 12 \in Int
  OBVIOUS
<1>6. /\ Field(w, 0, 7) = opcode % TwoTo[7]
      /\ Field(w, 7, 1) = (m.imm \div 2 ^ 11) % TwoTo[1]
      /\ Field(w, 8, 4) = (m.imm \div 2) % TwoTo[4]
      /\ Field(w, 12, 3) = funct3 % TwoTo[3]
      /\ Field(w, 15, 5) = m.rs1 % TwoTo[5]
      /\ Field(w, 20, 5) = m.rs2 % TwoTo[5]
      /\ Field(w, 25, 6) = (m.imm \div 2 ^ 5) % TwoTo[6]
      /\ Field(w, 31, 1) = (m.imm \div 2 ^ 12) % TwoTo[1]
  BY <1>4, <1>5, FieldHolds
<1> QED
  BY <1>6, SmallValues, TwoToValues DEF BHolds, Opcode, Funct3, Rs1, Rs2

\* U format: lui and auipc.
UHolds(w, opcode, m) ==
    /\ Opcode(w) = opcode /\ Rd(w) = m.rd /\ Field(w, 12, 20) = m.imm % TwoTo[20]

LEMMA UFields ==
    ASSUME NEW opcode \in Int, NEW m, opcode \in 0 .. 127,
           m.rd \in 0 .. 31, m.imm \in Int,
           NEW w, w = UFormat(opcode, m)
    PROVE  UHolds(w, opcode, m)
<1> DEFINE fields == {In(6, 0, opcode), In(11, 7, m.rd), In(31, 12, m.imm)}
<1>1. w = Pack(fields)
  BY DEF UFormat
<1>2. Apart(fields) /\ \A g \in fields : g.low \in Int /\ g.high \in Int
  BY DEF Apart, In
<1>3. /\ In(6, 0, opcode) \in fields
      /\ In(11, 7, m.rd) \in fields
      /\ In(31, 12, m.imm) \in fields
  OBVIOUS
<1> HIDE DEF fields
<1>4. /\ Holds(w, 0, 6 - 0 + 1, opcode)
      /\ Holds(w, 7, 11 - 7 + 1, m.rd)
      /\ Holds(w, 12, 31 - 12 + 1, m.imm)
  BY <1>1, <1>2, <1>3, PackHolds
<1>5. /\ Field(w, 0, 7) = opcode % TwoTo[7]
      /\ Field(w, 7, 5) = m.rd % TwoTo[5]
      /\ Field(w, 12, 20) = m.imm % TwoTo[20]
  BY <1>4, FieldHolds
<1> QED
  BY <1>5, SmallValues, TwoToValues DEF UHolds, Opcode, Rd

\* J format: jal. The immediate is in four pieces, without its lowest bit.
JHolds(w, opcode, m) ==
    /\ Opcode(w) = opcode /\ Rd(w) = m.rd
    /\ Field(w, 31, 1) = (m.imm \div 1048576) % 2 /\ Field(w, 12, 8) = (m.imm \div 4096) % 256
    /\ Field(w, 20, 1) = (m.imm \div 2048) % 2 /\ Field(w, 21, 10) = (m.imm \div 2) % 1024

LEMMA JFields ==
    ASSUME NEW opcode \in Int, NEW m, opcode \in 0 .. 127,
           m.rd \in 0 .. 31, m.imm \in Int,
           NEW w, w = JFormat(opcode, m)
    PROVE  JHolds(w, opcode, m)
<1> DEFINE fields == {In(6, 0, opcode), In(11, 7, m.rd),
                      In(19, 12, m.imm \div 2 ^ 12), In(20, 20, m.imm \div 2 ^ 11),
                      In(30, 21, m.imm \div 2), In(31, 31, m.imm \div 2 ^ 20)}
<1>1. w = Pack(fields)
  BY DEF JFormat
<1>2. Apart(fields) /\ \A g \in fields : g.low \in Int /\ g.high \in Int
  BY DEF Apart, In
<1>3. /\ In(6, 0, opcode) \in fields
      /\ In(11, 7, m.rd) \in fields
      /\ In(19, 12, m.imm \div 2 ^ 12) \in fields
      /\ In(20, 20, m.imm \div 2 ^ 11) \in fields
      /\ In(30, 21, m.imm \div 2) \in fields
      /\ In(31, 31, m.imm \div 2 ^ 20) \in fields
  OBVIOUS
<1> HIDE DEF fields
<1>4. /\ Holds(w, 0, 6 - 0 + 1, opcode)
      /\ Holds(w, 7, 11 - 7 + 1, m.rd)
      /\ Holds(w, 12, 19 - 12 + 1, m.imm \div 2 ^ 12)
      /\ Holds(w, 20, 20 - 20 + 1, m.imm \div 2 ^ 11)
      /\ Holds(w, 21, 30 - 21 + 1, m.imm \div 2)
      /\ Holds(w, 31, 31 - 31 + 1, m.imm \div 2 ^ 20)
  BY <1>1, <1>2, <1>3, PackHolds
<1>5. /\ m.imm \div 2 ^ 12 \in Int /\ m.imm \div 2 ^ 11 \in Int
      /\ m.imm \div 2 \in Int /\ m.imm \div 2 ^ 20 \in Int
  OBVIOUS
<1>6. /\ Field(w, 0, 7) = opcode % TwoTo[7]
      /\ Field(w, 7, 5) = m.rd % TwoTo[5]
      /\ Field(w, 12, 8) = (m.imm \div 2 ^ 12) % TwoTo[8]
      /\ Field(w, 20, 1) = (m.imm \div 2 ^ 11) % TwoTo[1]
      /\ Field(w, 21, 10) = (m.imm \div 2) % TwoTo[10]
      /\ Field(w, 31, 1) = (m.imm \div 2 ^ 20) % TwoTo[1]
  BY <1>4, <1>5, FieldHolds
<1> QED
  BY <1>6, SmallValues, TwoToValues DEF JHolds, Opcode, Rd

\* In the register format bit 30 is one of funct7, and rs2 and funct7 make up a shift's immediate.
RHolds(w, opcode, funct3, funct7, m) ==
    /\ Opcode(w) = opcode /\ Rd(w) = m.rd /\ Funct3(w) = funct3
    /\ Rs1(w) = m.rs1 /\ Rs2(w) = m.rs2
    /\ AluSel(w) = IF funct7 = 32 THEN 1 ELSE 0
    /\ Field(w, 20, 12) = m.rs2 + 32 * funct7

LEMMA RFields ==
    ASSUME NEW opcode \in Int, NEW funct3 \in Int, NEW funct7 \in Int, NEW m,
           opcode \in 0 .. 127, funct3 \in 0 .. 7, funct7 \in {0, 32},
           m.rd \in 0 .. 31, m.rs1 \in 0 .. 31, m.rs2 \in 0 .. 31,
           NEW w, w = RFormat(opcode, funct3, funct7, m)
    PROVE  RHolds(w, opcode, funct3, funct7, m)
<1> DEFINE fields == {In(6, 0, opcode), In(11, 7, m.rd), In(14, 12, funct3),
                      In(19, 15, m.rs1), In(24, 20, m.rs2), In(31, 25, funct7)}
<1>1. w = Pack(fields)
  BY DEF RFormat
<1>2. Apart(fields) /\ \A g \in fields : g.low \in Int /\ g.high \in Int
  BY DEF Apart, In
<1>3. /\ In(6, 0, opcode) \in fields /\ In(11, 7, m.rd) \in fields
      /\ In(14, 12, funct3) \in fields /\ In(19, 15, m.rs1) \in fields
      /\ In(24, 20, m.rs2) \in fields /\ In(31, 25, funct7) \in fields
  OBVIOUS
<1> HIDE DEF fields
<1>4. /\ Holds(w, 0, 6 - 0 + 1, opcode) /\ Holds(w, 7, 11 - 7 + 1, m.rd)
      /\ Holds(w, 12, 14 - 12 + 1, funct3) /\ Holds(w, 15, 19 - 15 + 1, m.rs1)
      /\ Holds(w, 20, 24 - 20 + 1, m.rs2) /\ Holds(w, 25, 31 - 25 + 1, funct7)
  BY <1>1, <1>2, <1>3, PackHolds
<1>5. /\ Field(w, 0, 7) = opcode % TwoTo[7] /\ Field(w, 7, 5) = m.rd % TwoTo[5]
      /\ Field(w, 12, 3) = funct3 % TwoTo[3] /\ Field(w, 15, 5) = m.rs1 % TwoTo[5]
      /\ Field(w, 20, 5) = m.rs2 % TwoTo[5]
  BY <1>4, FieldHolds
<1>6. AluSel(w) = IF funct7 = 32 THEN 1 ELSE 0
  <2>1. w[30 + 0] = Bit(funct7, 5)
    <3>1. \A k \in 0 .. 6 : w[25 + k] = Bit(funct7, k)
      BY <1>4 DEF Holds
    <3>2. w[25 + 5] = Bit(funct7, 5)
      BY <3>1
    <3> QED BY <3>2
  <2>2. Bit(funct7, 5) = Bit(funct7 \div TwoTo[5], 0)
    <3>1. Bit(funct7, 5 + 0) = Bit(funct7 \div TwoTo[5], 0)
      BY BitOfQuotient
    <3> QED BY <3>1
  <2>3. Holds(w, 30, 1, funct7 \div TwoTo[5])
    BY <2>1, <2>2 DEF Holds
  <2>4. TwoTo[5] = 32 /\ TwoTo[1] = 2
    BY TwoToValues
  <2>5. funct7 \div TwoTo[5] = IF funct7 = 32 THEN 1 ELSE 0
    BY <2>4
  <2>6. Field(w, 30, 1) = (funct7 \div TwoTo[5]) % TwoTo[1]
    BY <2>3, <2>5, FieldHolds
  <2> QED BY <2>4, <2>5, <2>6 DEF AluSel
<1>7. Field(w, 20, 12) = m.rs2 + 32 * funct7
  <2> DEFINE v == m.rs2 + 32 * funct7
  <2>1. TwoTo[5] = 32 /\ TwoTo[12] = 4096
    BY TwoToValues
  <2>2. v \in Int /\ v % TwoTo[12] = v /\ v = m.rs2 + funct7 * TwoTo[5] /\ v \div TwoTo[5] = funct7
    BY <2>1
  <2>3. ASSUME NEW k \in 0 .. 11 PROVE w[20 + k] = Bit(v, k)
    <3>1. CASE k < 5
      <4>1. w[20 + k] = Bit(m.rs2, k)
        BY <1>4, <3>1 DEF Holds
      <4>2. Bit(m.rs2 + funct7 * TwoTo[5], k) = Bit(m.rs2, k)
        <5>1. \A a, b \in Int : Bit(a + b * TwoTo[5], k) = Bit(a, k)
          BY <3>1, BitOfMultiple
        <5> QED BY <5>1
      <4> QED BY <2>2, <4>1, <4>2
    <3>2. CASE k >= 5
      <4>1. k - 5 \in 0 .. 6 /\ 25 + (k - 5) = 20 + k /\ 5 + (k - 5) = k
        BY <3>2
      <4>2. \A j \in 0 .. 6 : w[25 + j] = Bit(funct7, j)
        BY <1>4 DEF Holds
      <4>3. w[20 + k] = Bit(funct7, k - 5)
        BY <4>1, <4>2
      <4> HIDE DEF v
      <4>4. \A j \in Nat : Bit(v \div TwoTo[5], j) = Bit(v, 5 + j)
        BY <2>2, BitOfQuotient
      <4>5. PICK j \in 0 .. 6 : j = k - 5
        BY <4>1
      <4>6. Bit(v \div TwoTo[5], j) = Bit(v, 5 + j) /\ 5 + j = k
        BY <4>1, <4>4, <4>5
      <4>7. Bit(funct7, k - 5) = Bit(v, k)
        BY <2>2, <4>5, <4>6
      <4> QED BY <4>3, <4>7
    <3> QED BY <3>1, <3>2
  <2> HIDE DEF v
  <2>4. Holds(w, 20, 12, v)
    BY <2>3 DEF Holds
  <2>5. Field(w, 20, 12) = v % TwoTo[12]
    BY <2>2, <2>4, FieldHolds
  <2> QED BY <2>2, <2>5 DEF v
<1> QED
  BY <1>5, <1>6, <1>7, SmallValues DEF RHolds, Opcode, Rd, Funct3, Rs1, Rs2

-----------------------------------------------------------------------------
\* SignExtend undoes the cutting off of the higher bits of a signed number.
LEMMA SignExtends ==
    ASSUME NEW sbit \in Nat, NEW v \in -TwoTo[sbit] .. TwoTo[sbit] - 1,
           NEW t, t = TwoTo[sbit + 1]
    PROVE  SignExtend(v % t, sbit) = Wrap(v)
<1> DEFINE p == TwoTo[sbit]
<1>1. p \in Nat \ {0} /\ t = 2 * p /\ v \in Int
  BY TwoToPositive, TwoToRecursion
<1>2. Modulus \in Nat \ {0}
  BY ModulusType
<1>3. CASE v >= 0
  <2>1. v % t = v
    BY <1>1, <1>3
  <2>2. Bit(v, sbit) = 0
    BY <1>1, <1>3, BitAbove
  <2>3. v + 0 * (Modulus - TwoTo[sbit + 1]) = v
    BY <1>1, <1>2
  <2> QED BY <2>1, <2>2, <2>3 DEF SignExtend
<1>4. CASE v < 0
  <2> DEFINE r == v + t
             a == v + p
             b == 1
  <2>1. v = t * (-1) + r /\ r \in 0 .. t - 1 /\ t \in Nat \ {0}
    BY <1>1, <1>4
  <2>2. v % t = r
    <3> DEFINE c == -1
    <3>1. c \in Int /\ v = t * c + r
      BY <2>1
    <3> HIDE DEF c, r
    <3> QED BY <1>1, <2>1, <3>1, DivisionUnique
  <2>3. a \in 0 .. p - 1 /\ b \in {0, 1} /\ r = a + b * p
    BY <1>1, <1>4
  <2>4. Bit(r, sbit) = 1
    <3> HIDE DEF a, b, r
    <3>1. Bit(a + b * TwoTo[sbit], sbit) = b
      BY <2>3, TopBit
    <3> QED BY <2>3, <3>1 DEF b
  <2>5. r + 1 * (Modulus - TwoTo[sbit + 1]) = v + Modulus * 1
    BY <1>1, <1>2
  <2>6. (v + Modulus * 1) % Modulus = v % Modulus
    <3>1. \A c \in Int : (v + Modulus * c) % Modulus = v % Modulus
      BY <1>1, <1>2, AddMultiple
    <3> QED BY <3>1
  <2> HIDE DEF r
  <2> QED BY <2>2, <2>4, <2>5, <2>6 DEF SignExtend, Wrap
<1> QED BY <1>1, <1>3, <1>4

LEMMA SignedImmediate ==
    ASSUME NEW size \in Nat \ {0}, NEW v, SignedImm(v, size)
    PROVE  v \in Int /\ SignExtend(v % TwoTo[size], size - 1) = Wrap(v)
<1> DEFINE sbit == size - 1
<1>1. sbit \in Nat /\ sbit + 1 = size /\ v \in -TwoTo[sbit] .. TwoTo[sbit] - 1
  BY DEF SignedImm
<1>2. TwoTo[sbit] \in Nat \ {0}
  BY <1>1, TwoToPositive
<1> HIDE DEF sbit
<1>3. SignExtend(v % TwoTo[sbit + 1], sbit) = Wrap(v)
  BY <1>1, SignExtends
<1> QED BY <1>1, <1>2, <1>3 DEF sbit

\* Put together again, the pieces of an immediate are its lowest bits.
LEMMA SImmediate ==
    ASSUME NEW v \in Int
    PROVE  ((v \div 32) % 128) * 32 + (v % 32) = v % TwoTo[12]
<1>1. TwoTo[12] = 4096
  BY TwoToValues
<1> QED BY <1>1

LEMMA BImmediate ==
    ASSUME NEW v \in Int, v % 2 = 0
    PROVE  ((v \div 4096) % 2) * 4096 + ((v \div 2048) % 2) * 2048
             + ((v \div 32) % 64) * 32 + ((v \div 2) % 16) * 2 = v % TwoTo[13]
<1>1. v % 32 = 2 * ((v \div 2) % 16) + (v % 2)
  OBVIOUS
<1>2. v % 2048 = 32 * ((v \div 32) % 64) + (v % 32)
  OBVIOUS
<1>3. v % 4096 = 2048 * ((v \div 2048) % 2) + (v % 2048)
  OBVIOUS
<1>4. v % 8192 = 4096 * ((v \div 4096) % 2) + (v % 4096)
  OBVIOUS
<1>5. TwoTo[13] = 8192
  BY TwoToValues
<1> QED BY <1>1, <1>2, <1>3, <1>4, <1>5

LEMMA JImmediate ==
    ASSUME NEW v \in Int, v % 2 = 0
    PROVE  ((v \div 1048576) % 2) * 1048576 + ((v \div 4096) % 256) * 4096
             + ((v \div 2048) % 2) * 2048 + ((v \div 2) % 1024) * 2 = v % TwoTo[21]
<1>1. v % 2048 = 2 * ((v \div 2) % 1024) + (v % 2)
  OBVIOUS
<1>2. v % 4096 = 2048 * ((v \div 2048) % 2) + (v % 2048)
  OBVIOUS
<1>3. v % 1048576 = 4096 * ((v \div 4096) % 256) + (v % 4096)
  OBVIOUS
<1>4. v % 2097152 = 1048576 * ((v \div 1048576) % 2) + (v % 1048576)
  OBVIOUS
<1>5. TwoTo[21] = 2097152
  BY TwoToValues
<1> QED BY <1>1, <1>2, <1>3, <1>4, <1>5

-----------------------------------------------------------------------------
\* DropDestination only looks at and only changes the destination.
LEMMA Dropped ==
    ASSUME NEW type, NEW brFunc, NEW aluFunc, NEW dst, NEW src1, NEW src2, NEW csr, NEW imm
    PROVE  DropDestination(Object(type, brFunc, aluFunc, dst, src1, src2, csr, imm))
             = Object(type, brFunc, aluFunc, IF dst = 0 THEN None ELSE dst,
                      src1, src2, csr, imm)
<1> DEFINE i == Object(type, brFunc, aluFunc, dst, src1, src2, csr, imm)
<1>1. i.dst = dst
  BY DEF Object
<1>2. [i EXCEPT !.dst = None] = Object(type, brFunc, aluFunc, None, src1, src2, csr, imm)
  BY DEF Object
<1> QED BY <1>1, <1>2 DEF DropDestination

(***************************************************************************)
(* The decoder fills in a fresh object field by field.                     *)
(***************************************************************************)
SetType(x, v) == [x EXCEPT !.type = v]
SetBrFunc(x, v) == [x EXCEPT !.brFunc = v]
SetAluFunc(x, v) == [x EXCEPT !.aluFunc = v]
SetDst(x, v) == [x EXCEPT !.dst = v]
SetSrc1(x, v) == [x EXCEPT !.src1 = v]
SetSrc2(x, v) == [x EXCEPT !.src2 = v]
SetCsr(x, v) == [x EXCEPT !.csr = v]
SetImm(x, v) == [x EXCEPT !.imm = v]

LEMMA FreshObject ==
    FreshInstruction = Object("Unsupported", "NT", "Add", None, None, None, None, None)
  BY DEF FreshInstruction, Object

LEMMA SetObject ==
    \A t, b, a, d, s, r, c, i, v :
        /\ SetType(Object(t, b, a, d, s, r, c, i), v) = Object(v, b, a, d, s, r, c, i)
        /\ SetBrFunc(Object(t, b, a, d, s, r, c, i), v) = Object(t, v, a, d, s, r, c, i)
        /\ SetAluFunc(Object(t, b, a, d, s, r, c, i), v) = Object(t, b, v, d, s, r, c, i)
        /\ SetDst(Object(t, b, a, d, s, r, c, i), v) = Object(t, b, a, v, s, r, c, i)
        /\ SetSrc1(Object(t, b, a, d, s, r, c, i), v) = Object(t, b, a, d, v, r, c, i)
        /\ SetSrc2(Object(t, b, a, d, s, r, c, i), v) = Object(t, b, a, d, s, v, c, i)
        /\ SetCsr(Object(t, b, a, d, s, r, c, i), v) = Object(t, b, a, d, s, r, v, i)
        /\ SetImm(Object(t, b, a, d, s, r, c, i), v) = Object(t, b, a, d, s, r, c, v)
<1> TAKE t, b, a, d, s, r, c, i, v
<1>1. SetType(Object(t, b, a, d, s, r, c, i), v) = Object(v, b, a, d, s, r, c, i)
  BY DEF SetType, Object
<1>2. SetBrFunc(Object(t, b, a, d, s, r, c, i), v) = Object(t, v, a, d, s, r, c, i)
  BY DEF SetBrFunc, Object
<1>3. SetAluFunc(Object(t, b, a, d, s, r, c, i), v) = Object(t, b, v, d, s, r, c, i)
  BY DEF SetAluFunc, Object
<1>4. SetDst(Object(t, b, a, d, s, r, c, i), v) = Object(t, b, a, v, s, r, c, i)
  BY DEF SetDst, Object
<1>5. SetSrc1(Object(t, b, a, d, s, r, c, i), v) = Object(t, b, a, d, v, r, c, i)
  BY DEF SetSrc1, Object
<1>6. SetSrc2(Object(t, b, a, d, s, r, c, i), v) = Object(t, b, a, d, s, v, c, i)
  BY DEF SetSrc2, Object
<1>7. SetCsr(Object(t, b, a, d, s, r, c, i), v) = Object(t, b, a, d, s, r, v, i)
  BY DEF SetCsr, Object
<1>8. SetImm(Object(t, b, a, d, s, r, c, i), v) = Object(t, b, a, d, s, r, c, v)
  BY DEF SetImm, Object
<1> QED BY <1>1, <1>2, <1>3, <1>4, <1>5, <1>6, <1>7, <1>8

\* What an instruction record may hold, by its operation.
LEMMA Immediates ==
    ASSUME NEW m, IsInstruction(m)
    PROVE  /\ m.op \in Ops /\ m.rd \in 0 .. 31 /\ m.rs1 \in 0 .. 31 /\ m.rs2 \in 0 .. 31
           /\ m.imm \in Int
           /\ m.op \in DOMAIN ImmediateOps \cup {"jalr", "lw", "sw"} => SignedImm(m.imm, 12)
           /\ m.op \in DOMAIN ShiftOps => m.imm \in 0 .. 31
           /\ m.op \in DOMAIN BranchOps => SignedImm(m.imm, 13) /\ m.imm % 2 = 0
           /\ m.op \in {"lui", "auipc"} => m.imm \in 0 .. TwoTo[20] - 1
           /\ m.op = "jal" => SignedImm(m.imm, 21) /\ m.imm % 2 = 0
           /\ m.op \in {"csrr", "csrw"} => m.imm \in 0 .. TwoTo[12] - 1
<1>1. /\ m.op \in Ops /\ m.rd \in 0 .. 31 /\ m.rs1 \in 0 .. 31 /\ m.rs2 \in 0 .. 31
      /\ m.imm \in Int /\ Fits(m.imm, m.op)
  BY DEF IsInstruction
<1> QED BY <1>1, OpDomains DEF Fits

LEMMA SmallRest ==
    ASSUME NEW n \in Nat, NEW v \in 0 .. TwoTo[n] - 1 PROVE v \in Int /\ v % TwoTo[n] = v
<1>1. TwoTo[n] \in Nat \ {0}
  BY TwoToPositive
<1> QED BY <1>1

\* One lemma for each class of operations.
LEMMA DecodeAuipc ==
    ASSUME NEW m, IsInstruction(m), m.op = "auipc" PROVE Decode(Encode(m)) = Meant(m)
<1> DEFINE w == Encode(m)
<1>1. w = UFormat(23, m)
  BY OpDomains DEF Encode
<1> HIDE DEF w
<1>2. UHolds(w, 23, m)
  <2>1. m.rd \in 0 .. 31 /\ m.rs1 \in 0 .. 31 /\ m.rs2 \in 0 .. 31 /\ m.imm \in Int
    BY Immediates
  <2> QED BY <1>1, <2>1, UFields
<1>3. ImmU(w) = ShiftLeft(m.imm, 12)
  <2>1. m.imm % TwoTo[20] = m.imm
    BY Immediates, SmallRest
  <2> QED BY <1>2, <2>1 DEF UHolds, ImmU
<1>4. DecodeOpcode(w)
        = SetImm(SetDst(SetType(FreshInstruction, "Auipc"), m.rd), ShiftLeft(m.imm, 12))
  BY <1>2, <1>3 DEF UHolds, DecodeOpcode, SetType, SetDst, SetImm
<1>5. DecodeOpcode(w)
        = Object("Auipc", "NT", "Add", m.rd, None, None, None, ShiftLeft(m.imm, 12))
  BY <1>4, FreshObject, SetObject
<1>6. /\ MeantType(m.op) = "Auipc" /\ MeantBrFunc(m.op) = "NT"
      /\ MeantAluFunc(m.op) = "Add" /\ MeantCsr(m) = None
      /\ MeantDst(m) = (IF m.rd = 0 THEN None ELSE m.rd)
      /\ MeantSrc1(m) = None /\ MeantSrc2(m) = None /\ MeantImm(m) = ShiftLeft(m.imm, 12)
  BY OpDomains DEF MeantType, MeantBrFunc, MeantSrc1, MeantSrc2, MeantImm, MeantDst,
                   MeantAluFunc, MeantCsr, ComputedOps
<1> QED
  BY <1>5, <1>6, Dropped DEF Decode, Meant, w

LEMMA DecodeLui ==
    ASSUME NEW m, IsInstruction(m), m.op = "lui" PROVE Decode(Encode(m)) = Meant(m)
<1> DEFINE w == Encode(m)
<1>1. w = UFormat(55, m)
  BY OpDomains DEF Encode
<1> HIDE DEF w
<1>2. UHolds(w, 55, m)
  <2>1. m.rd \in 0 .. 31 /\ m.rs1 \in 0 .. 31 /\ m.rs2 \in 0 .. 31 /\ m.imm \in Int
    BY Immediates
  <2> QED BY <1>1, <2>1, UFields
<1>3. ImmU(w) = ShiftLeft(m.imm, 12)
  <2>1. m.imm % TwoTo[20] = m.imm
    BY Immediates, SmallRest
  <2> QED BY <1>2, <2>1 DEF UHolds, ImmU
<1>4. DecodeOpcode(w)
        = SetImm(SetSrc1(SetDst(SetAluFunc(SetType(FreshInstruction, "Alu"), "Add"),
            m.rd), 0), ShiftLeft(m.imm, 12))
  BY <1>2, <1>3 DEF UHolds, DecodeOpcode, SetType, SetAluFunc, SetDst, SetSrc1, SetImm
<1>5. DecodeOpcode(w)
        = Object("Alu", "NT", "Add", m.rd, 0, None, None, ShiftLeft(m.imm, 12))
  BY <1>4, FreshObject, SetObject
<1>6. /\ MeantType(m.op) = "Alu" /\ MeantBrFunc(m.op) = "NT"
      /\ MeantAluFunc(m.op) = "Add" /\ MeantCsr(m) = None
      /\ MeantDst(m) = (IF m.rd = 0 THEN None ELSE m.rd)
      /\ MeantSrc1(m) = 0 /\ MeantSrc2(m) = None /\ MeantImm(m) = ShiftLeft(m.imm, 12)
  BY OpDomains DEF MeantType, MeantBrFunc, MeantSrc1, MeantSrc2, MeantImm, MeantDst,
                   MeantAluFunc, MeantCsr, ComputedOps
<1> QED
  BY <1>5, <1>6, Dropped DEF Decode, Meant, w

LEMMA DecodeJal ==
    ASSUME NEW m, IsInstruction(m), m.op = "jal" PROVE Decode(Encode(m)) = Meant(m)
<1> DEFINE w == Encode(m)
<1>1. w = JFormat(111, m)
  BY OpDomains DEF Encode
<1> HIDE DEF w
<1>2. JHolds(w, 111, m)
  <2>1. m.rd \in 0 .. 31 /\ m.rs1 \in 0 .. 31 /\ m.rs2 \in 0 .. 31 /\ m.imm \in Int
    BY Immediates
  <2> QED BY <1>1, <2>1, JFields
<1>3. ImmJ(w) = Wrap(m.imm)
  <2>1. SignedImm(m.imm, 21)
    BY Immediates
  <2>2. SignExtend(m.imm % TwoTo[21], 21 - 1) = Wrap(m.imm)
    BY <2>1, SignedImmediate
  <2>3. m.imm \in Int /\ m.imm % 2 = 0
    BY Immediates
  <2>4. ImmJ(w) = SignExtend(m.imm % TwoTo[21], 20)
    BY <1>2, <2>3, JImmediate DEF JHolds, ImmJ
  <2> QED BY <2>2, <2>4
<1>4. DecodeOpcode(w)
        = SetImm(SetDst(SetBrFunc(SetType(FreshInstruction, "J"), "AT"), m.rd), Wrap(m.imm))
  BY <1>2, <1>3 DEF JHolds, DecodeOpcode, SetType, SetBrFunc, SetDst, SetImm
<1>5. DecodeOpcode(w)
        = Object("J", "AT", "Add", m.rd, None, None, None, Wrap(m.imm))
  BY <1>4, FreshObject, SetObject
<1>6. /\ MeantType(m.op) = "J" /\ MeantBrFunc(m.op) = "AT"
      /\ MeantAluFunc(m.op) = "Add" /\ MeantCsr(m) = None
      /\ MeantDst(m) = (IF m.rd = 0 THEN None ELSE m.rd)
      /\ MeantSrc1(m) = None /\ MeantSrc2(m) = None /\ MeantImm(m) = Wrap(m.imm)
  BY OpDomains DEF MeantType, MeantBrFunc, MeantSrc1, MeantSrc2, MeantImm, MeantDst,
                   MeantAluFunc, MeantCsr, ComputedOps
<1> QED
  BY <1>5, <1>6, Dropped DEF Decode, Meant, w

LEMMA DecodeJalr ==
    ASSUME NEW m, IsInstruction(m), m.op = "jalr" PROVE Decode(Encode(m)) = Meant(m)
<1> DEFINE w == Encode(m)
<1>1. w = IFormat(103, 0, m)
  BY OpDomains DEF Encode
<1> HIDE DEF w
<1>2. IHolds(w, 103, 0, m)
  <2>1. m.rd \in 0 .. 31 /\ m.rs1 \in 0 .. 31 /\ m.rs2 \in 0 .. 31 /\ m.imm \in Int
    BY Immediates
  <2> QED BY <1>1, <2>1, IFields
<1>3. ImmI(w) = Wrap(m.imm)
  <2>1. SignedImm(m.imm, 12)
    BY Immediates
  <2>2. SignExtend(m.imm % TwoTo[12], 12 - 1) = Wrap(m.imm)
    BY <2>1, SignedImmediate
  <2> QED BY <1>2, <2>2 DEF IHolds, ImmI
<1>4. DecodeOpcode(w)
        = SetImm(SetSrc1(SetDst(SetBrFunc(SetType(FreshInstruction, "Jr"), "AT"), m.rd),
            m.rs1), Wrap(m.imm))
  BY <1>2, <1>3 DEF IHolds, DecodeOpcode, SetType, SetBrFunc, SetDst, SetSrc1, SetImm
<1>5. DecodeOpcode(w)
        = Object("Jr", "AT", "Add", m.rd, m.rs1, None, None, Wrap(m.imm))
  BY <1>4, FreshObject, SetObject
<1>6. /\ MeantType(m.op) = "Jr" /\ MeantBrFunc(m.op) = "AT"
      /\ MeantAluFunc(m.op) = "Add" /\ MeantCsr(m) = None
      /\ MeantDst(m) = (IF m.rd = 0 THEN None ELSE m.rd)
      /\ MeantSrc1(m) = m.rs1 /\ MeantSrc2(m) = None /\ MeantImm(m) = Wrap(m.imm)
  BY OpDomains DEF MeantType, MeantBrFunc, MeantSrc1, MeantSrc2, MeantImm, MeantDst,
                   MeantAluFunc, MeantCsr, ComputedOps
<1> QED
  BY <1>5, <1>6, Dropped DEF Decode, Meant, w

LEMMA DecodeLw ==
    ASSUME NEW m, IsInstruction(m), m.op = "lw" PROVE Decode(Encode(m)) = Meant(m)
<1> DEFINE w == Encode(m)
<1>1. w = IFormat(3, 2, m)
  BY OpDomains DEF Encode
<1> HIDE DEF w
<1>2. IHolds(w, 3, 2, m)
  <2>1. m.rd \in 0 .. 31 /\ m.rs1 \in 0 .. 31 /\ m.rs2 \in 0 .. 31 /\ m.imm \in Int
    BY Immediates
  <2> QED BY <1>1, <2>1, IFields
<1>3. ImmI(w) = Wrap(m.imm)
  <2>1. SignedImm(m.imm, 12)
    BY Immediates
  <2>2. SignExtend(m.imm % TwoTo[12], 12 - 1) = Wrap(m.imm)
    BY <2>1, SignedImmediate
  <2> QED BY <1>2, <2>2 DEF IHolds, ImmI
<1>4. DecodeOpcode(w)
        = SetImm(SetSrc1(SetDst(SetAluFunc(SetType(FreshInstruction, "Ld"), "Add"), m.rd),
            m.rs1), Wrap(m.imm))
  BY <1>2, <1>3 DEF IHolds, DecodeOpcode, SetType, SetAluFunc, SetDst, SetSrc1, SetImm
<1>5. DecodeOpcode(w)
        = Object("Ld", "NT", "Add", m.rd, m.rs1, None, None, Wrap(m.imm))
  BY <1>4, FreshObject, SetObject
<1>6. /\ MeantType(m.op) = "Ld" /\ MeantBrFunc(m.op) = "NT"
      /\ MeantAluFunc(m.op) = "Add" /\ MeantCsr(m) = None
      /\ MeantDst(m) = (IF m.rd = 0 THEN None ELSE m.rd)
      /\ MeantSrc1(m) = m.rs1 /\ MeantSrc2(m) = None /\ MeantImm(m) = Wrap(m.imm)
  BY OpDomains DEF MeantType, MeantBrFunc, MeantSrc1, MeantSrc2, MeantImm, MeantDst,
                   MeantAluFunc, MeantCsr, ComputedOps
<1> QED
  BY <1>5, <1>6, Dropped DEF Decode, Meant, w

LEMMA DecodeSw ==
    ASSUME NEW m, IsInstruction(m), m.op = "sw" PROVE Decode(Encode(m)) = Meant(m)
<1> DEFINE w == Encode(m)
<1>1. w = SFormat(35, 2, m)
  BY OpDomains DEF Encode
<1> HIDE DEF w
<1>2. SHolds(w, 35, 2, m)
  <2>1. m.rd \in 0 .. 31 /\ m.rs1 \in 0 .. 31 /\ m.rs2 \in 0 .. 31 /\ m.imm \in Int
    BY Immediates
  <2> QED BY <1>1, <2>1, SFields
<1>3. ImmS(w) = Wrap(m.imm)
  <2>1. SignedImm(m.imm, 12)
    BY Immediates
  <2>2. SignExtend(m.imm % TwoTo[12], 12 - 1) = Wrap(m.imm)
    BY <2>1, SignedImmediate
  <2>3. ((m.imm \div 32) % 128) * 32 + (m.imm % 32) = m.imm % TwoTo[12]
    BY Immediates, SImmediate
  <2>4. Field(w, 25, 7) * 2 ^ 5 + Field(w, 7, 5) = m.imm % TwoTo[12]
    BY <1>2, <2>3 DEF SHolds
  <2> QED BY <2>2, <2>4 DEF ImmS
<1>4. DecodeOpcode(w)
        = SetImm(SetSrc2(SetSrc1(SetAluFunc(SetType(FreshInstruction, "St"), "Add"),
            m.rs1), m.rs2), Wrap(m.imm))
  BY <1>2, <1>3 DEF SHolds, DecodeOpcode, SetType, SetAluFunc, SetSrc1, SetSrc2, SetImm
<1>5. DecodeOpcode(w)
        = Object("St", "NT", "Add", None, m.rs1, m.rs2, None, Wrap(m.imm))
  BY <1>4, FreshObject, SetObject
<1>6. /\ MeantType(m.op) = "St" /\ MeantBrFunc(m.op) = "NT"
      /\ MeantAluFunc(m.op) = "Add" /\ MeantCsr(m) = None
      /\ MeantDst(m) = None
      /\ MeantSrc1(m) = m.rs1 /\ MeantSrc2(m) = m.rs2 /\ MeantImm(m) = Wrap(m.imm)
  BY OpDomains DEF MeantType, MeantBrFunc, MeantSrc1, MeantSrc2, MeantImm, MeantDst,
                   MeantAluFunc, MeantCsr, ComputedOps
<1> QED
  BY <1>5, <1>6, Dropped DEF Decode, Meant, w

LEMMA DecodeImmediateOp ==
    ASSUME NEW m, IsInstruction(m), m.op \in DOMAIN ImmediateOps
    PROVE  Decode(Encode(m)) = Meant(m)
<1> DEFINE w == Encode(m)
           f == ImmediateOps[m.op]
<1>1. w = IFormat(19, f, m)
  BY OpDomains DEF Encode
<1>2. f \in 0 .. 7 /\ f # 5 /\ f \in Int /\ Arithmetic[f] = AluFuncOf(m.op)
  BY OpDomains DEF ImmediateOps, Arithmetic, AluFuncOf
<1> HIDE DEF w, f
<1>3. IHolds(w, 19, f, m)
  <2>1. m.rd \in 0 .. 31 /\ m.rs1 \in 0 .. 31 /\ m.imm \in Int
    BY Immediates
  <2> QED BY <1>1, <1>2, <2>1, IFields
<1>4. ImmI(w) = Wrap(m.imm)
  <2>1. SignedImm(m.imm, 12)
    BY Immediates
  <2>2. SignExtend(m.imm % TwoTo[12], 12 - 1) = Wrap(m.imm)
    BY <2>1, SignedImmediate
  <2> QED BY <1>3, <2>2 DEF IHolds, ImmI
<1>5. DecodeOpcode(w)
        = SetSrc1(SetDst(SetImm(SetAluFunc(SetType(FreshInstruction, "Alu"),
                                           AluFuncOf(m.op)), Wrap(m.imm)), m.rd), m.rs1)
  <2>1. Opcode(w) = 19 /\ Rd(w) = m.rd /\ Funct3(w) = f /\ Rs1(w) = m.rs1
    BY <1>3 DEF IHolds
  <2>2. ~IsSr(w) /\ Arithmetic[Funct3(w)] = AluFuncOf(m.op)
    BY <1>2, <2>1 DEF IsSr
  <2>3. DecodeOpcode(w) = DecodeOpImm(w)
    BY <2>1 DEF DecodeOpcode
  <2>4. DecodeOpImm(w)
          = SetSrc1(SetDst(SetImm(SetAluFunc(SetType(FreshInstruction, "Alu"),
                                             Arithmetic[Funct3(w)]), ImmI(w)), Rd(w)), Rs1(w))
    BY <2>2 DEF DecodeOpImm, SetType, SetAluFunc, SetImm, SetDst, SetSrc1
  <2> QED BY <1>4, <2>1, <2>2, <2>3, <2>4
<1>6. DecodeOpcode(w)
        = Object("Alu", "NT", AluFuncOf(m.op), m.rd, m.rs1, None, None, Wrap(m.imm))
  BY <1>5, FreshObject, SetObject
<1>7. /\ MeantType(m.op) = "Alu" /\ MeantBrFunc(m.op) = "NT"
      /\ MeantAluFunc(m.op) = AluFuncOf(m.op)
      /\ MeantDst(m) = (IF m.rd = 0 THEN None ELSE m.rd)
      /\ MeantSrc1(m) = m.rs1 /\ MeantSrc2(m) = None /\ MeantImm(m) = Wrap(m.imm)
      /\ MeantCsr(m) = None
  BY OpDomains DEF MeantType, MeantBrFunc, MeantSrc1, MeantSrc2, MeantImm, MeantDst,
                   MeantAluFunc, MeantCsr, ComputedOps
<1> QED
  BY <1>6, <1>7, Dropped DEF Decode, Meant, w

LEMMA DecodeShiftOp ==
    ASSUME NEW m, IsInstruction(m), m.op \in DOMAIN ShiftOps
    PROVE  Decode(Encode(m)) = Meant(m)
<1> DEFINE w == Encode(m)
           f == ShiftOps[m.op][1]
           g == ShiftOps[m.op][2]
           n == [m EXCEPT !.rs2 = m.imm]
<1>1. w = RFormat(19, f, g, n)
  BY OpDomains DEF Encode
<1>2. /\ f \in {1, 5} /\ f \in Int /\ g \in {0, 32} /\ g \in Int /\ (f = 1 => g = 0)
      /\ AluFuncOf(m.op) = IF f = 5 /\ g = 32 THEN "Sra" ELSE Arithmetic[f]
  BY OpDomains DEF ShiftOps, Arithmetic, AluFuncOf
<1>3. /\ m.rd \in 0 .. 31 /\ m.rs1 \in 0 .. 31 /\ m.imm \in 0 .. 31
      /\ n.rd = m.rd /\ n.rs1 = m.rs1 /\ n.rs2 = m.imm
  BY Immediates DEF IsInstruction
<1> HIDE DEF w, f, g, n
<1>4. RHolds(w, 19, f, g, n)
  <2>1. f \in Int /\ f \in 0 .. 7 /\ g \in Int /\ g \in {0, 32}
    BY <1>2
  <2>2. n.rd \in 0 .. 31 /\ n.rs1 \in 0 .. 31 /\ n.rs2 \in 0 .. 31
    BY <1>3
  <2>3. 19 \in Int /\ 19 \in 0 .. 127
    OBVIOUS
  <2> QED BY ONLY <1>1, <2>1, <2>2, <2>3, RFields
<1>5. ImmI(w) % 32 = m.imm /\ (f = 1 => ImmI(w) = m.imm)
  <2> DEFINE v == m.imm + 32 * g
  <2>1. v \in Int /\ 0 <= v /\ v < 2048 /\ v % 32 = m.imm /\ (f = 1 => v = m.imm)
    BY <1>2, <1>3
  <2>2. Field(w, 20, 12) = v
    BY <1>3, <1>4 DEF RHolds
  <2> HIDE DEF v
  <2>3. TwoTo[11] = 2048 /\ TwoTo[12] = 4096
    BY TwoToValues
  <2>4. SignedImm(v, 12) /\ v % TwoTo[12] = v
    <3>1. 12 - 1 = 11
      OBVIOUS
    <3> QED BY <2>1, <2>3, <3>1 DEF SignedImm
  <2>5. SignExtend(v % TwoTo[12], 12 - 1) = Wrap(v)
    BY <2>4, SignedImmediate
  <2>6. Wrap(v) = v
    <3>1. 12 \in Nat /\ WordBits \in Nat /\ 12 <= WordBits
      BY WidthAssumption, DecoderAssumption
    <3>2. TwoTo[12] <= TwoTo[WordBits]
      BY <3>1, TwoToMonotone
    <3>3. v \in WordSet
      BY <2>1, <2>3, <3>2, ModulusType DEF WordSet, Modulus
    <3> QED BY <3>3, WordUnwrapped
  <2> QED BY <2>1, <2>2, <2>4, <2>5, <2>6 DEF ImmI
<1>6. DecodeOpcode(w)
        = SetSrc1(SetDst(SetImm(SetAluFunc(SetType(FreshInstruction, "Alu"),
                                           AluFuncOf(m.op)), m.imm), m.rd), m.rs1)
  <2> DEFINE func == IF IsSr(w) /\ AluSel(w) = 1 THEN "Sra" ELSE Arithmetic[Funct3(w)]
             imm  == IF IsSr(w) THEN ImmI(w) % 32 ELSE ImmI(w)
  <2>1. /\ Opcode(w) = 19 /\ Rd(w) = m.rd /\ Funct3(w) = f /\ Rs1(w) = m.rs1
        /\ AluSel(w) = IF g = 32 THEN 1 ELSE 0
    BY <1>3, <1>4 DEF RHolds
  <2>2. func = AluFuncOf(m.op)
    BY <1>2, <2>1 DEF IsSr
  <2>3. DecodeOpcode(w) = DecodeOpImm(w)
    BY <2>1 DEF DecodeOpcode
  <2>4. DecodeOpImm(w)
          = SetSrc1(SetDst(SetImm(SetAluFunc(SetType(FreshInstruction, "Alu"), func), imm),
                           Rd(w)), Rs1(w))
    BY DEF DecodeOpImm, SetType, SetAluFunc, SetImm, SetDst, SetSrc1
  <2>5. imm = m.imm
    BY <1>2, <1>5, <2>1 DEF IsSr
  <2> HIDE DEF func, imm
  <2> QED BY <2>1, <2>2, <2>3, <2>4, <2>5
<1>7. DecodeOpcode(w)
        = Object("Alu", "NT", AluFuncOf(m.op), m.rd, m.rs1, None, None, m.imm)
  BY <1>6, FreshObject, SetObject
<1>8. /\ MeantType(m.op) = "Alu" /\ MeantBrFunc(m.op) = "NT"
      /\ MeantAluFunc(m.op) = AluFuncOf(m.op)
      /\ MeantDst(m) = (IF m.rd = 0 THEN None ELSE m.rd)
      /\ MeantSrc1(m) = m.rs1 /\ MeantSrc2(m) = None /\ MeantImm(m) = m.imm
      /\ MeantCsr(m) = None
  BY OpDomains DEF MeantType, MeantBrFunc, MeantSrc1, MeantSrc2, MeantImm, MeantDst,
                   MeantAluFunc, MeantCsr, ComputedOps
<1> QED
  BY <1>7, <1>8, Dropped DEF Decode, Meant, w

LEMMA DecodeRegisterOp ==
    ASSUME NEW m, IsInstruction(m), m.op \in DOMAIN RegisterOps
    PROVE  Decode(Encode(m)) = Meant(m)
<1> DEFINE w == Encode(m)
           f == RegisterOps[m.op][1]
           g == RegisterOps[m.op][2]
<1>1. w = RFormat(51, f, g, m)
  BY OpDomains DEF Encode
<1>2. /\ f \in 0 .. 7 /\ f \in Int /\ g \in {0, 32} /\ g \in Int
      /\ AluFuncOf(m.op) = IF g = 0 \/ f \notin {0, 5} THEN Arithmetic[f]
                           ELSE IF f = 5 THEN "Sra" ELSE "Sub"
  BY OpDomains DEF RegisterOps, Arithmetic, AluFuncOf
<1> HIDE DEF w, f, g
<1>3. RHolds(w, 51, f, g, m)
  <2>1. m.rd \in 0 .. 31 /\ m.rs1 \in 0 .. 31 /\ m.rs2 \in 0 .. 31
    BY Immediates
  <2> QED BY <1>1, <1>2, <2>1, RFields
<1>4. DecodeOpcode(w)
        = SetSrc2(SetSrc1(SetDst(SetAluFunc(SetType(FreshInstruction, "Alu"),
                                            AluFuncOf(m.op)), m.rd), m.rs1), m.rs2)
  <2> DEFINE func == IF AluSel(w) = 0 \/ Funct3(w) \notin {0, 5}
                     THEN Arithmetic[Funct3(w)]
                     ELSE IF IsSr(w) THEN "Sra" ELSE "Sub"
  <2>1. /\ Opcode(w) = 51 /\ Rd(w) = m.rd /\ Funct3(w) = f /\ Rs1(w) = m.rs1
        /\ Rs2(w) = m.rs2 /\ AluSel(w) = IF g = 32 THEN 1 ELSE 0
    BY <1>3 DEF RHolds
  <2>2. func = AluFuncOf(m.op)
    BY <1>2, <2>1 DEF IsSr
  <2>3. DecodeOpcode(w) = DecodeOp(w)
    BY <2>1 DEF DecodeOpcode
  <2>4. DecodeOp(w)
          = SetSrc2(SetSrc1(SetDst(SetAluFunc(SetType(FreshInstruction, "Alu"), func),
                                   Rd(w)), Rs1(w)), Rs2(w))
    BY DEF DecodeOp, SetType, SetAluFunc, SetDst, SetSrc1, SetSrc2
  <2> HIDE DEF func
  <2> QED BY <2>1, <2>2, <2>3, <2>4
<1>5. DecodeOpcode(w)
        = Object("Alu", "NT", AluFuncOf(m.op), m.rd, m.rs1, m.rs2, None, None)
  BY <1>4, FreshObject, SetObject
<1>6. /\ MeantType(m.op) = "Alu" /\ MeantBrFunc(m.op) = "NT"
      /\ MeantAluFunc(m.op) = AluFuncOf(m.op)
      /\ MeantDst(m) = (IF m.rd = 0 THEN None ELSE m.rd)
      /\ MeantSrc1(m) = m.rs1 /\ MeantSrc2(m) = m.rs2 /\ MeantImm(m) = None
      /\ MeantCsr(m) = None
  BY OpDomains DEF MeantType, MeantBrFunc, MeantSrc1, MeantSrc2, MeantImm, MeantDst,
                   MeantAluFunc, MeantCsr, ComputedOps
<1> QED
  BY <1>5, <1>6, Dropped DEF Decode, Meant, w

LEMMA DecodeBranch ==
    ASSUME NEW m, IsInstruction(m), m.op \in DOMAIN BranchOps
    PROVE  Decode(Encode(m)) = Meant(m)
<1> DEFINE w == Encode(m)
           f == BranchOps[m.op]
<1>1. w = BFormat(99, f, m)
  BY OpDomains DEF Encode
<1>2. f \in 0 .. 7 /\ f \in Int /\ Branching[f] = BrFuncOf(m.op)
  BY OpDomains DEF BranchOps, Branching, BrFuncOf
<1> HIDE DEF w, f
<1>3. BHolds(w, 99, f, m)
  <2>1. m.rs1 \in 0 .. 31 /\ m.rs2 \in 0 .. 31 /\ m.imm \in Int
    BY Immediates
  <2> QED BY <1>1, <1>2, <2>1, BFields
<1>4. ImmB(w) = Wrap(m.imm)
  <2>1. SignedImm(m.imm, 13) /\ m.imm \in Int /\ m.imm % 2 = 0
    BY Immediates
  <2>2. SignExtend(m.imm % TwoTo[13], 13 - 1) = Wrap(m.imm)
    BY <2>1, SignedImmediate
  <2>3. ImmB(w) = SignExtend(m.imm % TwoTo[13], 12)
    BY <1>3, <2>1, BImmediate DEF BHolds, ImmB
  <2> QED BY <2>2, <2>3
<1>5. DecodeOpcode(w)
        = SetImm(SetSrc2(SetSrc1(SetBrFunc(SetType(FreshInstruction, "Br"),
                                           BrFuncOf(m.op)), m.rs1), m.rs2), Wrap(m.imm))
  <2>1. Opcode(w) = 99 /\ Funct3(w) = f /\ Rs1(w) = m.rs1 /\ Rs2(w) = m.rs2
    BY <1>3 DEF BHolds
  <2>2. DecodeOpcode(w)
          = SetImm(SetSrc2(SetSrc1(SetBrFunc(SetType(FreshInstruction, "Br"),
                                             Branching[Funct3(w)]), Rs1(w)), Rs2(w)), ImmB(w))
    BY <2>1 DEF DecodeOpcode, SetType, SetBrFunc, SetSrc1, SetSrc2, SetImm
  <2>3. Branching[Funct3(w)] = BrFuncOf(m.op)
    BY <1>2, <2>1
  <2> QED BY <1>4, <2>1, <2>2, <2>3
<1>6. DecodeOpcode(w)
        = Object("Br", BrFuncOf(m.op), "Add", None, m.rs1, m.rs2, None, Wrap(m.imm))
  BY <1>5, FreshObject, SetObject
<1>7. /\ MeantType(m.op) = "Br" /\ MeantBrFunc(m.op) = BrFuncOf(m.op)
      /\ MeantAluFunc(m.op) = "Add"
      /\ MeantDst(m) = None
      /\ MeantSrc1(m) = m.rs1 /\ MeantSrc2(m) = m.rs2 /\ MeantImm(m) = Wrap(m.imm)
      /\ MeantCsr(m) = None
  BY OpDomains DEF MeantType, MeantBrFunc, MeantSrc1, MeantSrc2, MeantImm, MeantDst,
                   MeantAluFunc, MeantCsr, ComputedOps
<1> QED
  BY <1>6, <1>7, Dropped DEF Decode, Meant, w

LEMMA DecodeCsrr ==
    ASSUME NEW m, IsInstruction(m), m.op = "csrr" PROVE Decode(Encode(m)) = Meant(m)
<1> DEFINE w == Encode(m)
           n == [m EXCEPT !.rs1 = 0]
<1>1. w = IFormat(115, 2, n)
  BY OpDomains DEF Encode
<1>2. /\ m.rd \in 0 .. 31 /\ m.rs1 \in 0 .. 31 /\ m.imm \in Int
      /\ n.rd = m.rd /\ n.rs1 = 0 /\ n.imm = m.imm
  BY Immediates DEF IsInstruction
<1> HIDE DEF w, n
<1>3. IHolds(w, 115, 2, n)
  BY <1>1, <1>2, IFields
<1>4. n.imm % TwoTo[12] = m.imm
  BY <1>2, Immediates, SmallRest
<1>5. DecodeOpcode(w)
        = SetCsr(SetSrc1(SetDst(SetType(FreshInstruction, "Csrr"), m.rd), 0), m.imm)
  <2> DEFINE type == IF Funct3(w) = 1 /\ Rd(w) = 0 THEN "Csrw"
                     ELSE IF Funct3(w) = 2 /\ Rs1(w) = 0 THEN "Csrr"
                     ELSE "Unsupported"
  <2>1. /\ Opcode(w) = 115 /\ Rd(w) = m.rd /\ Funct3(w) = 2 /\ Rs1(w) = 0
        /\ Field(w, 20, 12) = m.imm
    BY <1>2, <1>3, <1>4 DEF IHolds
  <2>2. type = "Csrr"
    BY <2>1
  <2>3. DecodeOpcode(w) = DecodeSystem(w)
    BY <2>1 DEF DecodeOpcode
  <2>4. DecodeSystem(w)
          = SetCsr(SetSrc1(SetDst(SetType(FreshInstruction, type), Rd(w)), Rs1(w)),
                   Field(w, 20, 12))
    BY DEF DecodeSystem, CsrNumber, SetType, SetDst, SetSrc1, SetCsr
  <2> HIDE DEF type
  <2> QED BY <2>1, <2>2, <2>3, <2>4
<1>6. DecodeOpcode(w)
        = Object("Csrr", "NT", "Add", m.rd, 0, None, m.imm, None)
  BY <1>5, FreshObject, SetObject
<1>7. /\ MeantType(m.op) = "Csrr" /\ MeantBrFunc(m.op) = "NT"
      /\ MeantAluFunc(m.op) = "Add"
      /\ MeantDst(m) = (IF m.rd = 0 THEN None ELSE m.rd)
      /\ MeantSrc1(m) = 0 /\ MeantSrc2(m) = None /\ MeantImm(m) = None
      /\ MeantCsr(m) = m.imm
  BY OpDomains DEF MeantType, MeantBrFunc, MeantSrc1, MeantSrc2, MeantImm, MeantDst,
                   MeantAluFunc, MeantCsr, ComputedOps
<1> QED
  BY <1>6, <1>7, Dropped DEF Decode, Meant, w

LEMMA DecodeCsrw ==
    ASSUME NEW m, IsInstruction(m), m.op = "csrw" PROVE Decode(Encode(m)) = Meant(m)
<1> DEFINE w == Encode(m)
           n == [m EXCEPT !.rd = 0]
<1>1. w = IFormat(115, 1, n)
  BY OpDomains DEF Encode
<1>2. /\ m.rd \in 0 .. 31 /\ m.rs1 \in 0 .. 31 /\ m.imm \in Int
      /\ n.rd = 0 /\ n.rs1 = m.rs1 /\ n.imm = m.imm
  BY Immediates DEF IsInstruction
<1> HIDE DEF w, n
<1>3. IHolds(w, 115, 1, n)
  BY <1>1, <1>2, IFields
<1>4. n.imm % TwoTo[12] = m.imm
  BY <1>2, Immediates, SmallRest
<1>5. DecodeOpcode(w)
        = SetCsr(SetSrc1(SetDst(SetType(FreshInstruction, "Csrw"), 0), m.rs1), m.imm)
  <2> DEFINE type == IF Funct3(w) = 1 /\ Rd(w) = 0 THEN "Csrw"
                     ELSE IF Funct3(w) = 2 /\ Rs1(w) = 0 THEN "Csrr"
                     ELSE "Unsupported"
  <2>1. /\ Opcode(w) = 115 /\ Rd(w) = 0 /\ Funct3(w) = 1 /\ Rs1(w) = m.rs1
        /\ Field(w, 20, 12) = m.imm
    BY <1>2, <1>3, <1>4 DEF IHolds
  <2>2. type = "Csrw"
    BY <2>1
  <2>3. DecodeOpcode(w) = DecodeSystem(w)
    BY <2>1 DEF DecodeOpcode
  <2>4. DecodeSystem(w)
          = SetCsr(SetSrc1(SetDst(SetType(FreshInstruction, type), Rd(w)), Rs1(w)),
                   Field(w, 20, 12))
    BY DEF DecodeSystem, CsrNumber, SetType, SetDst, SetSrc1, SetCsr
  <2> HIDE DEF type
  <2> QED BY <2>1, <2>2, <2>3, <2>4
<1>6. DecodeOpcode(w)
        = Object("Csrw", "NT", "Add", 0, m.rs1, None, m.imm, None)
  BY <1>5, FreshObject, SetObject
<1>7. /\ MeantType(m.op) = "Csrw" /\ MeantBrFunc(m.op) = "NT"
      /\ MeantAluFunc(m.op) = "Add"
      /\ MeantDst(m) = None
      /\ MeantSrc1(m) = m.rs1 /\ MeantSrc2(m) = None /\ MeantImm(m) = None
      /\ MeantCsr(m) = m.imm
  BY OpDomains DEF MeantType, MeantBrFunc, MeantSrc1, MeantSrc2, MeantImm, MeantDst,
                   MeantAluFunc, MeantCsr, ComputedOps
<1> QED
  BY <1>6, <1>7, Dropped DEF Decode, Meant, w

(***************************************************************************)
(* Decode undoes Encode: whatever the format, the pieces its immediate is  *)
(* cut into and the sign, the instruction object is what was written.      *)
(***************************************************************************)
THEOREM DecodeInvertsEncode ==
    ASSUME NEW m, IsInstruction(m) PROVE Decode(Encode(m)) = Meant(m)
<1>1. m.op \in Ops
  BY DEF IsInstruction
<1> QED
  BY <1>1, DecodeAuipc, DecodeLui, DecodeJal, DecodeJalr, DecodeLw, DecodeSw, DecodeCsrr,
     DecodeCsrw, DecodeBranch, DecodeImmediateOp, DecodeShiftOp, DecodeRegisterOp
     DEF Ops

-----------------------------------------------------------------------------
(***************************************************************************)
(* The stages.  First that what is meant is an instruction object.         *)
(***************************************************************************)
LEMMA SmallWords == 0 .. 31 \subseteq WordSet /\ 0 .. TwoTo[20] - 1 \subseteq WordSet
<1>1. WordBits \in Nat /\ 5 <= WordBits /\ 20 <= WordBits
  BY WidthAssumption, DecoderAssumption
<1>2. TwoTo[5] <= Modulus /\ TwoTo[20] <= Modulus
  BY <1>1, TwoToMonotone DEF Modulus
<1>3. TwoTo[5] = 32 /\ TwoTo[20] \in Nat /\ Modulus \in Nat
  BY TwoToValues, TwoToPositive, ModulusType
<1> QED BY <1>2, <1>3 DEF WordSet

LEMMA MeantFields ==
    ASSUME NEW m, IsInstruction(m)
    PROVE  /\ MeantType(m.op) \in IType \ {"Unsupported"}
           /\ MeantBrFunc(m.op) \in BrFunc /\ MeantAluFunc(m.op) \in AluFunc
           /\ MeantDst(m) \in None .. 31 /\ MeantSrc1(m) \in None .. 31
           /\ MeantSrc2(m) \in None .. 31 /\ MeantCsr(m) \in None .. 4095
           /\ MeantImm(m) \in None .. Modulus - 1
<1>1. /\ m.op \in Ops /\ m.imm \in Int
      /\ m.rd \in None .. 31 /\ m.rs1 \in None .. 31 /\ m.rs2 \in None .. 31
      /\ 0 \in None .. 31 /\ None \in None .. 31 /\ None \in None .. 4095
  BY Immediates DEF None
<1>2. MeantType(m.op) \in IType \ {"Unsupported"} /\ MeantBrFunc(m.op) \in BrFunc
  BY <1>1, OpDomains
     DEF Ops, MeantType, MeantBrFunc, BrFuncOf, ComputedOps, IType, BrFunc
<1>3. MeantAluFunc(m.op) \in AluFunc
  BY OpDomains DEF MeantAluFunc, AluFuncOf, ComputedOps, AluFunc
<1>4. /\ MeantDst(m) \in None .. 31 /\ MeantSrc1(m) \in None .. 31
      /\ MeantSrc2(m) \in None .. 31
  BY <1>1 DEF MeantDst, MeantSrc1, MeantSrc2
<1>5. MeantCsr(m) \in None .. 4095
  <2>1. TwoTo[12] = 4096
    BY TwoToValues
  <2>2. m.op \in {"csrr", "csrw"} => m.imm \in 0 .. 4095
    BY <2>1, Immediates
  <2> QED BY <1>1, <2>2 DEF MeantCsr, None
<1>6. MeantImm(m) \in None .. Modulus - 1
  <2>1. None \in None .. Modulus - 1 /\ \A w \in WordSet : w \in None .. Modulus - 1
    BY ModulusType DEF WordSet, None
  <2>2. m.op \in DOMAIN ShiftOps => m.imm \in WordSet
    <3>1. m.op \in DOMAIN ShiftOps => m.imm \in 0 .. 31
      BY Immediates
    <3> QED BY <3>1, SmallWords
  <2>3. m.op \in {"lui", "auipc"} => ShiftLeft(m.imm, 12) \in WordSet
    <3>1. m.op \in {"lui", "auipc"} => m.imm \in 0 .. TwoTo[20] - 1
      BY Immediates
    <3>2. m.op \in {"lui", "auipc"} => m.imm \in WordSet
      BY <3>1, SmallWords
    <3> QED BY <3>2, ShiftType
  <2>4. Wrap(m.imm) \in WordSet
    BY <1>1, ModulusType
  <2> QED BY <2>1, <2>2, <2>3, <2>4 DEF MeantImm
<1> QED BY <1>2, <1>3, <1>4, <1>5, <1>6

LEMMA ObjectType ==
    ASSUME NEW type \in IType, NEW brFunc \in BrFunc, NEW aluFunc \in AluFunc,
           NEW dst \in None .. 31, NEW src1 \in None .. 31, NEW src2 \in None .. 31,
           NEW csr \in None .. 4095, NEW imm \in None .. Modulus - 1
    PROVE  Object(type, brFunc, aluFunc, dst, src1, src2, csr, imm) \in InstructionObject
  BY ModulusType, DeadBeafAssumption DEF Object, InstructionObject

LEMMA MeantObject == ASSUME NEW m, IsInstruction(m) PROVE Meant(m) \in InstructionObject
<1>1. MeantType(m.op) \in IType
  BY MeantFields
<1> QED BY <1>1, MeantFields, ObjectType DEF Meant

(***************************************************************************)
(* What the stages leave in the fields that are looked at later.           *)
(***************************************************************************)
LEMMA ReadFields ==
    ASSUME NEW i \in InstructionObject, NEW r \in [Register -> WordSet],
           NEW instret \in WordSet, NEW cycle \in WordSet, NEW j,
           j = ReadCsr(ReadRegisters(i, r), instret, cycle)
    PROVE  /\ j.type = i.type /\ j.brFunc = i.brFunc /\ j.aluFunc = i.aluFunc
           /\ j.dst = i.dst /\ j.src1 = i.src1 /\ j.src2 = i.src2
           /\ j.csr = i.csr /\ j.imm = i.imm
           /\ i.src1 # None => j.src1Val = r[i.src1]
           /\ i.src2 # None => j.src2Val = r[i.src2]
           /\ j.csrVal = CASE i.csr = CsrInstret -> instret
                           [] i.csr = CsrCycle   -> cycle
                           [] i.csr = CsrMhartid -> 0
                           [] OTHER              -> i.csrVal
<1>1. /\ j.type = i.type /\ j.brFunc = i.brFunc /\ j.aluFunc = i.aluFunc
      /\ j.dst = i.dst /\ j.src1 = i.src1 /\ j.src2 = i.src2
      /\ j.csr = i.csr /\ j.imm = i.imm
  BY DEF InstructionObject, ReadRegisters, ReadCsr
<1>2. /\ i.src1 # None => j.src1Val = r[i.src1]
      /\ i.src2 # None => j.src2Val = r[i.src2]
  BY DEF InstructionObject, ReadRegisters, ReadCsr
<1> DEFINE k == ReadRegisters(i, r)
           z == CASE k.csr = CsrInstret -> instret
                  [] k.csr = CsrCycle   -> cycle
                  [] k.csr = CsrMhartid -> 0
                  [] OTHER              -> k.csrVal
<1>3. k.csr = i.csr /\ k.csrVal = i.csrVal
  BY DEF InstructionObject, ReadRegisters
<1>4. j = [k EXCEPT !.csrVal = z]
  BY DEF ReadCsr
<1>5. j.csrVal = z
  <2>1. \A v : [k EXCEPT !.csrVal = v].csrVal = v
    BY DEF InstructionObject, ReadRegisters
  <2> HIDE DEF k, z
  <2> QED BY <1>4, <2>1
<1> HIDE DEF k
<1> QED BY <1>1, <1>2, <1>3, <1>5

LEMMA ExecuteFields ==
    ASSUME NEW i \in InstructionObject, NEW at, NEW j, j = Execute(i, at),
           i.type # "Unsupported"
    PROVE  /\ j.type = i.type /\ j.dst = i.dst /\ j.csr = i.csr
           /\ i.type \in {"Ld", "St"} => j.addr = AluProcessing(i)
           /\ i.type = "Alu" => j.data = AluProcessing(i)
           /\ i.type = "St" => j.data = i.src2Val
           /\ i.type = "Csrw" => j.data = i.src1Val
           /\ i.type = "Csrr" => j.data = i.csrVal
           /\ i.type \in {"J", "Jr"} => j.data = Following(at)
           /\ i.type = "Auipc" => j.data = Wrap(at + i.imm)
           /\ j.nextIp = CASE i.type \in {"J", "Br"} -> BranchTarget(i, at)
                           [] i.type = "Jr" -> IF BranchingProcessing(i)
                                               THEN Wrap(i.imm + i.src1Val)
                                               ELSE Following(at)
                           [] OTHER -> Following(at)
<1>1. CASE i.type = "Alu"
  <2>1. j = [i EXCEPT !.data = AluProcessing(i), !.nextIp = Following(at)]
    BY <1>1 DEF Execute
  <2>2. /\ j.type = i.type /\ j.dst = i.dst /\ j.csr = i.csr
        /\ j.data = AluProcessing(i) /\ j.nextIp = Following(at)
    BY <2>1 DEF InstructionObject
  <2> QED BY <1>1, <2>2
<1>2. CASE i.type = "Ld"
  <2>1. j = [i EXCEPT !.addr = AluProcessing(i), !.nextIp = Following(at)]
    BY <1>2 DEF Execute
  <2>2. /\ j.type = i.type /\ j.dst = i.dst /\ j.csr = i.csr
        /\ j.addr = AluProcessing(i) /\ j.nextIp = Following(at)
    BY <2>1 DEF InstructionObject
  <2> QED BY <1>2, <2>2
<1>3. CASE i.type = "St"
  <2>1. j = [i EXCEPT !.addr = AluProcessing(i), !.data = i.src2Val, !.nextIp = Following(at)]
    BY <1>3 DEF Execute
  <2>2. /\ j.type = i.type /\ j.dst = i.dst /\ j.csr = i.csr
        /\ j.addr = AluProcessing(i) /\ j.data = i.src2Val /\ j.nextIp = Following(at)
    BY <2>1 DEF InstructionObject
  <2> QED BY <1>3, <2>2
<1>4. CASE i.type = "Csrw"
  <2>1. j = [i EXCEPT !.data = i.src1Val, !.nextIp = Following(at)]
    BY <1>4 DEF Execute
  <2>2. /\ j.type = i.type /\ j.dst = i.dst /\ j.csr = i.csr
        /\ j.data = i.src1Val /\ j.nextIp = Following(at)
    BY <2>1 DEF InstructionObject
  <2> QED BY <1>4, <2>2
<1>5. CASE i.type = "Csrr"
  <2>1. j = [i EXCEPT !.data = i.csrVal, !.nextIp = Following(at)]
    BY <1>5 DEF Execute
  <2>2. /\ j.type = i.type /\ j.dst = i.dst /\ j.csr = i.csr
        /\ j.data = i.csrVal /\ j.nextIp = Following(at)
    BY <2>1 DEF InstructionObject
  <2> QED BY <1>5, <2>2
<1>6. CASE i.type = "J"
  <2>1. j = [i EXCEPT !.data = Following(at), !.nextIp = BranchTarget(i, at)]
    BY <1>6 DEF Execute
  <2>2. /\ j.type = i.type /\ j.dst = i.dst /\ j.csr = i.csr
        /\ j.data = Following(at) /\ j.nextIp = BranchTarget(i, at)
    BY <2>1 DEF InstructionObject
  <2> QED BY <1>6, <2>2
<1>7. CASE i.type = "Br"
  <2>1. j = [i EXCEPT !.nextIp = BranchTarget(i, at)]
    BY <1>7 DEF Execute
  <2>2. /\ j.type = i.type /\ j.dst = i.dst /\ j.csr = i.csr /\ j.nextIp = BranchTarget(i, at)
    BY <2>1 DEF InstructionObject
  <2> QED BY <1>7, <2>2
<1>8. CASE i.type = "Jr"
  <2> DEFINE next == IF BranchingProcessing(i) THEN Wrap(i.imm + i.src1Val) ELSE Following(at)
  <2>1. j = [i EXCEPT !.data = Following(at), !.nextIp = next]
    BY <1>8 DEF Execute
  <2> HIDE DEF next
  <2>2. /\ j.type = i.type /\ j.dst = i.dst /\ j.csr = i.csr
        /\ j.data = Following(at) /\ j.nextIp = next
    BY <2>1 DEF InstructionObject
  <2> QED BY <1>8, <2>2 DEF next
<1>9. CASE i.type = "Auipc"
  <2>1. j = [i EXCEPT !.data = Wrap(at + i.imm), !.nextIp = Following(at)]
    BY <1>9 DEF Execute
  <2>2. /\ j.type = i.type /\ j.dst = i.dst /\ j.csr = i.csr
        /\ j.data = Wrap(at + i.imm) /\ j.nextIp = Following(at)
    BY <2>1 DEF InstructionObject
  <2> QED BY <1>9, <2>2
<1> QED
  BY <1>1, <1>2, <1>3, <1>4, <1>5, <1>6, <1>7, <1>8, <1>9 DEF InstructionObject, IType

\* Every stage makes an instruction object.
LEMMA StageTypes ==
    ASSUME GivenOK
    PROVE  /\ IsInstruction(asm) /\ Meant(asm) \in InstructionObject
           /\ Ready \in InstructionObject /\ Executed \in InstructionObject
           /\ \A w \in LoadedWords : Answered(w) \in InstructionObject
<1>1. IsInstruction(asm) /\ ip \in Int /\ LoadedWords \subseteq WordSet
  BY InstructionsAssumption DEF GivenOK, WordSet
<1>2. Meant(asm) \in InstructionObject
  BY <1>1, MeantObject
<1>3. Ready \in InstructionObject
  BY <1>2, ReadType, InstructionsAssumption DEF GivenOK, Ready
<1>4. Executed \in InstructionObject
  BY <1>1, <1>3, ExecuteType DEF Executed
<1>5. \A w \in LoadedWords : Answered(w) \in InstructionObject
  BY <1>1, <1>4, ValueType DEF Answered
<1> QED BY <1>1, <1>2, <1>3, <1>4, <1>5

-----------------------------------------------------------------------------
\* The inductive invariant: StagesOK while pc is at one of the stages.
StageInv == pc \in {"decode", "read", "execute", "memory", "write", "done"} /\ StagesOK

LEMMA InitStages == Init => StageInv
<1> SUFFICES ASSUME Init PROVE StageInv
  OBVIOUS
<1>1. asm \in Programs /\ ip \in WordSet /\ IsInstruction(asm)
  BY InstructionsAssumption DEF Init
<1>2. before \in [Register -> WordSet] /\ before[0] = 0
  <2>1. PICK a, b \in Contents :
            before = [r \in Register |-> IF r = 0 THEN 0
                                         ELSE IF r = asm.rs1 THEN a
                                         ELSE IF r = asm.rs2 THEN b ELSE r]
    BY DEF Init
  <2>2. a \in WordSet /\ b \in WordSet /\ 0 \in Register /\ Register \subseteq WordSet
    BY InstructionsAssumption, SmallWords DEF Register
  <2> QED BY <2>1, <2>2
<1>3. GivenOK
  BY <1>1, <1>2 DEF GivenOK
<1> QED BY <1>3 DEF Init, StageInv, StagesOK

LEMMA NextStages == StageInv /\ [Next]_vars => StageInv'
<1> SUFFICES ASSUME StageInv, [Next]_vars PROVE StageInv'
  OBVIOUS
<1> USE DEF StageInv, StagesOK
<1>1. ASSUME given' = given
      PROVE  /\ asm' = asm /\ before' = before
             /\ GivenOK' /\ Meant(asm)' = Meant(asm) /\ Ready' = Ready /\ Executed' = Executed
             /\ \A w : Answered(w)' = Answered(w)
  <2>1. asm' = asm /\ ip' = ip /\ before' = before
    BY <1>1 DEF given
  <2>2. GivenOK'
    BY <2>1 DEF GivenOK
  <2>3. Ready' = Ready
    BY <2>1 DEF Ready
  <2>4. Executed' = Executed
    BY <2>1, <2>3 DEF Executed
  <2> QED BY <2>1, <2>2, <2>3, <2>4 DEF Answered
<1>2. IsInstruction(asm)
  BY StageTypes
<1>3. CASE DecodeWord
  <2>1. given' = given /\ regs' = regs /\ pc = "decode" /\ pc' = "read"
    BY <1>3 DEF DecodeWord
  <2>2. instr' = Meant(asm)
    BY <1>2, <1>3, DecodeInvertsEncode DEF DecodeWord
  <2> QED BY <1>1, <2>1, <2>2
<1>4. CASE ReadOperands
  <2>1. given' = given /\ regs' = regs /\ pc = "read" /\ pc' = "execute"
    BY <1>4 DEF ReadOperands
  <2>2. instr' = Ready
    BY <1>4 DEF ReadOperands, Ready
  <2> QED BY <1>1, <2>1, <2>2
<1>5. CASE ExecuteInstr
  <2>1. given' = given /\ regs' = regs /\ pc = "execute" /\ pc' = "memory"
    BY <1>5 DEF ExecuteInstr
  <2>2. instr' = Executed
    BY <1>5 DEF ExecuteInstr, Executed
  <2> QED BY <1>1, <2>1, <2>2
<1>6. CASE AccessMemory
  <2>1. given' = given /\ regs' = regs /\ pc = "memory" /\ pc' = "write"
    BY <1>6 DEF AccessMemory
  <2>2. \E w \in LoadedWords : instr' = Answered(w)
    BY <1>6 DEF AccessMemory, Answered
  <2> QED BY <1>1, <2>1, <2>2
<1>7. CASE WriteBack
  <2>1. given' = given /\ instr' = instr /\ pc = "write" /\ pc' = "done"
    BY <1>7 DEF WriteBack
  <2>2. regs' = WriteRegister(instr, before)
    BY <1>7 DEF WriteBack
  <2> QED BY <1>1, <2>1, <2>2
<1>8. CASE UNCHANGED vars
  <2>1. given' = given /\ regs' = regs /\ instr' = instr /\ pc' = pc
    BY <1>8 DEF vars
  <2> QED BY <1>1, <2>1
<1> QED BY <1>3, <1>4, <1>5, <1>6, <1>7, <1>8 DEF Next

\* The stages keep StageInv.
LEMMA StageInvariance == Spec => []StageInv
  BY InitStages, NextStages, PTL DEF Spec

(***************************************************************************)
(* At every stage the object and the registers are what the instruction as *)
(* written makes of the registers before it, whatever the word size.       *)
(***************************************************************************)
THEOREM StagesFollow == Spec => []StagesOK
<1>1. StageInv => StagesOK
  BY DEF StageInv
<1> QED BY <1>1, StageInvariance, PTL

(***************************************************************************)
(* Type correctness: every field stays in the range its C++ type and the   *)
(* instruction formats allow.                                              *)
(***************************************************************************)
THEOREM InstructionTypes == Spec => []TypeOK
<1>1. StageInv => TypeOK
  <2> SUFFICES ASSUME StageInv PROVE TypeOK
    OBVIOUS
  <2>1. GivenOK /\ before \in [Register -> WordSet]
    BY DEF StageInv, StagesOK, GivenOK
  <2>2. instr \in InstructionObject
    BY <2>1, StageTypes, FreshType DEF StageInv, StagesOK
  <2>3. regs \in [Register -> WordSet]
    BY <2>1, <2>2, WriteType DEF StageInv, StagesOK
  <2> QED BY <2>2, <2>3 DEF TypeOK, StageInv
<1> QED BY <1>1, StageInvariance, PTL

-----------------------------------------------------------------------------
(***************************************************************************)
(* What the executor finds in the object, and what it computes from it.    *)
(***************************************************************************)
LEMMA ReadyFields ==
    ASSUME GivenOK
    PROVE  /\ Ready.type = MeantType(asm.op) /\ Ready.brFunc = MeantBrFunc(asm.op)
           /\ Ready.aluFunc = MeantAluFunc(asm.op) /\ Ready.dst = MeantDst(asm)
           /\ Ready.src1 = MeantSrc1(asm) /\ Ready.src2 = MeantSrc2(asm)
           /\ Ready.csr = MeantCsr(asm) /\ Ready.imm = MeantImm(asm)
           /\ MeantSrc1(asm) # None => Ready.src1Val = before[MeantSrc1(asm)]
           /\ MeantSrc2(asm) # None => Ready.src2Val = before[MeantSrc2(asm)]
           /\ Ready.csrVal = CASE MeantCsr(asm) = CsrInstret -> Instret
                               [] MeantCsr(asm) = CsrCycle   -> Cycle
                               [] OTHER                      -> 0
<1> DEFINE m == Meant(asm)
<1>1. /\ m.type = MeantType(asm.op) /\ m.brFunc = MeantBrFunc(asm.op)
      /\ m.aluFunc = MeantAluFunc(asm.op) /\ m.dst = MeantDst(asm)
      /\ m.src1 = MeantSrc1(asm) /\ m.src2 = MeantSrc2(asm)
      /\ m.csr = MeantCsr(asm) /\ m.imm = MeantImm(asm) /\ m.csrVal = 0
  BY DEF Meant, Object
<1>2. m \in InstructionObject
  BY StageTypes
<1>3. Ready = ReadCsr(ReadRegisters(m, before), Instret, Cycle)
  BY DEF Ready
<1>4. before \in [Register -> WordSet] /\ Instret \in WordSet /\ Cycle \in WordSet
  BY InstructionsAssumption DEF GivenOK
<1> HIDE DEF m
<1>5. /\ Ready.type = m.type /\ Ready.brFunc = m.brFunc /\ Ready.aluFunc = m.aluFunc
      /\ Ready.dst = m.dst /\ Ready.src1 = m.src1 /\ Ready.src2 = m.src2
      /\ Ready.csr = m.csr /\ Ready.imm = m.imm
      /\ m.src1 # None => Ready.src1Val = before[m.src1]
      /\ m.src2 # None => Ready.src2Val = before[m.src2]
      /\ Ready.csrVal = CASE m.csr = CsrInstret -> Instret
                          [] m.csr = CsrCycle   -> Cycle
                          [] m.csr = CsrMhartid -> 0
                          [] OTHER              -> m.csrVal
  BY <1>2, <1>3, <1>4, ReadFields
<1> QED BY <1>1, <1>5

(***************************************************************************)
(* The executor finds rs1 and rs2 as they were before the instruction, and *)
(* zero for lui.                                                           *)
(***************************************************************************)
LEMMA Operands ==
    ASSUME GivenOK
    PROVE  /\ A \in WordSet /\ B \in WordSet
           /\ asm.op \notin {"auipc", "jal", "lui", "csrr"} =>
                 MeantSrc1(asm) # None /\ Ready.src1Val = A
           /\ asm.op = "lui" => MeantSrc1(asm) # None /\ Ready.src1Val = 0
           /\ asm.op \in DOMAIN RegisterOps \cup DOMAIN BranchOps \cup {"sw"} =>
                 MeantSrc2(asm) # None /\ Ready.src2Val = B
<1>1. asm.rs1 \in Register /\ asm.rs2 \in Register
  BY StageTypes, Immediates DEF Register
<1>2. asm.rs1 # None /\ asm.rs2 # None /\ 0 # None
  BY <1>1 DEF Register, None
<1>3. A \in WordSet /\ B \in WordSet
  BY <1>1 DEF GivenOK, A, B
<1>4. asm.op \notin {"auipc", "jal", "lui", "csrr"} => MeantSrc1(asm) = asm.rs1
  BY DEF MeantSrc1
<1>5. asm.op = "lui" => MeantSrc1(asm) = 0
  BY DEF MeantSrc1
<1>6. asm.op \in DOMAIN RegisterOps \cup DOMAIN BranchOps \cup {"sw"} =>
         MeantSrc2(asm) = asm.rs2
  BY DEF MeantSrc2
<1> QED BY <1>2, <1>3, <1>4, <1>5, <1>6, ReadyFields DEF GivenOK, A, B

\* The operand of the executor's function that is not rs1.
Operand2 ==
    CASE asm.op \in DOMAIN RegisterOps -> B
      [] asm.op \in DOMAIN ShiftOps    -> asm.imm
      [] OTHER                         -> asm.imm % Modulus

\* alu_processing computes the result, or the address, that the operation says.
LEMMA AluValue ==
    ASSUME GivenOK
    PROVE  /\ asm.op \in ComputedOps => IsResult(asm.op, A, Operand2, AluProcessing(Ready))
           /\ asm.op = "lui" => AluProcessing(Ready) = ShiftLeft(asm.imm, 12)
           /\ asm.op \in {"lw", "sw"} => Same(AluProcessing(Ready), A + asm.imm)
<1>1. IsInstruction(asm) /\ asm.imm \in Int /\ A \in WordSet /\ B \in WordSet /\ A \in Int
  BY StageTypes, Immediates, Operands DEF WordSet
<1>2. None \notin WordSet /\ Wrap(asm.imm) \in WordSet
  BY <1>1, ModulusType DEF WordSet, None
<1>3. ASSUME MeantSrc1(asm) # None, MeantImm(asm) \in WordSet
      PROVE  AluProcessing(Ready)
               = Compute(MeantAluFunc(asm.op), Ready.src1Val, MeantImm(asm))
  BY <1>2, <1>3, ReadyFields DEF AluProcessing
<1>4. CASE asm.op \in DOMAIN RegisterOps
  <2>1. MeantImm(asm) = None
    BY <1>4, OpDomains DEF MeantImm
  <2>2. MeantSrc1(asm) # None /\ MeantSrc2(asm) # None
        /\ Ready.src1Val = A /\ Ready.src2Val = B
    BY <1>4, Operands, OpDomains
  <2>3. AluProcessing(Ready) = Compute(MeantAluFunc(asm.op), A, B)
    BY <2>1, <2>2, ReadyFields DEF AluProcessing
  <2>4. asm.op \in ComputedOps /\ MeantAluFunc(asm.op) = AluFuncOf(asm.op) /\ Operand2 = B
    BY <1>4, OpDomains DEF ComputedOps, MeantAluFunc, Operand2
  <2>5. asm.op \notin {"lui", "lw", "sw"}
    BY <1>4, OpDomains
  <2> QED BY <1>1, <2>3, <2>4, <2>5, ComputeMeets
<1>5. CASE asm.op \in DOMAIN ShiftOps
  <2>1. MeantImm(asm) = asm.imm /\ asm.imm \in WordSet
    BY <1>1, <1>5, OpDomains, Immediates, SmallWords DEF MeantImm
  <2>2. MeantSrc1(asm) # None /\ Ready.src1Val = A
    BY <1>5, Operands, OpDomains
  <2>3. AluProcessing(Ready) = Compute(MeantAluFunc(asm.op), A, asm.imm)
    BY <1>3, <2>1, <2>2
  <2>4. asm.op \in ComputedOps /\ MeantAluFunc(asm.op) = AluFuncOf(asm.op) /\ Operand2 = asm.imm
    BY <1>5, OpDomains DEF ComputedOps, MeantAluFunc, Operand2
  <2>5. asm.op \notin {"lui", "lw", "sw"}
    BY <1>5, OpDomains
  <2> QED BY <1>1, <2>1, <2>3, <2>4, <2>5, ComputeMeets
<1>6. CASE asm.op \in DOMAIN ImmediateOps
  <2>1. MeantImm(asm) = Wrap(asm.imm)
    BY <1>6, OpDomains DEF MeantImm
  <2>2. MeantSrc1(asm) # None /\ Ready.src1Val = A
    BY <1>6, Operands, OpDomains
  <2>3. AluProcessing(Ready) = Compute(MeantAluFunc(asm.op), A, Wrap(asm.imm))
    BY <1>2, <1>3, <2>1, <2>2
  <2>4. /\ asm.op \in ComputedOps /\ MeantAluFunc(asm.op) = AluFuncOf(asm.op)
        /\ Operand2 = Wrap(asm.imm)
    BY <1>6, OpDomains DEF ComputedOps, MeantAluFunc, Operand2, Wrap
  <2>5. asm.op \notin {"lui", "lw", "sw"}
    BY <1>6, OpDomains
  <2> QED BY <1>1, <1>2, <2>3, <2>4, <2>5, ComputeMeets
<1>7. CASE asm.op = "lui"
  <2>1. ShiftLeft(asm.imm, 12) \in WordSet
    BY <1>1, <1>7, Immediates, SmallWords, ShiftType
  <2>2. MeantImm(asm) = ShiftLeft(asm.imm, 12) /\ MeantAluFunc(asm.op) = "Add"
    BY <1>7, OpDomains DEF MeantImm, MeantAluFunc, ComputedOps
  <2>3. AluProcessing(Ready) = Compute("Add", 0, ShiftLeft(asm.imm, 12))
    BY <1>3, <1>7, <2>1, <2>2, Operands
  <2>4. 0 + ShiftLeft(asm.imm, 12) = ShiftLeft(asm.imm, 12)
    BY <2>1 DEF WordSet
  <2>5. AluProcessing(Ready) = ShiftLeft(asm.imm, 12)
    BY <2>1, <2>3, <2>4, WordUnwrapped DEF Compute
  <2> QED BY <1>7, <2>5, OpDomains DEF ComputedOps
<1>8. CASE asm.op \in {"lw", "sw"}
  <2>1. MeantImm(asm) = Wrap(asm.imm) /\ MeantAluFunc(asm.op) = "Add"
    BY <1>8, OpDomains DEF MeantImm, MeantAluFunc, ComputedOps
  <2>2. MeantSrc1(asm) # None /\ Ready.src1Val = A
    BY <1>8, Operands
  <2>3. AluProcessing(Ready) = Wrap(A + Wrap(asm.imm))
    BY <1>2, <1>3, <2>1, <2>2 DEF Compute
  <2>4. Same(Wrap(A + asm.imm), A + asm.imm)
    BY <1>1, WrapSame
  <2>5. Same(AluProcessing(Ready), A + asm.imm)
    BY <1>1, <2>3, <2>4, WrapSum
  <2> QED BY <1>8, <2>5, OpDomains DEF ComputedOps
<1> QED BY <1>4, <1>5, <1>6, <1>7, <1>8 DEF ComputedOps

\* The next address is the one the instruction leads to, but for bit 0.
LEMMA NextAddress ==
    ASSUME GivenOK
    PROVE  GoesTo(IF OddJump THEN Executed.nextIp - 1 ELSE Executed.nextIp)
<1>1. /\ IsInstruction(asm) /\ asm.op \in Ops /\ asm.imm \in Int /\ ip \in Int
      /\ A \in Int /\ Ready \in InstructionObject
  BY StageTypes, Immediates, Operands DEF GivenOK, WordSet
<1>2. Same(Wrap(ip + 4), ip + 4) /\ Same(Wrap(ip + asm.imm), ip + asm.imm)
      /\ Same(Wrap(A + asm.imm), A + asm.imm)
  <2>1. ip + 4 \in Int /\ ip + asm.imm \in Int /\ A + asm.imm \in Int
    BY <1>1
  <2> QED BY <2>1, WrapSame
<1>3. Wrap(ip + Wrap(asm.imm)) = Wrap(ip + asm.imm)
      /\ Wrap(Wrap(asm.imm) + A) = Wrap(A + asm.imm)
  <2>1. Wrap(asm.imm) + A = A + Wrap(asm.imm)
    BY <1>1, ModulusType DEF WordSet
  <2> QED BY <1>1, <2>1, WrapSum
<1>4. Ready.type = MeantType(asm.op) /\ Ready.type # "Unsupported"
  BY <1>1, ReadyFields, MeantFields
<1>5. Executed.nextIp = CASE Ready.type \in {"J", "Br"} -> BranchTarget(Ready, ip)
                          [] Ready.type = "Jr" -> IF BranchingProcessing(Ready)
                                                  THEN Wrap(Ready.imm + Ready.src1Val)
                                                  ELSE Following(ip)
                          [] OTHER -> Following(ip)
  BY <1>1, <1>4, ExecuteFields DEF Executed
<1>6. CASE asm.op = "jal"
  <2>1. /\ Ready.type = "J" /\ Ready.imm = Wrap(asm.imm) /\ Ready.brFunc = "AT"
    BY <1>6, ReadyFields, OpDomains DEF MeantType, MeantImm, MeantBrFunc, ComputedOps
  <2>2. Executed.nextIp = Wrap(ip + asm.imm)
    BY <1>3, <1>5, <2>1 DEF BranchTarget, BranchingProcessing
  <2> QED BY <1>2, <1>6, <2>2 DEF GoesTo, OddJump
<1>7. CASE asm.op = "jalr"
  <2>1. /\ Ready.type = "Jr" /\ Ready.imm = Wrap(asm.imm) /\ Ready.brFunc = "AT"
    BY <1>7, ReadyFields, OpDomains DEF MeantType, MeantImm, MeantBrFunc, ComputedOps
  <2>2. Ready.src1Val = A
    BY <1>7, Operands
  <2>3. Executed.nextIp = Wrap(A + asm.imm)
    BY <1>3, <1>5, <2>1, <2>2 DEF BranchingProcessing
  <2> DEFINE sum == A + asm.imm
  <2>4. sum \in Int /\ Wrap(sum) \in Int /\ Same(Wrap(sum), sum)
    BY <1>1, <1>2, ModulusType DEF Wrap
  <2> HIDE DEF sum
  <2> DEFINE w == Wrap(sum)
  <2> HIDE DEF w
  <2>5. w \in Int /\ Same(w, sum)
    BY <2>4 DEF w
  <2>6. CASE sum % 2 = 1
    <3>1. (w - 1) - (sum - 1) = w - sum
      BY <2>4, <2>5
    <3>2. Same(w - 1, sum - 1)
      BY <2>5, <3>1 DEF Same
    <3>3. Same(w - 1, sum - (sum % 2))
      BY <2>6, <3>2
    <3> QED BY <1>7, <2>3, <2>6, <3>3, OpDomains DEF GoesTo, OddJump, sum, w
  <2>7. CASE sum % 2 # 1
    <3>1. \A n \in Int : n % 2 = 0 \/ n % 2 = 1
      OBVIOUS
    <3>2. sum % 2 = 0 /\ sum - 0 = sum
      BY <2>4, <2>7, <3>1
    <3>3. Same(w, sum - (sum % 2))
      BY <2>5, <3>2
    <3> QED BY <1>7, <2>3, <2>7, <3>3, OpDomains DEF GoesTo, OddJump, sum, w
  <2> QED BY <2>6, <2>7
<1>8. CASE asm.op \in DOMAIN BranchOps
  <2>1. /\ Ready.type = "Br" /\ Ready.imm = Wrap(asm.imm) /\ Ready.brFunc = BrFuncOf(asm.op)
    BY <1>8, ReadyFields, OpDomains DEF MeantType, MeantImm, MeantBrFunc, ComputedOps
  <2>2. Ready.src1Val = A /\ Ready.src2Val = B
    BY <1>8, Operands, OpDomains
  <2>3. BranchingProcessing(Ready) <=> Taken(asm.op, A, B)
    BY <1>1, <1>8, <2>1, <2>2, BranchingMeets
  <2>4. Executed.nextIp = IF Taken(asm.op, A, B) THEN Wrap(ip + asm.imm) ELSE Wrap(ip + 4)
    BY <1>3, <1>5, <2>1, <2>3 DEF BranchTarget, Following
  <2>5. asm.op \notin {"jal", "jalr"}
    BY <1>8, OpDomains
  <2> QED BY <1>2, <1>8, <2>4, <2>5 DEF GoesTo, OddJump
<1>9. CASE asm.op \notin {"jal", "jalr"} \cup DOMAIN BranchOps
  <2>1. Ready.type \notin {"J", "Jr", "Br"}
    BY <1>1, <1>4, <1>9, OpDomains DEF Ops, MeantType, ComputedOps
  <2>2. Executed.nextIp = Wrap(ip + 4)
    BY <1>5, <2>1 DEF Following
  <2> QED BY <1>2, <1>9, <2>2 DEF GoesTo, OddJump
<1> QED BY <1>6, <1>7, <1>8, <1>9

\* The data response only replaces the data of a load.
LEMMA AnsweredFields ==
    ASSUME GivenOK, NEW w \in LoadedWords
    PROVE  /\ Answered(w).type = Executed.type /\ Answered(w).dst = Executed.dst
           /\ Answered(w).csr = Executed.csr /\ Answered(w).addr = Executed.addr
           /\ Answered(w).nextIp = Executed.nextIp
           /\ Answered(w).data = IF Executed.type = "Ld" THEN w ELSE Executed.data
<1>1. Executed \in InstructionObject
  BY StageTypes
<1> DEFINE i == Executed
<1> HIDE DEF i
<1>2. /\ [i EXCEPT !.data = w].type = i.type /\ [i EXCEPT !.data = w].dst = i.dst
      /\ [i EXCEPT !.data = w].csr = i.csr /\ [i EXCEPT !.data = w].addr = i.addr
      /\ [i EXCEPT !.data = w].nextIp = i.nextIp /\ [i EXCEPT !.data = w].data = w
  BY <1>1 DEF i, InstructionObject
<1> QED BY <1>2 DEF i, Answered

\* What Execute leaves for the memory, the registers and the host.
LEMMA ExecutedValues ==
    ASSUME GivenOK
    PROVE  /\ Executed.type = MeantType(asm.op) /\ Executed.dst = MeantDst(asm)
           /\ Executed.csr = MeantCsr(asm)
           /\ MeantType(asm.op) \in {"Ld", "St"} => Executed.addr = AluProcessing(Ready)
           /\ MeantType(asm.op) = "Alu" => Executed.data = AluProcessing(Ready)
           /\ MeantType(asm.op) = "St" => Executed.data = Ready.src2Val
           /\ MeantType(asm.op) = "Csrw" => Executed.data = Ready.src1Val
           /\ MeantType(asm.op) = "Csrr" => Executed.data = Ready.csrVal
           /\ MeantType(asm.op) \in {"J", "Jr"} => Executed.data = Following(ip)
           /\ MeantType(asm.op) = "Auipc" => Executed.data = Wrap(ip + Ready.imm)
<1>1. /\ Ready \in InstructionObject /\ Ready.type = MeantType(asm.op)
      /\ Ready.type # "Unsupported" /\ Ready.dst = MeantDst(asm) /\ Ready.csr = MeantCsr(asm)
  BY StageTypes, ReadyFields, MeantFields
<1> QED BY <1>1, ExecuteFields DEF Executed

\* A memory instruction is told by its type, and so is a message to the host.
LEMMA TypesTell ==
    ASSUME NEW op \in Ops
    PROVE  /\ MeantType(op) = "Ld" <=> op = "lw"
           /\ MeantType(op) = "St" <=> op = "sw"
           /\ MeantType(op) = "Csrw" <=> op = "csrw"
           /\ MeantType(op) = "Csrr" <=> op = "csrr"
           /\ MeantType(op) = "Auipc" <=> op = "auipc"
           /\ MeantType(op) \in {"J", "Jr"} <=> op \in {"jal", "jalr"}
           /\ MeantType(op) = "Alu" <=> op \in ComputedOps \cup {"lui"}
  BY OpDomains DEF Ops, ComputedOps, MeantType

\* The word written back is the one the instruction has to write.
LEMMA WrittenValue ==
    ASSUME GivenOK, HasDestination, NEW w \in LoadedWords
    PROVE  Writes(Answered(w).data)
<1> DEFINE v == Answered(w).data
<1>1. /\ IsInstruction(asm) /\ asm.op \in Ops /\ asm.imm \in Int /\ ip \in Int
      /\ asm.op \notin {"sw", "csrw"} \cup DOMAIN BranchOps
  BY StageTypes, Immediates DEF GivenOK, HasDestination, WordSet
<1>2. v = IF MeantType(asm.op) = "Ld" THEN w ELSE Executed.data
  BY AnsweredFields, ExecutedValues
<1> HIDE DEF v
<1>3. CASE asm.op \in ComputedOps
  <2>1. v = AluProcessing(Ready)
    BY <1>1, <1>2, <1>3, ExecutedValues, TypesTell
  <2>2. IsResult(asm.op, A, Operand2, v)
    BY <1>3, <2>1, AluValue
  <2> QED BY <1>3, <2>2, OpDomains DEF Writes, Operand2, ComputedOps, v
<1>4. CASE asm.op = "lui"
  <2>1. v = ShiftLeft(asm.imm, 12)
    BY <1>1, <1>2, <1>4, ExecutedValues, TypesTell, AluValue
  <2>2. asm.imm \in WordSet
    BY <1>1, <1>4, Immediates, SmallWords
  <2>3. \A k \in 0 .. WordBits - 1 :
            Bit(v, k) = IF k < 12 THEN 0 ELSE Bit(asm.imm, k - 12)
    <3> SUFFICES ASSUME NEW k \in 0 .. WordBits - 1
                 PROVE  Bit(v, k) = IF k < 12 THEN 0 ELSE Bit(asm.imm, k - 12)
      OBVIOUS
    <3>1. Bit(ShiftLeft(asm.imm, 12), k) = IF k >= 12 THEN Bit(asm.imm, k - 12) ELSE 0
      BY <2>2, BitOfShiftLeft
    <3> QED BY <2>1, <3>1
  <2> QED BY <1>4, <2>3, OpDomains DEF Writes, AllBits, v
<1>5. CASE asm.op = "auipc"
  <2> DEFINE x == ShiftLeft(asm.imm, 12)
  <2>1. Ready.imm = x
    BY <1>5, ReadyFields, OpDomains DEF MeantImm
  <2>2. v = Wrap(ip + x)
    BY <1>1, <1>2, <1>5, <2>1, ExecutedValues, TypesTell
  <2>3. x \in Int
    <3>1. asm.imm \in WordSet
      BY <1>1, <1>5, Immediates, SmallWords
    <3>2. x \in WordSet
      BY <3>1, ShiftType
    <3> QED BY <3>2 DEF WordSet
  <2>4. x = (asm.imm % TwoTo[WordBits - 12]) * 2 ^ 12
    <3>1. 12 < WordBits /\ 2 ^ 12 = 4096
      BY DecoderAssumption, WidthAssumption
    <3> QED BY <3>1, TwoToValues DEF ShiftLeft
  <2> HIDE DEF x
  <2>5. Same(v, ip + x) /\ v \in Int
    BY <1>1, <2>2, <2>3, WrapSame DEF WordSet
  <2>6. (v - ip) - x = v - (ip + x)
    BY <1>1, <2>3, <2>5
  <2>7. Same(v - ip, x)
    BY <2>5, <2>6 DEF Same
  <2> QED BY <1>5, <2>4, <2>7, OpDomains DEF Writes, v
<1>6. CASE asm.op \in {"jal", "jalr"}
  <2>1. v = Wrap(ip + 4)
    BY <1>1, <1>2, <1>6, ExecutedValues, TypesTell DEF Following
  <2>2. Same(v, ip + 4)
    BY <1>1, <2>1, WrapSame
  <2> QED BY <1>6, <2>2, OpDomains DEF Writes, v
<1>7. CASE asm.op = "lw"
  <2>1. v = w
    BY <1>1, <1>2, <1>7, TypesTell
  <2> QED BY <1>7, <2>1, OpDomains DEF Writes, v
<1>8. CASE asm.op = "csrr"
  <2>1. v = Ready.csrVal /\ MeantCsr(asm) = asm.imm
    BY <1>1, <1>2, <1>8, ExecutedValues, TypesTell DEF MeantCsr
  <2>2. v = CASE asm.imm = CsrInstret -> Instret
              [] asm.imm = CsrCycle   -> Cycle
              [] OTHER                -> 0
    BY <2>1, ReadyFields
  <2> QED BY <1>8, <2>2, OpDomains DEF Writes, v
<1> QED BY <1>1, <1>3, <1>4, <1>5, <1>6, <1>7, <1>8 DEF Ops, ComputedOps

(***************************************************************************)
(* From its encoding to the registers, every instruction of RV32I that the *)
(* simulator supports does what it says: its destination gets the value    *)
(* the operation has on two's complement numbers, x0 and the others keep   *)
(* theirs.  So it is for every instruction, operand and address, and for   *)
(* words of any size that holds the immediates (Decoder.h, Executor.h,     *)
(* RegisterFile.h).                                                        *)
(***************************************************************************)
THEOREM InstructionsCompute == Spec => []ComputesWhatItSays
<1>1. StageInv => ComputesWhatItSays
  <2> SUFFICES ASSUME StageInv, pc = "done" PROVE ComputesWhatItSays
    BY DEF ComputesWhatItSays
  <2>1. GivenOK /\ regs = WriteRegister(instr, before)
    BY DEF StageInv, StagesOK
  <2>2. PICK w \in LoadedWords : instr = Answered(w)
    BY DEF StageInv, StagesOK
  <2>3. instr.dst = MeantDst(asm)
    BY <2>1, <2>2, AnsweredFields, ExecutedValues
  <2>4. IsInstruction(asm) /\ asm.rd \in Register /\ before \in [Register -> WordSet]
    BY <2>1, StageTypes, Immediates DEF GivenOK, Register
  <2>5. ASSUME NEW r \in Register
        PROVE  IF HasDestination /\ r = asm.rd THEN Writes(regs[r])
                                               ELSE regs[r] = before[r]
    <3>1. CASE HasDestination
      <4>1. MeantDst(asm) = asm.rd /\ asm.rd # None
        BY <2>4, <3>1 DEF HasDestination, MeantDst, Register, None
      <4>2. regs = [before EXCEPT ![asm.rd] = instr.data]
        BY <2>1, <2>3, <4>1 DEF WriteRegister
      <4>3. CASE r = asm.rd
        <5>1. regs[r] = instr.data
          BY <2>4, <4>2, <4>3
        <5>2. Writes(instr.data)
          BY <2>1, <2>2, <3>1, WrittenValue
        <5>3. Writes(regs[r])
          BY <5>1, <5>2
        <5> QED BY <3>1, <4>3, <5>3
      <4>4. CASE r # asm.rd
        BY <2>4, <4>2, <4>4
      <4> QED BY <4>3, <4>4
    <3>2. CASE ~HasDestination
      <4>1. MeantDst(asm) = None
        BY <3>2 DEF HasDestination, MeantDst
      <4>2. regs = before
        BY <2>1, <2>3, <4>1 DEF WriteRegister
      <4> QED BY <3>2, <4>2
    <3> QED BY <3>1, <3>2
  <2> QED BY <2>5 DEF ComputesWhatItSays
<1> QED BY <1>1, StageInvariance, PTL

(***************************************************************************)
(* What the others are told is what the instruction says: which requests   *)
(* are loads and stores, their addresses and words, the messages to the    *)
(* host (CachedMem::Request and CsrFile::Write look at nothing else), and  *)
(* where the next fetch is, which after a jalr to an odd sum is one too    *)
(* high and otherwise the target the instruction set gives.                *)
(***************************************************************************)
THEOREM InstructionsTell == Spec => []TellsOthersWhatItSays
<1>1. StageInv => TellsOthersWhatItSays
  <2> SUFFICES ASSUME StageInv, pc \in {"memory", "write", "done"}
               PROVE  TellsOthersWhatItSays
    BY DEF TellsOthersWhatItSays
  <2>1. GivenOK /\ asm.op \in Ops
    BY StageTypes, Immediates DEF StageInv, StagesOK
  <2>2. /\ instr.type = Executed.type /\ instr.csr = Executed.csr /\ instr.addr = Executed.addr
        /\ instr.nextIp = Executed.nextIp
        /\ Executed.type # "Ld" => instr.data = Executed.data
    <3>1. CASE pc = "memory"
      BY <3>1 DEF StageInv, StagesOK
    <3>2. CASE pc # "memory"
      <4>1. PICK w \in LoadedWords : instr = Answered(w)
        BY <3>2 DEF StageInv, StagesOK
      <4> QED BY <2>1, <4>1, AnsweredFields
    <3> QED BY <3>1, <3>2
  <2>3. /\ instr.type = "Ld" <=> asm.op = "lw"
        /\ instr.type = "St" <=> asm.op = "sw"
        /\ instr.type = "Csrw" <=> asm.op = "csrw"
    BY <2>1, <2>2, ExecutedValues, TypesTell
  <2>4. asm.op \in {"lw", "sw"} => Same(instr.addr, A + asm.imm)
    <3>1. asm.op \in {"lw", "sw"} => instr.addr = AluProcessing(Ready)
      BY <2>1, <2>2, ExecutedValues, TypesTell
    <3> QED BY <2>1, <3>1, AluValue
  <2>5. asm.op = "sw" => instr.data = B
    BY <2>1, <2>2, ExecutedValues, TypesTell, Operands
  <2>6. asm.op = "csrw" => instr.csr = asm.imm /\ instr.data = A
    <3>1. asm.op = "csrw" => instr.csr = MeantCsr(asm) /\ instr.data = Ready.src1Val
      BY <2>1, <2>2, ExecutedValues, TypesTell
    <3>2. asm.op = "csrw" => Ready.src1Val = A /\ MeantCsr(asm) = asm.imm
      BY <2>1, Operands DEF MeantCsr
    <3> QED BY <3>1, <3>2
  <2>7. GoesTo(IF OddJump THEN instr.nextIp - 1 ELSE instr.nextIp)
    BY <2>1, <2>2, NextAddress
  <2> QED BY <2>3, <2>4, <2>5, <2>6, <2>7 DEF TellsOthersWhatItSays
<1> QED BY <1>1, StageInvariance, PTL

=============================================================================
