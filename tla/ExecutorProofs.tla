--------------------------- MODULE ExecutorProofs ---------------------------
(***************************************************************************)
(* What the operators of Words and Executor compute, for every word size:  *)
(* the bits of what the executor does to words, and that every stage makes *)
(* an instruction object of an instruction object.                         *)
(***************************************************************************)
EXTENDS Executor, TLAPS, WellFoundedInduction

(***************************************************************************)
(* Induction on the natural numbers, with a set in place of a predicate:   *)
(* the numbers outside it would have a least one.                          *)
(***************************************************************************)
LEMMA SetInduction ==
    ASSUME NEW S, 0 \in S, \A n \in Nat : n \in S => n + 1 \in S
    PROVE  Nat \subseteq S
<1> SUFFICES ASSUME ~ (Nat \subseteq S) PROVE FALSE
  OBVIOUS
<1> DEFINE T == Nat \ S
           R == OpToRel(<, Nat)
<1>1. T \subseteq Nat /\ T # {}
  OBVIOUS
<1>2. IsWellFoundedOn(R, Nat)
  BY NatLessThanWellFounded
<1>3. \E x \in T : \A y \in T : ~(<<y, x>> \in R)
  <2> HIDE DEF T, R
  <2> QED BY <1>1, <1>2, WFMin
<1>4. PICK x \in T : \A y \in T : ~(<<y, x>> \in R)
  BY <1>3
<1>5. \A y \in Nat : y < x => <<y, x>> \in R
  BY DEF OpToRel
<1>6. x # 0 /\ x \in Nat
  OBVIOUS
<1>7. x - 1 \in Nat /\ x - 1 < x /\ (x - 1) + 1 = x
  BY <1>6
<1>8. x - 1 \in T
  BY <1>7
<1> QED BY <1>4, <1>5, <1>7, <1>8

\* f starts at base and goes on by step.
Follows(f, base, step) ==
    f \in [Nat -> Int] /\ f[0] = base /\ \A n \in Nat : f[n + 1] = step[n][f[n]]

(***************************************************************************)
(* There is a function for every such recursion: finite pieces of it exist *)
(* by induction, any two agree where both are defined, and the whole takes *)
(* its values from them.                                                   *)
(***************************************************************************)
LEMMA RecursionExists ==
    ASSUME NEW base \in Int, NEW step \in [Nat -> [Int -> Int]]
    PROVE  \E f : Follows(f, base, step)
<1> DEFINE Upto(n, h) == /\ h \in [0 .. n -> Int] /\ h[0] = base
                         /\ \A i \in 0 .. n - 1 : h[i + 1] = step[i][h[i]]
<1>1. \A n \in Nat : \E h : Upto(n, h)
  <2> DEFINE S == {n \in Nat : \E h : Upto(n, h)}
  <2>1. 0 \in S
    <3>1. Upto(0, [i \in 0 .. 0 |-> base])
      OBVIOUS
    <3> QED BY <3>1
  <2>2. ASSUME NEW n \in Nat, n \in S PROVE n + 1 \in S
    <3>1. PICK h : Upto(n, h)
      BY <2>2
    <3> DEFINE g == [i \in 0 .. n + 1 |-> IF i = n + 1 THEN step[n][h[n]] ELSE h[i]]
    <3>2. step[n][h[n]] \in Int
      BY <3>1
    <3>3. g \in [0 .. n + 1 -> Int]
      BY <3>1, <3>2
    <3>4. g[0] = base
      BY <3>1
    <3>5. ASSUME NEW i \in 0 .. n PROVE g[i + 1] = step[i][g[i]]
      <4>1. /\ i \in 0 .. n + 1 /\ i + 1 \in 0 .. n + 1 /\ i # n + 1
            /\ i + 1 = n + 1 <=> i = n
        OBVIOUS
      <4>2. i # n => i \in 0 .. n - 1
        OBVIOUS
      <4>3. g[i] = h[i] /\ g[i + 1] = IF i = n THEN step[n][h[n]] ELSE h[i + 1]
        BY <4>1
      <4> HIDE DEF g
      <4> QED BY <3>1, <4>2, <4>3
    <3>6. Upto(n + 1, g)
      <4> HIDE DEF g
      <4>1. (n + 1) - 1 = n
        OBVIOUS
      <4> QED BY <3>3, <3>4, <3>5, <4>1
    <3> HIDE DEF Upto, g
    <3> QED BY <3>6
  <2> HIDE DEF S
  <2>3. Nat \subseteq S
    BY <2>1, <2>2, SetInduction
  <2> QED BY <2>3 DEF S
<1>2. ASSUME NEW n \in Nat, NEW m \in Nat, NEW h, NEW g, Upto(n, h), Upto(m, g),
             NEW k \in Nat, k <= n, k <= m
      PROVE  h[k] = g[k]
  <2> DEFINE S == {i \in Nat : i <= n /\ i <= m => h[i] = g[i]}
  <2>1. 0 \in S
    BY <1>2
  <2>2. ASSUME NEW i \in Nat, i \in S PROVE i + 1 \in S
    <3> SUFFICES ASSUME i + 1 <= n, i + 1 <= m PROVE h[i + 1] = g[i + 1]
      OBVIOUS
    <3>1. h[i] = g[i] /\ i \in 0 .. n - 1 /\ i \in 0 .. m - 1
      BY <2>2
    <3> QED BY <3>1, <1>2
  <2> HIDE DEF S
  <2>3. Nat \subseteq S
    BY <2>1, <2>2, SetInduction
  <2> QED BY <2>3, <1>2 DEF S
<1> DEFINE f == [n \in Nat |-> (CHOOSE h : Upto(n, h))[n]]
<1>3. ASSUME NEW n \in Nat PROVE Upto(n, CHOOSE h : Upto(n, h))
  <2>1. \E h : Upto(n, h)
    BY <1>1
  <2> HIDE DEF Upto
  <2> QED BY <2>1
<1>4. f \in [Nat -> Int]
  <2> SUFFICES ASSUME NEW n \in Nat PROVE (CHOOSE h : Upto(n, h))[n] \in Int
    OBVIOUS
  <2> DEFINE h == CHOOSE g : Upto(n, g)
  <2>1. Upto(n, h)
    BY <1>3
  <2> HIDE DEF h
  <2>2. h[n] \in Int
    BY <2>1
  <2> QED BY <2>2 DEF h
<1>5. f[0] = base
  <2> DEFINE h == CHOOSE g : Upto(0, g)
  <2>1. Upto(0, h)
    BY <1>3
  <2>2. f[0] = h[0]
    OBVIOUS
  <2> HIDE DEF h, f
  <2> QED BY <2>1, <2>2
<1>6. ASSUME NEW n \in Nat PROVE f[n + 1] = step[n][f[n]]
  <2> DEFINE h == CHOOSE g : Upto(n, g)
             k == CHOOSE g : Upto(n + 1, g)
  <2>1. Upto(n, h) /\ Upto(n + 1, k)
    <3> HIDE DEF Upto
    <3> QED BY <1>3
  <2>2. f[n] = h[n] /\ f[n + 1] = k[n + 1]
    <3> HIDE DEF Upto
    <3>1. n + 1 \in Nat
      OBVIOUS
    <3> QED BY <3>1
  <2> HIDE DEF h, k, f
  <2>3. h[n] = k[n]
    <3> HIDE DEF Upto
    <3> QED BY <1>2, <2>1
  <2>4. k[n + 1] = step[n][k[n]]
    BY <2>1
  <2> QED BY <2>2, <2>3, <2>4
<1> HIDE DEF f
<1>7. Follows(f, base, step)
  BY <1>4, <1>5, <1>6 DEF Follows
<1> QED BY <1>7

\* So TwoTo is the function its definition describes.
LEMMA TwoToRecursion ==
    /\ TwoTo \in [Nat -> Int] /\ TwoTo[0] = 1
    /\ \A n \in Nat : TwoTo[n + 1] = 2 * TwoTo[n]
<1> DEFINE step == [n \in Nat |-> [x \in Int |-> 2 * x]]
<1>1. PICK f : Follows(f, 1, step)
  <2>1. step \in [Nat -> [Int -> Int]]
    OBVIOUS
  <2> HIDE DEF step
  <2> QED BY <2>1, RecursionExists
<1>2. f = [n \in Nat |-> IF n = 0 THEN 1 ELSE 2 * f[n - 1]]
  <2>1. ASSUME NEW n \in Nat PROVE f[n] = IF n = 0 THEN 1 ELSE 2 * f[n - 1]
    <3>1. n # 0 => n - 1 \in Nat /\ n = (n - 1) + 1
      OBVIOUS
    <3> QED BY <1>1, <3>1 DEF Follows
  <2> QED BY <1>1, <2>1 DEF Follows
<1>3. TwoTo = [n \in Nat |-> IF n = 0 THEN 1 ELSE 2 * TwoTo[n - 1]]
  BY <1>2 DEF TwoTo
<1>4. TwoTo[0] = 1
  BY <1>3
<1>5. ASSUME NEW n \in Nat PROVE TwoTo[n + 1] = 2 * TwoTo[n]
  <2>1. n + 1 \in Nat /\ n + 1 # 0 /\ (n + 1) - 1 = n
    OBVIOUS
  <2> QED BY <1>3, <2>1
<1> DEFINE S == {n \in Nat : TwoTo[n] \in Int}
<1>6. Nat \subseteq S
  <2>1. 0 \in S
    BY <1>4
  <2>2. ASSUME NEW n \in Nat, n \in S PROVE n + 1 \in S
    BY <1>5, <2>2
  <2> HIDE DEF S
  <2> QED BY <2>1, <2>2, SetInduction
<1>7. TwoTo \in [Nat -> Int]
  BY <1>3, <1>6
<1> QED BY <1>4, <1>5, <1>7

-----------------------------------------------------------------------------
\* Quotient and remainder.
LEMMA DivisionUnique ==
    ASSUME NEW p \in Nat \ {0}, NEW a \in Int, NEW q \in Int, NEW r \in 0 .. p - 1,
           a = p * q + r
    PROVE  a \div p = q /\ a % p = r
<1> DEFINE c == a \div p
           d == a % p
<1>1. c \in Int /\ d \in 0 .. p - 1 /\ a = p * c + d
  OBVIOUS
<1> HIDE DEF c, d
<1>2. p * (q - c) = d - r
  BY <1>1
<1>3. q = c
  <2>1. CASE q - c >= 1
    <3>1. p * (q - c) >= p
      BY <2>1, <1>1
    <3> QED BY <3>1, <1>1, <1>2
  <2>2. CASE q - c <= -1
    <3>1. p * (q - c) <= -p
      BY <2>2, <1>1
    <3> QED BY <3>1, <1>1, <1>2
  <2> QED BY <1>1, <2>1, <2>2
<1>4. d = r
  BY <1>1, <1>2, <1>3
<1> QED BY <1>3, <1>4 DEF c, d

LEMMA Division ==
    ASSUME NEW p \in Nat \ {0}, NEW a \in Int
    PROVE  a \div p \in Int /\ a % p \in 0 .. p - 1 /\ a = p * (a \div p) + (a % p)
  OBVIOUS

LEMMA AddMultiple ==
    ASSUME NEW p \in Nat \ {0}, NEW a \in Int, NEW c \in Int
    PROVE  (a + p * c) \div p = (a \div p) + c /\ (a + p * c) % p = a % p
<1> DEFINE q == a \div p
           r == a % p
<1>1. q \in Int /\ r \in 0 .. p - 1 /\ a = p * q + r
  BY Division
<1> HIDE DEF q, r
<1>2. a + p * c = p * (q + c) + r /\ q + c \in Int /\ a + p * c \in Int
  BY <1>1
<1>3. (a + p * c) \div p = q + c /\ (a + p * c) % p = r
  BY <1>1, <1>2, DivisionUnique
<1> QED BY <1>3 DEF q, r

LEMMA DivideTwice ==
    ASSUME NEW p \in Nat \ {0}, NEW q \in Nat \ {0}, NEW a \in Int
    PROVE  /\ (a \div p) \div q = a \div (p * q)
           /\ a % (p * q) = p * ((a \div p) % q) + (a % p)
  OBVIOUS

-----------------------------------------------------------------------------
\* Powers of two.
LEMMA TwoToPositive == \A n \in Nat : TwoTo[n] \in Nat \ {0}
<1> DEFINE S == {n \in Nat : TwoTo[n] \in Nat \ {0}}
<1>1. 0 \in S
  BY TwoToRecursion
<1>2. ASSUME NEW n \in Nat, n \in S PROVE n + 1 \in S
  <2>1. TwoTo[n + 1] = 2 * TwoTo[n] /\ TwoTo[n] \in Nat \ {0}
    BY <1>2, TwoToRecursion
  <2> QED BY <2>1
<1> HIDE DEF S
<1>3. Nat \subseteq S
  BY <1>1, <1>2, SetInduction
<1> QED BY <1>3 DEF S

LEMMA TwoToSum == \A m, n \in Nat : TwoTo[m + n] = TwoTo[m] * TwoTo[n]
<1> SUFFICES ASSUME NEW m \in Nat
             PROVE  \A n \in Nat : TwoTo[m + n] = TwoTo[m] * TwoTo[n]
  OBVIOUS
<1> DEFINE S == {n \in Nat : TwoTo[m + n] = TwoTo[m] * TwoTo[n]}
<1>1. 0 \in S
  BY TwoToRecursion, TwoToPositive
<1>2. ASSUME NEW n \in Nat, n \in S PROVE n + 1 \in S
  <2>1. TwoTo[m] \in Nat /\ TwoTo[n] \in Nat
    BY TwoToPositive
  <2>2. m + n \in Nat /\ m + (n + 1) = (m + n) + 1
    OBVIOUS
  <2>3. TwoTo[m + (n + 1)] = 2 * TwoTo[m + n] /\ TwoTo[n + 1] = 2 * TwoTo[n]
    BY <2>2, TwoToRecursion
  <2>4. TwoTo[m + (n + 1)] = TwoTo[m] * TwoTo[n + 1]
    BY <1>2, <2>1, <2>3
  <2> QED BY <2>4
<1> HIDE DEF S
<1>3. Nat \subseteq S
  BY <1>1, <1>2, SetInduction
<1> QED BY <1>3 DEF S

LEMMA TwoToMonotone ==
    ASSUME NEW m \in Nat, NEW n \in Nat, m <= n
    PROVE  /\ n - m \in Nat /\ TwoTo[n] = TwoTo[m] * TwoTo[n - m]
           /\ TwoTo[m] <= TwoTo[n]
<1>1. n - m \in Nat /\ m + (n - m) = n
  OBVIOUS
<1>2. TwoTo[n] = TwoTo[m] * TwoTo[n - m]
  BY <1>1, TwoToSum
<1>3. TwoTo[n - m] \in Nat \ {0} /\ TwoTo[m] \in Nat
  BY <1>1, TwoToPositive
<1>4. TwoTo[m] * TwoTo[n - m] >= TwoTo[m]
  BY <1>3
<1> QED BY <1>1, <1>2, <1>4

\* The powers the formats and the immediates are made of.
LEMMA TwoToValues ==
    /\ TwoTo[0] = 1 /\ TwoTo[1] = 2 /\ TwoTo[2] = 4 /\ TwoTo[3] = 8 /\ TwoTo[4] = 16
    /\ TwoTo[5] = 32 /\ TwoTo[6] = 64 /\ TwoTo[7] = 128 /\ TwoTo[8] = 256
    /\ TwoTo[10] = 1024 /\ TwoTo[11] = 2048 /\ TwoTo[12] = 4096 /\ TwoTo[13] = 8192
    /\ TwoTo[20] = 1048576 /\ TwoTo[21] = 2097152
<1>1. /\ TwoTo[0] = 1 /\ TwoTo[1] = 2 /\ TwoTo[2] = 4 /\ TwoTo[3] = 8
      /\ TwoTo[4] = 16 /\ TwoTo[5] = 32
  <2>1. /\ TwoTo[0 + 1] = 2 * TwoTo[0] /\ TwoTo[1 + 1] = 2 * TwoTo[1]
        /\ TwoTo[2 + 1] = 2 * TwoTo[2] /\ TwoTo[3 + 1] = 2 * TwoTo[3]
        /\ TwoTo[4 + 1] = 2 * TwoTo[4] /\ TwoTo[0] = 1
    BY TwoToRecursion
  <2> QED BY <2>1
<1>2. /\ TwoTo[5 + 1] = TwoTo[5] * TwoTo[1] /\ TwoTo[5 + 2] = TwoTo[5] * TwoTo[2]
      /\ TwoTo[5 + 3] = TwoTo[5] * TwoTo[3] /\ TwoTo[5 + 5] = TwoTo[5] * TwoTo[5]
  BY TwoToSum
<1>3. /\ TwoTo[6] = 64 /\ TwoTo[7] = 128 /\ TwoTo[8] = 256 /\ TwoTo[10] = 1024
  BY <1>1, <1>2
<1>4. /\ TwoTo[10 + 1] = TwoTo[10] * TwoTo[1] /\ TwoTo[10 + 2] = TwoTo[10] * TwoTo[2]
      /\ TwoTo[10 + 3] = TwoTo[10] * TwoTo[3] /\ TwoTo[10 + 10] = TwoTo[10] * TwoTo[10]
  BY TwoToSum
<1>5. /\ TwoTo[11] = 2048 /\ TwoTo[12] = 4096 /\ TwoTo[13] = 8192
      /\ TwoTo[20] = 1048576
  BY <1>1, <1>3, <1>4
<1>6. TwoTo[20 + 1] = 2 * TwoTo[20]
  BY TwoToRecursion
<1>7. TwoTo[21] = 2097152
  BY <1>5, <1>6
<1> QED BY <1>1, <1>3, <1>5, <1>7

-----------------------------------------------------------------------------
LEMMA BitType == ASSUME NEW w \in Int, NEW k \in Nat PROVE Bit(w, k) \in {0, 1}
<1>1. TwoTo[k] \in Nat \ {0}
  BY TwoToPositive
<1>2. w \div TwoTo[k] \in Int
  BY <1>1
<1> QED BY <1>2 DEF Bit

\* The partial sums of FromBits.
Sums(value, bit, size) ==
    /\ value \in [0 .. size -> Int] /\ value[0] = 0
    /\ \A n \in 0 .. size - 1 : value[n + 1] = value[n] + bit[n] * TwoTo[n]

\* FromBits is the last of its partial sums.
LEMMA FromBitsSums ==
    ASSUME NEW size \in Nat, NEW bit \in [0 .. size - 1 -> Int]
    PROVE  \E value : Sums(value, bit, size) /\ FromBits(bit, size) = value[size]
<1> DEFINE Term(n) == IF n < size THEN bit[n] * TwoTo[n] ELSE 0
           step == [n \in Nat |-> [x \in Int |-> x + Term(n)]]
<1>0. ASSUME NEW n \in Nat PROVE Term(n) \in Int
  <2>1. TwoTo[n] \in Int /\ (n < size => n \in 0 .. size - 1)
    BY TwoToPositive
  <2> QED BY <2>1
<1>1. PICK f : Follows(f, 0, step)
  <2>1. step \in [Nat -> [Int -> Int]]
    <3> HIDE DEF Term
    <3> QED BY <1>0
  <2>2. 0 \in Int
    OBVIOUS
  <2> HIDE DEF step
  <2> QED BY <2>1, <2>2, RecursionExists, Zenon
<1> DEFINE Eq(v) == v = [n \in 0 .. size |->
                          IF n = 0 THEN 0 ELSE v[n - 1] + bit[n - 1] * TwoTo[n - 1]]
           g == [n \in 0 .. size |-> f[n]]
<1>2. Eq(g)
  <2>1. ASSUME NEW n \in 0 .. size
        PROVE  g[n] = IF n = 0 THEN 0 ELSE g[n - 1] + bit[n - 1] * TwoTo[n - 1]
    <3>1. CASE n = 0
      BY <1>1, <3>1 DEF Follows
    <3>2. CASE n # 0
      <4>1. n - 1 \in Nat /\ (n - 1) + 1 = n /\ n - 1 < size /\ n - 1 \in 0 .. size
        BY <3>2
      <4>2. f[n] = step[n - 1][f[n - 1]] /\ f[n - 1] \in Int
        <5> HIDE DEF step
        <5> QED BY <1>1, <4>1 DEF Follows
      <4>3. f[n] = f[n - 1] + Term(n - 1)
        <5> HIDE DEF Term
        <5> QED BY <4>1, <4>2
      <4> QED BY <3>2, <4>1, <4>3
    <3> QED BY <3>1, <3>2
  <2> HIDE DEF g
  <2>2. g = [n \in 0 .. size |-> g[n]]
    BY DEF g
  <2> QED BY <2>1, <2>2
<1> DEFINE value == CHOOSE v : Eq(v)
<1>3. Eq(value)
  <2> HIDE DEF Eq, g
  <2> QED BY <1>2
<1>4. FromBits(bit, size) = value[size]
  BY DEF FromBits
<1> HIDE DEF value
<1>5. value[0] = 0
  BY <1>3
<1>6. ASSUME NEW n \in 0 .. size - 1 PROVE value[n + 1] = value[n] + bit[n] * TwoTo[n]
  <2>1. n + 1 \in 0 .. size /\ n + 1 # 0 /\ (n + 1) - 1 = n
    OBVIOUS
  <2> QED BY <1>3, <2>1
<1> DEFINE S == {n \in Nat : n <= size => value[n] \in Int}
<1>7. Nat \subseteq S
  <2>1. 0 \in S
    BY <1>5
  <2>2. ASSUME NEW n \in Nat, n \in S PROVE n + 1 \in S
    <3>1. CASE n + 1 <= size
      <4>1. n \in 0 .. size - 1 /\ value[n] \in Int /\ TwoTo[n] \in Int /\ bit[n] \in Int
        BY <2>2, <3>1, TwoToPositive
      <4> QED BY <1>6, <4>1
    <3>2. CASE ~(n + 1 <= size)
      BY <3>2
    <3> QED BY <3>1, <3>2
  <2> HIDE DEF S
  <2> QED BY <2>1, <2>2, SetInduction
<1>8. value \in [0 .. size -> Int]
  <2>1. ASSUME NEW n \in 0 .. size PROVE value[n] \in Int
    BY <1>7
  <2> HIDE DEF S
  <2> QED BY <1>3, <2>1
<1>9. Sums(value, bit, size)
  BY <1>5, <1>6, <1>8 DEF Sums
<1> QED BY <1>4, <1>9

\* The sum of the lowest n bits is below 2 ^ n.
LEMMA SumsRange ==
    ASSUME NEW size \in Nat, NEW bit \in [0 .. size - 1 -> {0, 1}], NEW value,
           Sums(value, bit, size)
    PROVE  \A n \in 0 .. size : value[n] \in 0 .. TwoTo[n] - 1
<1> DEFINE S == {n \in Nat : n <= size => value[n] \in 0 .. TwoTo[n] - 1}
<1>1. 0 \in S
  <2>1. value[0] = 0 /\ TwoTo[0] = 1
    BY TwoToRecursion DEF Sums
  <2> QED BY <2>1
<1>2. ASSUME NEW n \in Nat, n \in S PROVE n + 1 \in S
  <2>1. CASE n + 1 <= size
    <3>1. n \in 0 .. size - 1 /\ value[n] \in 0 .. TwoTo[n] - 1 /\ bit[n] \in {0, 1}
      BY <1>2, <2>1
    <3>2. value[n + 1] = value[n] + bit[n] * TwoTo[n]
      BY <3>1 DEF Sums
    <3>3. TwoTo[n] \in Nat /\ TwoTo[n + 1] = 2 * TwoTo[n]
      BY TwoToPositive, TwoToRecursion
    <3> DEFINE v == value[n]
               t == TwoTo[n]
    <3>4. bit[n] * t \in {0, t}
      BY <3>1, <3>3
    <3> HIDE DEF v, t
    <3>5. v \in 0 .. t - 1 /\ t \in Nat /\ TwoTo[n + 1] = 2 * t
      BY <3>1, <3>3 DEF v, t
    <3>6. value[n + 1] \in {v, v + t}
      BY <3>2, <3>4, <3>5 DEF v, t
    <3>7. v \in 0 .. 2 * t - 1 /\ v + t \in 0 .. 2 * t - 1
      BY <3>5
    <3> QED BY <3>5, <3>6, <3>7
  <2>2. CASE ~(n + 1 <= size)
    BY <2>2
  <2> QED BY <2>1, <2>2
<1> HIDE DEF S
<1>3. Nat \subseteq S
  BY <1>1, <1>2, SetInduction
<1> QED BY <1>3 DEF S

\* Bit k does not see multiples of a higher power of two.
LEMMA BitOfMultiple ==
    ASSUME NEW k \in Nat, NEW n \in Nat, k < n, NEW a \in Int, NEW b \in Int
    PROVE  Bit(a + b * TwoTo[n], k) = Bit(a, k)
<1>1. k + 1 \in Nat /\ k + 1 <= n
  OBVIOUS
<1> DEFINE p == TwoTo[k]
           c == TwoTo[n - (k + 1)]
<1>2. p \in Nat \ {0} /\ c \in Nat /\ TwoTo[n] = 2 * p * c
  <2>1. TwoTo[n] = TwoTo[k + 1] * c /\ n - (k + 1) \in Nat
    BY <1>1, TwoToMonotone
  <2>2. TwoTo[k + 1] = 2 * p
    BY TwoToRecursion
  <2> QED BY <2>1, <2>2, TwoToPositive
<1> HIDE DEF p, c
<1>3. b * TwoTo[n] = p * (2 * (b * c)) /\ 2 * (b * c) \in Int /\ b * c \in Int
  BY <1>2
<1>4. (a + b * TwoTo[n]) \div p = (a \div p) + 2 * (b * c)
  BY <1>2, <1>3, AddMultiple
<1>5. a \div p \in Int
  BY <1>2
<1>6. ((a \div p) + 2 * (b * c)) % 2 = (a \div p) % 2
  BY <1>3, <1>5
<1> QED BY <1>4, <1>6 DEF Bit, p

\* A number below 2 ^ n has no bits from n on.
LEMMA BitAbove ==
    ASSUME NEW n \in Nat, NEW k \in Nat, n <= k, NEW w \in 0 .. TwoTo[n] - 1
    PROVE  Bit(w, k) = 0
<1>1. TwoTo[k] \in Nat \ {0} /\ TwoTo[n] \in Nat /\ w \in 0 .. TwoTo[k] - 1
  BY TwoToPositive, TwoToMonotone
<1>2. w = TwoTo[k] * 0 + w
  BY <1>1
<1>3. w \div TwoTo[k] = 0
  BY <1>1, <1>2, DivisionUnique
<1> QED BY <1>3 DEF Bit

\* Bit n of b * 2 ^ n + a, with a below 2 ^ n, is b.
LEMMA TopBit ==
    ASSUME NEW n \in Nat, NEW a \in 0 .. TwoTo[n] - 1, NEW b \in {0, 1}
    PROVE  Bit(a + b * TwoTo[n], n) = b
<1>1. TwoTo[n] \in Nat \ {0}
  BY TwoToPositive
<1>2. (a + b * TwoTo[n]) = TwoTo[n] * b + a /\ a + b * TwoTo[n] \in Int
  BY <1>1
<1>3. (a + b * TwoTo[n]) \div TwoTo[n] = b
  BY <1>1, <1>2, DivisionUnique
<1> QED BY <1>3 DEF Bit

\* FromBits makes a number of that many bits.
LEMMA FromBitsRange ==
    ASSUME NEW size \in Nat, NEW bit \in [0 .. size - 1 -> {0, 1}]
    PROVE  FromBits(bit, size) \in 0 .. TwoTo[size] - 1
<1>1. bit \in [0 .. size - 1 -> Int]
  OBVIOUS
<1>2. PICK value : Sums(value, bit, size) /\ FromBits(bit, size) = value[size]
  BY <1>1, FromBitsSums
<1> QED BY <1>2, SumsRange

\* The bits of FromBits are the ones it was given.
LEMMA BitOfFromBits ==
    ASSUME NEW size \in Nat, NEW bit \in [0 .. size - 1 -> {0, 1}], NEW k \in 0 .. size - 1
    PROVE  Bit(FromBits(bit, size), k) = bit[k]
<1>1. bit \in [0 .. size - 1 -> Int]
  OBVIOUS
<1>2. PICK value : Sums(value, bit, size) /\ FromBits(bit, size) = value[size]
  BY <1>1, FromBitsSums
<1> DEFINE S == {n \in Nat : n < size /\ k <= n => Bit(value[n + 1], k) = bit[k]}
<1>3. ASSUME NEW n \in Nat, n < size, k <= n, n # k => Bit(value[n], k) = bit[k]
      PROVE  Bit(value[n + 1], k) = bit[k]
  <2>1. n \in 0 .. size - 1 /\ n \in 0 .. size
    BY <1>3
  <2>2. value[n + 1] = value[n] + bit[n] * TwoTo[n]
    BY <1>2, <2>1 DEF Sums
  <2>3. value[n] \in 0 .. TwoTo[n] - 1 /\ value[n] \in Int /\ bit[n] \in {0, 1}
    BY <1>2, <2>1, SumsRange DEF Sums
  <2>4. CASE n = k
    BY <2>2, <2>3, <2>4, TopBit
  <2>5. CASE k < n
    <3>1. Bit(value[n] + bit[n] * TwoTo[n], k) = Bit(value[n], k)
      <4> DEFINE a == value[n]
                 b == bit[n]
      <4>1. a \in Int /\ b \in Int /\ k \in Nat
        BY <2>3
      <4> HIDE DEF a, b
      <4>2. Bit(a + b * TwoTo[n], k) = Bit(a, k)
        BY <2>5, <4>1, BitOfMultiple
      <4> QED BY <4>2 DEF a, b
    <3> QED BY <1>3, <2>2, <2>5, <3>1
  <2> QED BY <1>3, <2>4, <2>5
<1>4. 0 \in S
  BY <1>3
<1>5. ASSUME NEW n \in Nat, n \in S PROVE n + 1 \in S
  <2> SUFFICES ASSUME n + 1 < size, k <= n + 1 PROVE Bit(value[(n + 1) + 1], k) = bit[k]
    OBVIOUS
  <2>1. n + 1 # k => Bit(value[n + 1], k) = bit[k]
    BY <1>5
  <2> QED BY <1>3, <2>1
<1> HIDE DEF S
<1>6. Nat \subseteq S
  BY <1>4, <1>5, SetInduction
<1>7. size - 1 \in S /\ (size - 1) + 1 = size /\ size - 1 < size /\ k <= size - 1
  BY <1>6
<1> QED BY <1>2, <1>7 DEF S

(***************************************************************************)
(* Put together again, the lowest bits of a number are the number modulo a *)
(* power of two.                                                           *)
(***************************************************************************)
LEMMA FromBitsOfNumber ==
    ASSUME NEW size \in Nat, NEW w \in Int, NEW bit,
           bit = [k \in 0 .. size - 1 |-> Bit(w, k)]
    PROVE  FromBits(bit, size) = w % TwoTo[size]
<1>1. bit \in [0 .. size - 1 -> Int]
  <2>1. \A k \in 0 .. size - 1 : Bit(w, k) \in Int
    BY BitType
  <2> QED BY <2>1
<1>2. PICK value : Sums(value, bit, size) /\ FromBits(bit, size) = value[size]
  BY <1>1, FromBitsSums
<1> DEFINE S == {n \in Nat : n <= size => value[n] = w % TwoTo[n]}
<1>3. 0 \in S
  BY <1>2, TwoToRecursion DEF Sums
<1>4. ASSUME NEW n \in Nat, n \in S PROVE n + 1 \in S
  <2> SUFFICES ASSUME n + 1 <= size PROVE value[n + 1] = w % TwoTo[n + 1]
    OBVIOUS
  <2>1. n \in 0 .. size - 1 /\ value[n] = w % TwoTo[n]
    BY <1>4
  <2>2. value[n + 1] = (w % TwoTo[n]) + Bit(w, n) * TwoTo[n]
    BY <1>2, <2>1 DEF Sums
  <2>3. TwoTo[n + 1] = TwoTo[n] * 2 /\ TwoTo[n] \in Nat \ {0} /\ 2 \in Nat \ {0}
    <3>1. TwoTo[n + 1] = 2 * TwoTo[n] /\ TwoTo[n] \in Nat \ {0}
      BY TwoToRecursion, TwoToPositive
    <3> QED BY <3>1
  <2>4. w % TwoTo[n + 1] = TwoTo[n] * ((w \div TwoTo[n]) % 2) + (w % TwoTo[n])
    <3>1. w % (TwoTo[n] * 2) = TwoTo[n] * ((w \div TwoTo[n]) % 2) + (w % TwoTo[n])
      BY <2>3, DivideTwice
    <3> QED BY <2>3, <3>1
  <2>5. Bit(w, n) \in Int /\ w % TwoTo[n] \in Int
    BY <2>3, BitType
  <2>6. w % TwoTo[n + 1] = TwoTo[n] * Bit(w, n) + (w % TwoTo[n])
    BY <2>4 DEF Bit
  <2> QED BY <2>2, <2>3, <2>5, <2>6
<1> HIDE DEF S
<1>5. Nat \subseteq S
  BY <1>3, <1>4, SetInduction
<1> QED BY <1>2, <1>5 DEF S

\* FromBits adds bit by bit when no position carries.
LEMMA FromBitsAdd ==
    ASSUME NEW size \in Nat, NEW a \in [0 .. size - 1 -> Int], NEW b \in [0 .. size - 1 -> Int],
           NEW c \in [0 .. size - 1 -> Int], \A k \in 0 .. size - 1 : c[k] = a[k] + b[k]
    PROVE  FromBits(c, size) = FromBits(a, size) + FromBits(b, size)
<1>1. PICK u : Sums(u, a, size) /\ FromBits(a, size) = u[size]
  BY FromBitsSums
<1>2. PICK v : Sums(v, b, size) /\ FromBits(b, size) = v[size]
  BY FromBitsSums
<1>3. PICK w : Sums(w, c, size) /\ FromBits(c, size) = w[size]
  BY FromBitsSums
<1> DEFINE S == {n \in Nat : n <= size => w[n] = u[n] + v[n]}
<1>4. 0 \in S
  BY <1>1, <1>2, <1>3 DEF Sums
<1>5. ASSUME NEW n \in Nat, n \in S PROVE n + 1 \in S
  <2> SUFFICES ASSUME n + 1 <= size PROVE w[n + 1] = u[n + 1] + v[n + 1]
    OBVIOUS
  <2>1. n \in 0 .. size - 1 /\ n \in 0 .. size /\ w[n] = u[n] + v[n]
    BY <1>5
  <2>2. /\ u[n + 1] = u[n] + a[n] * TwoTo[n]
        /\ v[n + 1] = v[n] + b[n] * TwoTo[n]
        /\ w[n + 1] = w[n] + c[n] * TwoTo[n]
    BY <1>1, <1>2, <1>3, <2>1 DEF Sums
  <2>3. u[n] \in Int /\ v[n] \in Int /\ TwoTo[n] \in Int
    <3>1. u \in [0 .. size -> Int] /\ v \in [0 .. size -> Int]
      BY <1>1, <1>2 DEF Sums
    <3>2. TwoTo[n] \in Int
      BY TwoToPositive
    <3> QED BY <2>1, <3>1, <3>2
  <2>4. a[n] \in Int /\ b[n] \in Int /\ c[n] = a[n] + b[n]
    BY <2>1
  <2>5. (a[n] + b[n]) * TwoTo[n] = a[n] * TwoTo[n] + b[n] * TwoTo[n]
    BY <2>3, <2>4
  <2>6. a[n] * TwoTo[n] \in Int /\ b[n] * TwoTo[n] \in Int
    BY <2>3, <2>4
  <2> DEFINE x == a[n] * TwoTo[n]
             y == b[n] * TwoTo[n]
  <2>7. u[n + 1] = u[n] + x /\ v[n + 1] = v[n] + y /\ w[n + 1] = w[n] + (x + y)
    BY <2>2, <2>4, <2>5
  <2>8. x \in Int /\ y \in Int
    BY <2>6
  <2> HIDE DEF x, y
  <2>9. (u[n] + v[n]) + (x + y) = (u[n] + x) + (v[n] + y)
    BY <2>3, <2>8
  <2> QED BY <2>1, <2>7, <2>9
<1> HIDE DEF S
<1>6. Nat \subseteq S
  BY <1>4, <1>5, SetInduction
<1> QED BY <1>1, <1>2, <1>3, <1>6 DEF S

-----------------------------------------------------------------------------
\* Words: there are at least two of them, and Wrap yields one.
LEMMA ModulusType ==
    /\ Modulus \in Nat \ {0, 1} /\ 0 \in WordSet /\ 1 \in WordSet
    /\ \A n \in Int : Wrap(n) \in WordSet
<1>1. WordBits - 1 \in Nat /\ (WordBits - 1) + 1 = WordBits
  BY WidthAssumption
<1>2. TwoTo[WordBits] = 2 * TwoTo[WordBits - 1] /\ TwoTo[WordBits - 1] \in Nat \ {0}
  <2>1. TwoTo[(WordBits - 1) + 1] = 2 * TwoTo[WordBits - 1]
    BY <1>1, TwoToRecursion
  <2> QED BY <1>1, <2>1, TwoToPositive
<1>3. Modulus \in Nat \ {0, 1}
  BY <1>2 DEF Modulus
<1> QED BY <1>3 DEF WordSet, Wrap

(***************************************************************************)
(* And, exclusive or and or yield words, and do on every bit what they     *)
(* say. In particular the or of two words, made of their and and exclusive *)
(* or, does not overflow.                                                  *)
(***************************************************************************)
LEMMA BitwiseWords ==
    ASSUME NEW a \in Int, NEW b \in Int
    PROVE  /\ BitAnd(a, b) \in WordSet /\ BitXor(a, b) \in WordSet /\ BitOr(a, b) \in WordSet
           /\ \A k \in 0 .. WordBits - 1 :
                 /\ Bit(BitAnd(a, b), k) = IF Bit(a, k) = 1 /\ Bit(b, k) = 1 THEN 1 ELSE 0
                 /\ Bit(BitXor(a, b), k) = IF Bit(a, k) # Bit(b, k) THEN 1 ELSE 0
                 /\ Bit(BitOr(a, b), k) = IF Bit(a, k) = 1 \/ Bit(b, k) = 1 THEN 1 ELSE 0
<1> DEFINE both   == [k \in 0 .. WordBits - 1 |-> Bit(a, k) * Bit(b, k)]
           differ == [k \in 0 .. WordBits - 1 |-> (Bit(a, k) + Bit(b, k)) % 2]
           either == [k \in 0 .. WordBits - 1 |-> both[k] + differ[k]]
<1>1. ASSUME NEW k \in 0 .. WordBits - 1
      PROVE  /\ both[k] \in {0, 1} /\ differ[k] \in {0, 1} /\ both[k] + differ[k] \in {0, 1}
             /\ both[k] = IF Bit(a, k) = 1 /\ Bit(b, k) = 1 THEN 1 ELSE 0
             /\ differ[k] = IF Bit(a, k) # Bit(b, k) THEN 1 ELSE 0
             /\ either[k] = IF Bit(a, k) = 1 \/ Bit(b, k) = 1 THEN 1 ELSE 0
  <2>1. Bit(a, k) \in {0, 1} /\ Bit(b, k) \in {0, 1}
    BY BitType
  <2> QED BY <2>1
<1>2. /\ both \in [0 .. WordBits - 1 -> {0, 1}] /\ differ \in [0 .. WordBits - 1 -> {0, 1}]
      /\ either \in [0 .. WordBits - 1 -> {0, 1}]
      /\ \A k \in 0 .. WordBits - 1 : either[k] = both[k] + differ[k]
  <2>1. \A k \in 0 .. WordBits - 1 :
            both[k] \in {0, 1} /\ differ[k] \in {0, 1} /\ both[k] + differ[k] \in {0, 1}
    BY <1>1
  <2> QED BY <2>1
<1>3. BitAnd(a, b) = FromBits(both, WordBits) /\ BitXor(a, b) = FromBits(differ, WordBits)
  BY DEF BitAnd, BitXor
<1> HIDE DEF both, differ, either
<1>4. /\ both \in [0 .. WordBits - 1 -> Int] /\ differ \in [0 .. WordBits - 1 -> Int]
      /\ either \in [0 .. WordBits - 1 -> Int]
  BY <1>2
<1>5. BitOr(a, b) = FromBits(either, WordBits)
  <2>1. FromBits(either, WordBits) = FromBits(both, WordBits) + FromBits(differ, WordBits)
    BY <1>2, <1>4, FromBitsAdd, WidthAssumption
  <2> QED BY <1>3, <2>1 DEF BitOr
<1>6. BitAnd(a, b) \in WordSet /\ BitXor(a, b) \in WordSet /\ BitOr(a, b) \in WordSet
  BY <1>2, <1>3, <1>5, FromBitsRange, WidthAssumption DEF WordSet, Modulus
<1>7. ASSUME NEW k \in 0 .. WordBits - 1
      PROVE  /\ Bit(BitAnd(a, b), k) = both[k] /\ Bit(BitXor(a, b), k) = differ[k]
             /\ Bit(BitOr(a, b), k) = either[k]
  BY <1>2, <1>3, <1>5, BitOfFromBits, WidthAssumption
<1> QED BY <1>1, <1>6, <1>7

(***************************************************************************)
(* Words with the same bits are equal; bits above n being zero in both     *)
(* operands, they are zero in the disjunction.                             *)
(***************************************************************************)
LEMMA SameBitsSameWord ==
    ASSUME NEW v \in WordSet, NEW w \in WordSet,
           \A k \in 0 .. WordBits - 1 : Bit(v, k) = Bit(w, k)
    PROVE  v = w
<1> DEFINE bit == [k \in 0 .. WordBits - 1 |-> Bit(v, k)]
<1>1. bit = [k \in 0 .. WordBits - 1 |-> Bit(w, k)]
  OBVIOUS
<1>2. v \in Int /\ w \in Int /\ WordBits \in Nat
  BY WidthAssumption DEF WordSet
<1>3. FromBits(bit, WordBits) = v % TwoTo[WordBits]
  BY <1>2, FromBitsOfNumber
<1>4. FromBits(bit, WordBits) = w % TwoTo[WordBits]
  <2> HIDE DEF bit
  <2> QED BY <1>1, <1>2, FromBitsOfNumber
<1>5. v % Modulus = v /\ w % Modulus = w
  <2>1. /\ v \in Nat /\ w \in Nat /\ v < Modulus /\ w < Modulus /\ Modulus \in Nat \ {0}
    BY ModulusType DEF WordSet
  <2> QED BY <2>1
<1> QED BY <1>3, <1>4, <1>5 DEF Modulus

LEMMA BitOrRange ==
    ASSUME NEW n \in 0 .. WordBits, NEW a \in 0 .. TwoTo[n] - 1, NEW b \in 0 .. TwoTo[n] - 1
    PROVE  BitOr(a, b) \in 0 .. TwoTo[n] - 1
<1> DEFINE r   == BitOr(a, b)
           bit == [k \in 0 .. n - 1 |-> Bit(r, k)]
           c   == FromBits(bit, n)
<1>1. n \in Nat /\ TwoTo[n] \in Nat \ {0} /\ a \in Int /\ b \in Int
  BY TwoToPositive
<1>2. /\ r \in WordSet
      /\ \A k \in 0 .. WordBits - 1 :
            Bit(r, k) = IF Bit(a, k) = 1 \/ Bit(b, k) = 1 THEN 1 ELSE 0
  BY <1>1, BitwiseWords
<1> HIDE DEF r
<1>3. bit \in [0 .. n - 1 -> {0, 1}]
  <2>1. \A k \in 0 .. n - 1 : k \in 0 .. WordBits - 1
    BY <1>1, WidthAssumption
  <2>2. \A k \in 0 .. n - 1 : Bit(r, k) \in {0, 1}
    BY <1>2, <2>1
  <2> QED BY <2>2
<1>4. c \in 0 .. TwoTo[n] - 1 /\ \A k \in 0 .. n - 1 : Bit(c, k) = Bit(r, k)
  <2>1. \A k \in 0 .. n - 1 : bit[k] = Bit(r, k)
    OBVIOUS
  <2> HIDE DEF bit
  <2>2. c \in 0 .. TwoTo[n] - 1
    BY <1>1, <1>3, FromBitsRange
  <2>3. \A k \in 0 .. n - 1 : Bit(c, k) = bit[k]
    BY <1>1, <1>3, BitOfFromBits
  <2> QED BY <2>1, <2>2, <2>3
<1> HIDE DEF c
<1>5. c \in WordSet
  <2>1. TwoTo[n] <= Modulus
    BY <1>1, TwoToMonotone, WidthAssumption DEF Modulus
  <2> QED BY <1>1, <1>4, <2>1, ModulusType DEF WordSet
<1>6. ASSUME NEW k \in 0 .. WordBits - 1 PROVE Bit(c, k) = Bit(r, k)
  <2>1. CASE k < n
    BY <1>1, <1>4, <2>1
  <2>2. CASE ~(k < n)
    <3>1. k \in Nat /\ n <= k
      BY <1>1, <2>2
    <3>2. Bit(a, k) = 0 /\ Bit(b, k) = 0 /\ Bit(c, k) = 0
      BY <1>1, <1>4, <3>1, BitAbove
    <3> QED BY <1>2, <3>2
  <2> QED BY <2>1, <2>2
<1>7. c = r
  BY <1>2, <1>5, <1>6, SameBitsSameWord
<1> QED BY <1>4, <1>7 DEF r

\* A number of WordBits - n bits, moved up by n, is a word.
LEMMA ShiftLeftBound ==
    ASSUME NEW n \in 0 .. WordBits, NEW x \in 0 .. TwoTo[WordBits - n] - 1
    PROVE  x * TwoTo[n] \in WordSet
<1> DEFINE p == TwoTo[WordBits - n]
           q == TwoTo[n]
<1>1. p \in Nat \ {0} /\ q \in Nat \ {0} /\ Modulus = p * q
  <2>1. n \in Nat /\ WordBits - n \in Nat /\ (WordBits - n) + n = WordBits
    BY WidthAssumption
  <2>2. TwoTo[(WordBits - n) + n] = TwoTo[WordBits - n] * TwoTo[n]
    BY <2>1, TwoToSum
  <2> QED BY <2>1, <2>2, TwoToPositive DEF Modulus
<1> HIDE DEF p, q
<1>2. x \in Nat /\ x <= p - 1
  BY <1>1 DEF p
<1>3. x * q <= (p - 1) * q /\ x * q \in Nat
  BY <1>1, <1>2
<1>4. (p - 1) * q = p * q - q
  BY <1>1
<1> QED BY <1>1, <1>3, <1>4 DEF WordSet, q

\* Both shifts of a word are words.
LEMMA ShiftType ==
    ASSUME NEW w \in WordSet, NEW n \in Nat
    PROVE  ShiftLeft(w, n) \in WordSet /\ ShiftRight(w, n) \in WordSet
<1>1. w \in Nat /\ w <= Modulus - 1 /\ Modulus \in Nat
  BY ModulusType DEF WordSet
<1>2. ShiftLeft(w, n) \in WordSet
  <2>1. CASE n < WordBits
    <3>1. n \in 0 .. WordBits /\ WordBits - n \in Nat
      BY <2>1, WidthAssumption
    <3>2. TwoTo[WordBits - n] \in Nat \ {0}
      BY <3>1, TwoToPositive
    <3>3. w % TwoTo[WordBits - n] \in 0 .. TwoTo[WordBits - n] - 1
      BY <1>1, <3>2
    <3> QED BY <2>1, <3>1, <3>3, ShiftLeftBound DEF ShiftLeft
  <2>2. CASE ~(n < WordBits)
    BY <2>2, ModulusType DEF ShiftLeft
  <2> QED BY <2>1, <2>2
<1>3. ShiftRight(w, n) \in WordSet
  <2>1. TwoTo[n] \in Nat \ {0}
    BY TwoToPositive
  <2>2. w \div TwoTo[n] \in 0 .. w
    BY <1>1, <2>1
  <2> QED BY <1>1, <2>2, ModulusType DEF ShiftRight, WordSet
<1> QED BY <1>2, <1>3

LEMMA SignedType == ASSUME NEW w \in WordSet PROVE Signed(w) \in Int
  BY ModulusType DEF Signed, WordSet

\* Whatever the function and the operands, alu_processing computes a word.
LEMMA ComputeType ==
    ASSUME NEW func \in AluFunc, NEW a \in WordSet, NEW b \in Int
    PROVE  Compute(func, a, b) \in WordSet
<1>1. a \in Int /\ b % 32 \in Nat
  BY DEF WordSet
<1>2. Signed(a) \in Int
  BY SignedType
<1>3. Wrap(a + b) \in WordSet /\ Wrap(a - b) \in WordSet
  <2>1. a + b \in Int /\ a - b \in Int
    BY <1>1
  <2> QED BY <2>1, ModulusType
<1>4. BitAnd(a, b) \in WordSet /\ BitOr(a, b) \in WordSet /\ BitXor(a, b) \in WordSet
  BY <1>1, BitwiseWords
<1>5. \A condition : Truth(condition) \in WordSet
  BY ModulusType DEF Truth
<1>6. ShiftLeft(a, b % 32) \in WordSet /\ ShiftRight(a, b % 32) \in WordSet
  BY <1>1, ShiftType
<1>7. ShiftArithmetic(a, b) \in WordSet
  <2> DEFINE n == IF b % 32 < WordBits THEN b % 32 ELSE WordBits - 1
  <2>1. n \in Nat
    BY <1>1, WidthAssumption
  <2>2. TwoTo[n] \in Nat \ {0}
    BY <2>1, TwoToPositive
  <2> HIDE DEF n
  <2>3. Signed(a) \div TwoTo[n] \in Int
    BY <1>2, <2>2
  <2>4. Wrap(Signed(a) \div TwoTo[n]) \in WordSet
    BY <2>3, ModulusType
  <2> QED BY <2>4 DEF ShiftArithmetic, n
<1> QED
  BY <1>3, <1>4, <1>5, <1>6, <1>7, ModulusType DEF Compute, AluFunc

(***************************************************************************)
(* What the stages of Cpu::Clock make of an instruction object is one.     *)
(***************************************************************************)
LEMMA ValueType ==
    ASSUME NEW i \in InstructionObject, NEW v \in WordSet
    PROVE  /\ [i EXCEPT !.src1Val = v] \in InstructionObject
           /\ [i EXCEPT !.src2Val = v] \in InstructionObject
           /\ [i EXCEPT !.csrVal = v] \in InstructionObject
           /\ [i EXCEPT !.data = v] \in InstructionObject
           /\ [i EXCEPT !.addr = v] \in InstructionObject
           /\ [i EXCEPT !.nextIp = v] \in InstructionObject
<1>1. [i EXCEPT !.src1Val = v] \in InstructionObject
  BY DEF InstructionObject
<1>2. [i EXCEPT !.src2Val = v] \in InstructionObject
  BY DEF InstructionObject
<1>3. [i EXCEPT !.csrVal = v] \in InstructionObject
  BY DEF InstructionObject
<1>4. [i EXCEPT !.data = v] \in InstructionObject
  BY DEF InstructionObject
<1>5. [i EXCEPT !.addr = v] \in InstructionObject
  BY DEF InstructionObject
<1>6. [i EXCEPT !.nextIp = v] \in InstructionObject
  BY DEF InstructionObject
<1> QED BY <1>1, <1>2, <1>3, <1>4, <1>5, <1>6

LEMMA FreshType == FreshInstruction \in InstructionObject
<1>1. 0 \in WordSet /\ None \in None .. Modulus - 1
  BY ModulusType DEF None
<1> QED
  BY <1>1, DeadBeafAssumption
     DEF FreshInstruction, InstructionObject, IType, BrFunc, AluFunc, None

LEMMA ReadType ==
    ASSUME NEW i \in InstructionObject, NEW r \in [Register -> WordSet],
           NEW instret \in WordSet, NEW cycle \in WordSet
    PROVE  ReadCsr(ReadRegisters(i, r), instret, cycle) \in InstructionObject
<1> DEFINE x == IF i.src1 # None THEN r[i.src1] ELSE i.src1Val
           y == IF i.src2 # None THEN r[i.src2] ELSE i.src2Val
           j == [i EXCEPT !.src1Val = x]
           k == [j EXCEPT !.src2Val = y]
           z == CASE k.csr = CsrInstret -> instret
                  [] k.csr = CsrCycle   -> cycle
                  [] k.csr = CsrMhartid -> 0
                  [] OTHER              -> k.csrVal
<1>1. ASSUME NEW n \in None .. 31, n # None PROVE r[n] \in WordSet
  <2>1. n \in Register
    BY <1>1 DEF None, Register
  <2> QED BY <2>1
<1>2. i.src1 \in None .. 31 /\ i.src2 \in None .. 31
  BY DEF InstructionObject
<1>3. x \in WordSet /\ y \in WordSet
  BY <1>1, <1>2 DEF InstructionObject
<1>4. ReadRegisters(i, r) = k
  BY DEF ReadRegisters, InstructionObject
<1>5. ReadCsr(k, instret, cycle) = [k EXCEPT !.csrVal = z]
  BY DEF ReadCsr
<1> HIDE DEF x, y
<1>6. j \in InstructionObject
  BY <1>3, ValueType
<1> HIDE DEF j
<1>7. k \in InstructionObject
  BY <1>3, <1>6, ValueType
<1> HIDE DEF k
<1>8. z \in WordSet
  BY <1>7, ModulusType DEF InstructionObject
<1> HIDE DEF z
<1>9. [k EXCEPT !.csrVal = z] \in InstructionObject
  BY <1>7, <1>8, ValueType
<1> QED BY <1>4, <1>5, <1>9

LEMMA WriteType ==
    ASSUME NEW i \in InstructionObject, NEW r \in [Register -> WordSet]
    PROVE  WriteRegister(i, r) \in [Register -> WordSet]
<1>1. i.data \in WordSet
  BY DEF InstructionObject
<1> QED BY <1>1 DEF WriteRegister

LEMMA ExecuteType ==
    ASSUME NEW i \in InstructionObject, NEW ip \in Int
    PROVE  Execute(i, ip) \in InstructionObject
<1>1. /\ i.src1Val \in WordSet /\ i.src2Val \in WordSet /\ i.csrVal \in WordSet
      /\ i.imm \in Int /\ i.aluFunc \in AluFunc /\ i.src1Val \in Int /\ i.src2Val \in Int
  <2>1. /\ i.src1Val \in WordSet /\ i.src2Val \in WordSet /\ i.csrVal \in WordSet
        /\ i.imm \in None .. Modulus - 1 /\ i.aluFunc \in AluFunc
    BY DEF InstructionObject
  <2> QED BY <2>1 DEF None, WordSet
<1>2. AluProcessing(i) \in WordSet
  BY <1>1, ComputeType, ModulusType DEF AluProcessing
<1>3. Following(ip) \in WordSet
  BY ModulusType DEF Following
<1>4. Wrap(ip + i.imm) \in WordSet /\ Wrap(i.imm + i.src1Val) \in WordSet
  <2>1. ip + i.imm \in Int /\ i.imm + i.src1Val \in Int
    BY <1>1
  <2> QED BY <2>1, ModulusType
<1>5. BranchTarget(i, ip) \in WordSet
  BY <1>3, <1>4 DEF BranchTarget
<1>6. ASSUME NEW data \in WordSet, NEW nextIp \in WordSet
      PROVE  [i EXCEPT !.data = data, !.nextIp = nextIp] \in InstructionObject
  <2> DEFINE j == [i EXCEPT !.data = data]
  <2>1. [i EXCEPT !.data = data, !.nextIp = nextIp] = [j EXCEPT !.nextIp = nextIp]
    OBVIOUS
  <2>2. j \in InstructionObject
    BY ValueType
  <2> HIDE DEF j
  <2> QED BY <2>1, <2>2, ValueType
<1>7. ASSUME NEW addr \in WordSet, NEW nextIp \in WordSet
      PROVE  [i EXCEPT !.addr = addr, !.nextIp = nextIp] \in InstructionObject
  <2> DEFINE j == [i EXCEPT !.addr = addr]
  <2>1. [i EXCEPT !.addr = addr, !.nextIp = nextIp] = [j EXCEPT !.nextIp = nextIp]
    OBVIOUS
  <2>2. j \in InstructionObject
    BY ValueType
  <2> HIDE DEF j
  <2> QED BY <2>1, <2>2, ValueType
<1>8. CASE i.type \in {"Alu", "Csrw", "Csrr", "J", "Jr", "Auipc"}
  <2>1. \E data, nextIp \in WordSet :
            Execute(i, ip) = [i EXCEPT !.data = data, !.nextIp = nextIp]
    BY <1>1, <1>2, <1>3, <1>4, <1>5, <1>8 DEF Execute
  <2> QED BY <1>6, <2>1
<1>9. CASE i.type = "Ld"
  BY <1>2, <1>3, <1>7, <1>9 DEF Execute
<1>10. CASE i.type = "St"
  <2> DEFINE j == [i EXCEPT !.addr = AluProcessing(i)]
             k == [j EXCEPT !.data = i.src2Val]
  <2>1. Execute(i, ip) = [k EXCEPT !.nextIp = Following(ip)]
    BY <1>10 DEF Execute
  <2>2. j \in InstructionObject
    BY <1>2, ValueType
  <2> HIDE DEF j
  <2>3. k \in InstructionObject
    BY <1>1, <2>2, ValueType
  <2> HIDE DEF k
  <2> QED BY <1>3, <2>1, <2>3, ValueType
<1>11. CASE i.type = "Br"
  BY <1>5, <1>11, ValueType DEF Execute
<1>12. CASE i.type = "Unsupported"
  BY <1>12 DEF Execute
<1> QED
  BY <1>8, <1>9, <1>10, <1>11, <1>12 DEF InstructionObject, IType

=============================================================================
