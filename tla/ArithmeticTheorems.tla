------------------------- MODULE ArithmeticTheorems -------------------------
(***************************************************************************)
(* Facts of arithmetic that the proofs about the components share: the     *)
(* least element of a set of naturals and induction, stated for sets, the  *)
(* existence of functions defined by recursion, powers of two, quotients   *)
(* and remainders.                                                         *)
(***************************************************************************)
EXTENDS Integers, FunctionTheorems, FiniteSetTheorems, WellFoundedInduction, TLAPS

\* Every set of naturals that is not empty has a least element.
LEMMA LeastElement ==
  ASSUME NEW T, T \subseteq Nat, T # {}
  PROVE  \E x \in T : \A y \in T : x <= y
<1> DEFINE R == {ss \in Nat \X Nat : ss[1] < ss[2]}
<1>1. IsWellFoundedOn(R, Nat)
  BY NatLessThanWellFounded DEF OpToRel
<1>2. \A x, y \in Nat : y < x => <<y, x>> \in R
  OBVIOUS
<1> HIDE DEF R
<1>3. PICK x \in T : \A y \in T : ~(<<y, x>> \in R)
  BY <1>1, WFMin, Zenon
<1>4. \A y \in T : ~(y < x)
  BY <1>2, <1>3
<1>5. QED
  BY <1>4

\* Induction: a set that has 0, and n + 1 whenever it has n, has all naturals.
LEMMA SetInduction ==
  ASSUME NEW S, 0 \in S, \A n \in Nat : n \in S => n + 1 \in S
  PROVE  Nat \subseteq S
<1> DEFINE T == Nat \ S
<1> SUFFICES ASSUME T # {} PROVE FALSE
  OBVIOUS
<1>1. PICK x \in T : \A y \in T : x <= y
  BY LeastElement, T \subseteq Nat, Zenon
<1>2. x # 0
  OBVIOUS
<1>3. x - 1 \in Nat /\ x - 1 \notin T
  BY <1>1, <1>2
<1>4. QED
  BY <1>3

\* What takes the value at k - 1 to the one at k, within V.
StepsOn(n, V) == [(1..n) \X V -> V]

RecursiveOn(n, V, c, F) ==
  {f \in [0..n -> V] : f[0] = c /\ \A k \in 1..n : f[k] = F[<<k, f[k - 1]>>]}

\* A function defined by recursion from k - 1 to k exists, with values in the
\* set the recursion stays in.
LEMMA RecursiveFunction ==
  ASSUME NEW n \in Nat, NEW V, NEW c \in V, NEW F \in StepsOn(n, V)
  PROVE  \E f : f \in RecursiveOn(n, V, c, F)
<1> DEFINE Defined(f, m) == /\ f \in [0..m -> V]
                            /\ f[0] = c
                            /\ \A k \in 1..m : f[k] = F[<<k, f[k - 1]>>]
           S == {m \in Nat : m <= n => \E f : Defined(f, m)}
<1>1. 0 \in S
  <2>1. Defined([k \in {0} |-> c], 0)
    <3>1. 0..0 = {0} /\ 1..0 = {}
      OBVIOUS
    <3>2. QED
      BY <3>1
  <2>2. QED
    BY <2>1
<1>2. ASSUME NEW m \in Nat, m \in S, m + 1 <= n PROVE \E f : Defined(f, m + 1)
  <2>1. PICK f : Defined(f, m)
    BY <1>2
  <2> DEFINE g == [k \in 0..(m + 1) |-> IF k <= m THEN f[k] ELSE F[<<m + 1, f[m]>>]]
  <2>2. f[m] \in V /\ m + 1 \in 1..n
    BY <2>1, <1>2
  <2>3. F[<<m + 1, f[m]>>] \in V
    BY <2>2 DEF StepsOn
  <2>4. g \in [0..(m + 1) -> V]
    BY <2>1, <2>3
  <2>5. g[0] = c
    BY <2>1
  <2>6. \A k \in 1..(m + 1) : g[k] = F[<<k, g[k - 1]>>]
    <3> SUFFICES ASSUME NEW k \in 1..(m + 1) PROVE g[k] = F[<<k, g[k - 1]>>]
      OBVIOUS
    <3>1. k - 1 \in 0..m /\ g[k - 1] = f[k - 1]
      OBVIOUS
    <3>2. CASE k = m + 1
      <4>1. g[k] = F[<<m + 1, f[m]>>] /\ k - 1 = m
        BY <3>2
      <4>2. QED
        BY <3>1, <3>2, <4>1, Zenon
    <3>3. CASE k # m + 1
      <4>1. k \in 1..m /\ g[k] = f[k]
        BY <3>3
      <4>2. QED
        BY <3>1, <4>1, <2>1, Zenon
    <3>4. QED
      BY <3>2, <3>3
  <2>7. QED
    BY <2>4, <2>5, <2>6
<1>3. \A m \in Nat : m \in S => m + 1 \in S
  BY <1>2
<1> HIDE DEF S
<1>4. Nat \subseteq S
  BY <1>1, <1>3, SetInduction
<1>5. n \in S
  BY <1>4
<1>6. \E f : Defined(f, n)
  <2> HIDE DEF Defined
  <2> QED
    BY <1>5 DEF S
<1>7. QED
  BY <1>6 DEF RecursiveOn

\* The powers of two are positive.
LEMMA PowerPositive == \A n \in Nat : 2^n \in Nat /\ 2^n > 0
<1> SUFFICES ASSUME NEW n \in Nat PROVE 2^n \in Nat /\ 2^n > 0
  OBVIOUS
<1>1. IsFiniteSet(1..n) /\ Cardinality(1..n) = n
  BY FS_Interval
<1>2. IsFiniteSet(SUBSET (1..n)) /\ Cardinality(SUBSET (1..n)) = 2^n
  BY <1>1, FS_SUBSET
<1>3. SUBSET (1..n) # {}
  OBVIOUS
<1>4. QED
  BY <1>2, <1>3, FS_CardinalityType, FS_EmptySet

\* The next power of two is the double: half of the subsets of 1..(n + 1) have
\* n + 1, and as many have not.
LEMMA PowerStep == \A n \in Nat : 2^(n + 1) = 2 * 2^n
<1> SUFFICES ASSUME NEW n \in Nat PROVE 2^(n + 1) = 2 * 2^n
  OBVIOUS
<1> DEFINE A == SUBSET (1..n)
           B == SUBSET (1..(n + 1))
           C == B \ A
           f == [a \in A |-> a \cup {n + 1}]
<1>1. IsFiniteSet(1..n) /\ Cardinality(1..n) = n
  BY FS_Interval
<1>2. IsFiniteSet(A) /\ Cardinality(A) = 2^n
  BY <1>1, FS_SUBSET
<1>3. IsFiniteSet(1..(n + 1)) /\ Cardinality(1..(n + 1)) = n + 1
  BY FS_Interval
<1>4. IsFiniteSet(B) /\ Cardinality(B) = 2^(n + 1)
  BY <1>3, FS_SUBSET
<1>5. f \in Bijection(A, C)
  <2>1. f \in [A -> C]
    OBVIOUS
  <2>2. \A a, b \in A : f[a] = f[b] => a = b
    <3>1. \A a \in A : n + 1 \notin a
      OBVIOUS
    <3>2. QED
      BY <3>1
  <2>3. \A c \in C : \E a \in A : f[a] = c
    <3> SUFFICES ASSUME NEW c \in C PROVE c \ {n + 1} \in A /\ f[c \ {n + 1}] = c
      OBVIOUS
    <3>1. n + 1 \in c
      OBVIOUS
    <3>2. c \ {n + 1} \in A
      OBVIOUS
    <3>3. QED
      BY <3>1, <3>2
  <2> HIDE DEF f, A, C
  <2>4. QED
    BY <2>1, <2>2, <2>3, Fun_IsBij, Zenon
<1>6. A \cap C = {} /\ A \cup C = B
  OBVIOUS
<1> HIDE DEF A, B, C
<1>7. IsFiniteSet(C) /\ Cardinality(C) = 2^n
  BY <1>2, <1>5, FS_Bijection DEF ExistsBijection
<1>8. Cardinality(B) = Cardinality(A) + Cardinality(C) - Cardinality(A \cap C)
  BY <1>2, <1>6, <1>7, FS_Union
<1>9. 2^(n + 1) = 2^n + 2^n - 0
  BY <1>2, <1>4, <1>6, <1>7, <1>8, FS_EmptySet
<1>10. QED
  BY <1>9, PowerPositive

\* The power of a sum is the product of the powers.
LEMMA PowerSum == \A m, n \in Nat : 2^(m + n) = 2^m * 2^n
<1> DEFINE S == {m \in Nat : \A n \in Nat : 2^(m + n) = 2^m * 2^n}
<1>1. 0 \in S
  BY PowerPositive
<1>2. ASSUME NEW m \in Nat, m \in S PROVE m + 1 \in S
  <2> SUFFICES ASSUME NEW n \in Nat PROVE 2^((m + 1) + n) = 2^(m + 1) * 2^n
    OBVIOUS
  <2>1. 2^(m + n) = 2^m * 2^n
    BY <1>2
  <2>2. 2^((m + n) + 1) = 2 * 2^(m + n) /\ 2^(m + 1) = 2 * 2^m
    BY PowerStep
  <2>3. (m + 1) + n = (m + n) + 1
    OBVIOUS
  <2>4. QED
    BY <2>1, <2>2, <2>3, PowerPositive
<1> HIDE DEF S
<1>3. Nat \subseteq S
  BY <1>1, <1>2, SetInduction
<1>4. QED
  BY <1>3 DEF S

\* Products grow with their factors.
LEMMA ProductMonotone ==
  ASSUME NEW a \in Int, NEW b \in Int, NEW q \in Nat, a <= b
  PROVE  a * q <= b * q
OBVIOUS

\* The quotient and the remainder.
LEMMA Division ==
  ASSUME NEW a \in Int, NEW b \in Nat \ {0}
  PROVE  /\ a \div b \in Int /\ a % b \in 0..(b - 1)
         /\ a = b * (a \div b) + (a % b)
OBVIOUS

\* There is only one quotient.
LEMMA DivisionUnique ==
  ASSUME NEW a \in Int, NEW b \in Nat \ {0}, NEW q \in Int, NEW r \in 0..(b - 1),
         a = b * q + r
  PROVE  a \div b = q /\ a % b = r
<1>1. a \div b \in Int /\ a % b \in 0..(b - 1) /\ a = b * (a \div b) + (a % b)
  BY Division
<1>2. CASE a \div b < q
  <2>1. b * (a \div b + 1) <= b * q
    BY <1>1, <1>2
  <2>2. QED
    BY <1>1, <2>1
<1>3. CASE a \div b > q
  <2>1. b * (q + 1) <= b * (a \div b)
    BY <1>1, <1>3
  <2>2. QED
    BY <1>1, <2>1
<1>4. QED
  BY <1>1, <1>2, <1>3

\* A quotient that leaves no remainder, and the one of the number before.
LEMMA QuotientBefore ==
  ASSUME NEW a \in Nat \ {0}, NEW b \in Nat \ {0}, a % b = 0
  PROVE  a \div b \in Nat \ {0} /\ (a - 1) \div b = a \div b - 1
<1>1. a \div b \in Int /\ a = b * (a \div b)
  BY Division
<1>2. a \div b > 0
  BY <1>1
<1>3. a - 1 = b * (a \div b - 1) + (b - 1)
  BY <1>1
<1>4. (a - 1) \div b = a \div b - 1
  <2> DEFINE p == a - 1
             q == a \div b - 1
             r == b - 1
  <2>1. p \in Int /\ q \in Int /\ r \in 0..(b - 1) /\ p = b * q + r
    BY <1>1, <1>3
  <2> HIDE DEF p, q, r
  <2>2. p \div b = q
    BY <2>1, DivisionUnique
  <2>3. QED
    BY <2>2 DEF p, q
<1>5. QED
  BY <1>1, <1>2, <1>4

\* The quotient of a number by a smaller one.
LEMMA QuotientPositive ==
  ASSUME NEW a \in Nat \ {0}, NEW b \in Nat \ {0}, b <= a
  PROVE  a \div b \in Nat \ {0} /\ b * (a \div b) \in Nat /\ a - b * (a \div b) \in Nat
<1> DEFINE q == a \div b
           r == a % b
<1>1. q \in Int /\ r \in 0..(b - 1) /\ a = b * q + r
  BY Division
<1> HIDE DEF q, r
<1>2. q > 0
  <2>1. SUFFICES ASSUME q <= 0 PROVE FALSE
    BY <1>1
  <2>2. b * q <= 0
    BY <1>1, <2>1
  <2>3. b * q \in Int
    BY <1>1
  <2>4. QED
    BY <1>1, <2>2, <2>3
<1>3. b * q \in Nat
  BY <1>1, <1>2
<1>4. a - b * q \in Nat
  BY <1>1, <1>3
<1>5. QED
  BY <1>1, <1>2, <1>3, <1>4 DEF q
=============================================================================
