------------------------ MODULE KernelLibraryProofs ------------------------
(***************************************************************************)
(* Proofs about KernelLibrary, for integers of every width and floats of   *)
(* every precision: no function leaves its type on the way to a result, the*)
(* functions on bits move and count every bit, and conversions saturate and*)
(* round as asked.                                                         *)
(***************************************************************************)
EXTENDS KernelLibrary, ArithmeticTheorems

-----------------------------------------------------------------------------
(* Types and casts.                                                        *)

\* The types, and the wider ones in which clz and upsample compute.
AnyType == [w : Nat \ {0}, signed : BOOLEAN]

\* The number of values of a type, and half of it.
LEMMA TypeSize ==
  ASSUME NEW t \in AnyType
  PROVE  /\ t.w \in Nat \ {0} /\ t.w - 1 \in Nat
         /\ 2^(t.w - 1) \in Nat \ {0} /\ 2^t.w \in Nat \ {0}
         /\ 2^t.w = 2 * 2^(t.w - 1)
<1>1. t.w \in Nat \ {0} /\ t.w - 1 \in Nat
  BY DEF AnyType
<1>2. 2^((t.w - 1) + 1) = 2 * 2^(t.w - 1)
  BY <1>1, PowerStep
<1>3. (t.w - 1) + 1 = t.w
  BY <1>1
<1>4. QED
  BY <1>1, <1>2, <1>3, PowerPositive

LEMMA TypesAny == Types \subseteq AnyType
BY WidthsAssumption DEF Types, AnyType

LEMMA UnsignedType ==
  ASSUME NEW t \in AnyType
  PROVE  Unsigned(t) \in AnyType /\ Unsigned(t).w = t.w /\ Unsigned(t).signed = FALSE
BY DEF AnyType, Unsigned

\* The values of a type.
LEMMA ValuesOf ==
  ASSUME NEW t \in AnyType
  PROVE  /\ Values(t) \subseteq Int
         /\ Least(t) \in Int /\ Greatest(t) \in Int
         /\ t.signed => Least(t) = -(2^(t.w - 1)) /\ Greatest(t) = 2^(t.w - 1) - 1
         /\ ~t.signed => Least(t) = 0 /\ Greatest(t) = 2^t.w - 1
         /\ Greatest(t) = Least(t) + 2^t.w - 1
         /\ \A x \in Int : x \in Values(t) <=> Least(t) <= x /\ x <= Greatest(t)
<1>1. /\ 2^(t.w - 1) \in Nat \ {0} /\ 2^t.w \in Nat \ {0}
      /\ 2^t.w = 2 * 2^(t.w - 1)
  BY TypeSize
<1>2. Least(t) \in Int /\ Greatest(t) \in Int
  BY <1>1 DEF Least, Greatest
<1>3. t.signed => Least(t) = -(2^(t.w - 1)) /\ Greatest(t) = 2^(t.w - 1) - 1
  BY DEF Least, Greatest
<1>4. ~t.signed => Least(t) = 0 /\ Greatest(t) = 2^t.w - 1
  BY DEF Least, Greatest
<1>5. QED
  BY <1>1, <1>2, <1>3, <1>4 DEF Values

\* The cast of an integer that differs from a value by a multiple of 2^w.
LEMMA CastIs ==
  ASSUME NEW t \in AnyType, NEW y \in Values(t), NEW k \in Int, NEW x \in Int,
         x = 2^t.w * k + y
  PROVE  Cast(t, x) = y
<1> DEFINE M == 2^t.w
           g == Greatest(t)
<1>1. /\ M \in Nat \ {0} /\ g \in Int /\ y \in Int /\ y <= g
      /\ 0 <= g /\ g < M /\ g - M < y
  BY TypeSize, ValuesOf
<1>2. Cast(t, x) = IF x % M > g THEN (x % M) - M ELSE x % M
  BY DEF Cast
<1>3. x = M * k + y
  OBVIOUS
<1> HIDE DEF M, g
<1>4. CASE y >= 0
  <2>1. y \in 0..(M - 1)
    BY <1>1, <1>4
  <2>2. x % M = y
    BY <1>1, <1>3, <2>1, DivisionUnique
  <2>3. QED
    BY <1>1, <1>2, <2>2
<1>5. CASE y < 0
  <2> DEFINE z == y + M
             j == k - 1
  <2>1. z \in 0..(M - 1) /\ j \in Int
    BY <1>1, <1>5
  <2>2. x = M * j + z
    <3>1. M * (k - 1) = M * k - M
      BY <1>1
    <3>2. M * k \in Int
      BY <1>1
    <3>3. QED
      BY <1>1, <1>3, <3>1, <3>2
  <2> HIDE DEF z, j
  <2>3. x % M = z
    BY <1>1, <2>1, <2>2, DivisionUnique
  <2>4. z > g /\ z - M = y
    BY <1>1 DEF z
  <2>5. QED
    BY <1>2, <2>3, <2>4
<1>6. QED
  BY <1>1, <1>4, <1>5

LEMMA CastSame ==
  ASSUME NEW t \in AnyType, NEW y \in Values(t)
  PROVE  Cast(t, y) = y
<1>1. PICK k \in Int : k = 0
  OBVIOUS
<1>2. y \in Int /\ y = 2^t.w * k + y
  BY <1>1, TypeSize, ValuesOf
<1>3. QED
  BY <1>2, CastIs

\* Values wrap around.
LEMMA CastUp ==
  ASSUME NEW t \in AnyType, NEW y \in Values(t)
  PROVE  Cast(t, y - 2^t.w) = y
<1>1. PICK k \in Int : k = -1
  OBVIOUS
<1>2. y \in Int /\ 2^t.w \in Int
  BY TypeSize, ValuesOf
<1>3. PICK x \in Int : x = y - 2^t.w
  BY <1>2
<1>4. x = 2^t.w * k + y
  BY <1>1, <1>2, <1>3
<1>5. QED
  BY <1>3, <1>4, CastIs

LEMMA CastDown ==
  ASSUME NEW t \in AnyType, NEW y \in Values(t)
  PROVE  Cast(t, y + 2^t.w) = y
<1>1. PICK k \in Int : k = 1
  OBVIOUS
<1>2. y \in Int /\ 2^t.w \in Int
  BY TypeSize, ValuesOf
<1>3. PICK x \in Int : x = y + 2^t.w
  BY <1>2
<1>4. x = 2^t.w * k + y
  BY <1>1, <1>2, <1>3
<1>5. QED
  BY <1>3, <1>4, CastIs

\* A cast yields a value of the type with the same bits.
LEMMA CastValue ==
  ASSUME NEW t \in AnyType, NEW x \in Int
  PROVE  Cast(t, x) \in Values(t) /\ \E k \in Int : x = 2^t.w * k + Cast(t, x)
<1> DEFINE M == 2^t.w
           g == Greatest(t)
<1>1. /\ M \in Nat \ {0} /\ g \in Int /\ g < M
      /\ t.signed => Least(t) = g - M + 1
      /\ ~t.signed => g = M - 1 /\ Least(t) = 0
      /\ Least(t) = g - M + 1
      /\ g >= 0
      /\ \A z \in Int : z \in Values(t) <=> Least(t) <= z /\ z <= g
  BY TypeSize, ValuesOf
<1>2. Cast(t, x) = IF x % M > g THEN (x % M) - M ELSE x % M
  BY DEF Cast
<1> HIDE DEF M, g
<1>3. x \div M \in Int /\ x % M \in 0..(M - 1) /\ x = M * (x \div M) + (x % M)
  BY <1>1, Division
<1>4. CASE x % M > g
  <2>1. Cast(t, x) = (x % M) - M
    BY <1>2, <1>4
  <2>2. x = M * (x \div M + 1) + ((x % M) - M)
    BY <1>1, <1>3
  <2>3. x \div M + 1 \in Int
    BY <1>3
  <2>4. Cast(t, x) \in Values(t)
    BY <1>1, <1>3, <1>4, <2>1
  <2>5. QED
    BY <2>1, <2>2, <2>3, <2>4 DEF M
<1>5. CASE ~(x % M > g)
  <2>1. Cast(t, x) = x % M
    BY <1>2, <1>5
  <2>2. Cast(t, x) \in Values(t)
    BY <1>1, <1>3, <1>5, <2>1
  <2>3. QED
    BY <1>3, <2>1, <2>2 DEF M
<1>6. QED
  BY <1>4, <1>5
-----------------------------------------------------------------------------
(* Saturating sums and differences.                                        *)

\* What Clamp returns of an integer.
LEMMA ClampIs ==
  ASSUME NEW t \in AnyType, NEW x \in Int
  PROVE  /\ x \in Values(t) => Clamp(t, x) = x
         /\ x < Least(t) => Clamp(t, x) = Least(t)
         /\ x > Greatest(t) => Clamp(t, x) = Greatest(t)
<1>1. /\ Least(t) \in Int /\ Greatest(t) \in Int /\ Least(t) <= Greatest(t)
      /\ x \in Values(t) <=> Least(t) <= x /\ x <= Greatest(t)
  BY TypeSize, ValuesOf
<1>2. QED
  BY <1>1 DEF Clamp

\* min and max, which add_sat and sub_sat compute by wrapping around.
LEMMA Limits ==
  ASSUME NEW t \in AnyType
  PROVE  /\ t.signed => /\ Cast(t, 2^(t.w - 1)) = Least(t)
                        /\ Cast(t, Least(t) - 1) = Greatest(t)
         /\ ~t.signed => Cast(t, -1) = Greatest(t)
<1>1. /\ 2^(t.w - 1) \in Nat \ {0} /\ 2^t.w \in Nat \ {0}
      /\ 2^t.w = 2 * 2^(t.w - 1)
      /\ Least(t) \in Int /\ Greatest(t) \in Int
      /\ Greatest(t) = Least(t) + 2^t.w - 1
      /\ t.signed => Least(t) = -(2^(t.w - 1))
      /\ ~t.signed => Least(t) = 0
  BY TypeSize, ValuesOf
<1>2. Least(t) \in Values(t) /\ Greatest(t) \in Values(t)
  BY <1>1, ValuesOf
<1>3. Cast(t, Greatest(t) - 2^t.w) = Greatest(t) /\ Cast(t, Least(t) + 2^t.w) = Least(t)
  BY <1>2, CastUp, CastDown
<1>4. Greatest(t) - 2^t.w = Least(t) - 1
  BY <1>1
<1>5. t.signed => Least(t) + 2^t.w = 2^(t.w - 1)
  BY <1>1
<1>6. ~t.signed => Least(t) - 1 = -1
  BY <1>1
<1>7. QED
  BY <1>3, <1>4, <1>5, <1>6

LEMMA AddSat ==
  ASSUME NEW t \in AnyType, NEW a \in Values(t), NEW b \in Values(t)
  PROVE  add_sat(t, a, b) = Clamp(t, a + b)
<1> DEFINE l == Least(t)
           g == Greatest(t)
<1>1. /\ a \in Int /\ b \in Int /\ l \in Int /\ g \in Int
      /\ l <= a /\ a <= g /\ l <= b /\ b <= g
      /\ t.signed => l = -g - 1 /\ g >= 0
      /\ ~t.signed => l = 0 /\ g >= 0
      /\ \A x \in Int : x \in Values(t) <=> l <= x /\ x <= g
  BY TypeSize, ValuesOf
<1>2. \A x \in Int : x \in Values(t) => Cast(t, x) = x
  BY CastSame
<1>3. \A x \in Int : /\ x \in Values(t) => Clamp(t, x) = x
                     /\ x < l => Clamp(t, x) = l
                     /\ x > g => Clamp(t, x) = g
  BY ClampIs
<1>4. /\ t.signed => Cast(t, 2^(t.w - 1)) = l /\ Cast(t, l - 1) = g
      /\ ~t.signed => Cast(t, -1) = g
  BY Limits
<1>5. add_sat(t, a, b) =
        IF t.signed /\ SignsDiffer(a, b) THEN Cast(t, a + b)
        ELSE IF ~t.signed \/ a >= 0 THEN IF a > Cast(t, g - b) THEN g ELSE Cast(t, a + b)
        ELSE IF a < Cast(t, l - b) THEN l ELSE Cast(t, a + b)
  BY <1>4 DEF add_sat
<1> HIDE DEF l, g
<1>6. CASE t.signed /\ SignsDiffer(a, b)
  <2>1. a + b \in Values(t)
    BY <1>1, <1>6 DEF SignsDiffer
  <2>2. QED
    BY <1>1, <1>2, <1>3, <1>5, <1>6, <2>1
<1>7. CASE ~(t.signed /\ SignsDiffer(a, b)) /\ (~t.signed \/ a >= 0)
  <2>1. g - b \in Values(t)
    BY <1>1, <1>7 DEF SignsDiffer
  <2>2. Cast(t, g - b) = g - b
    BY <1>1, <1>2, <2>1
  <2>3. add_sat(t, a, b) = IF a > g - b THEN g ELSE Cast(t, a + b)
    BY <1>5, <1>7, <2>2
  <2>4. CASE a > g - b
    BY <1>1, <1>3, <2>3, <2>4
  <2>5. CASE ~(a > g - b)
    <3>1. a + b \in Values(t)
      BY <1>1, <1>7, <2>5 DEF SignsDiffer
    <3>2. QED
      BY <1>1, <1>2, <1>3, <2>3, <2>5, <3>1
  <2>6. QED
    BY <2>4, <2>5
<1>8. CASE t.signed /\ ~SignsDiffer(a, b) /\ a < 0
  <2>1. l - b \in Values(t)
    BY <1>1, <1>8 DEF SignsDiffer
  <2>2. Cast(t, l - b) = l - b
    BY <1>1, <1>2, <2>1
  <2>3. add_sat(t, a, b) = IF a < l - b THEN l ELSE Cast(t, a + b)
    BY <1>1, <1>5, <1>8, <2>2
  <2>4. CASE a < l - b
    BY <1>1, <1>3, <2>3, <2>4
  <2>5. CASE ~(a < l - b)
    <3>1. a + b \in Values(t)
      BY <1>1, <1>8, <2>5 DEF SignsDiffer
    <3>2. QED
      BY <1>1, <1>2, <1>3, <2>3, <2>5, <3>1
  <2>6. QED
    BY <2>4, <2>5
<1>9. QED
  BY <1>1, <1>6, <1>7, <1>8

LEMMA SubSat ==
  ASSUME NEW t \in AnyType, NEW a \in Values(t), NEW b \in Values(t)
  PROVE  sub_sat(t, a, b) = Clamp(t, a - b)
<1> DEFINE l == Least(t)
           g == Greatest(t)
<1>1. /\ a \in Int /\ b \in Int /\ l \in Int /\ g \in Int
      /\ l <= a /\ a <= g /\ l <= b /\ b <= g
      /\ t.signed => l = -g - 1 /\ g >= 0
      /\ ~t.signed => l = 0 /\ g >= 0
      /\ \A x \in Int : x \in Values(t) <=> l <= x /\ x <= g
  BY TypeSize, ValuesOf
<1>2. \A x \in Int : x \in Values(t) => Cast(t, x) = x
  BY CastSame
<1>3. \A x \in Int : /\ x \in Values(t) => Clamp(t, x) = x
                     /\ x < l => Clamp(t, x) = l
                     /\ x > g => Clamp(t, x) = g
  BY ClampIs
<1>4. /\ t.signed => Cast(t, 2^(t.w - 1)) = l /\ Cast(t, l - 1) = g
      /\ ~t.signed => l = 0
  BY Limits, ValuesOf
<1>5. sub_sat(t, a, b) =
        IF t.signed /\ ~SignsDiffer(a, b) THEN Cast(t, a - b)
        ELSE IF t.signed /\ a >= 0 THEN IF a > Cast(t, g + b) THEN g ELSE Cast(t, a - b)
        ELSE IF a < Cast(t, l + b) THEN l ELSE Cast(t, a - b)
  BY <1>4 DEF sub_sat
<1> HIDE DEF l, g
<1>6. CASE t.signed /\ ~SignsDiffer(a, b)
  <2>1. a - b \in Values(t)
    BY <1>1, <1>6 DEF SignsDiffer
  <2>2. QED
    BY <1>1, <1>2, <1>3, <1>5, <1>6, <2>1
<1>7. CASE t.signed /\ SignsDiffer(a, b) /\ a >= 0
  <2>1. g + b \in Values(t)
    BY <1>1, <1>7 DEF SignsDiffer
  <2>2. Cast(t, g + b) = g + b
    BY <1>1, <1>2, <2>1
  <2>3. sub_sat(t, a, b) = IF a > g + b THEN g ELSE Cast(t, a - b)
    BY <1>5, <1>7, <2>2
  <2>4. CASE a > g + b
    BY <1>1, <1>3, <2>3, <2>4
  <2>5. CASE ~(a > g + b)
    <3>1. a - b \in Values(t)
      BY <1>1, <1>7, <2>5 DEF SignsDiffer
    <3>2. QED
      BY <1>1, <1>2, <1>3, <2>3, <2>5, <3>1
  <2>6. QED
    BY <2>4, <2>5
<1>8. CASE ~(t.signed /\ ~SignsDiffer(a, b)) /\ ~(t.signed /\ a >= 0)
  <2>1. l + b \in Values(t)
    BY <1>1, <1>8 DEF SignsDiffer
  <2>2. Cast(t, l + b) = l + b
    BY <1>1, <1>2, <2>1
  <2>3. sub_sat(t, a, b) = IF a < l + b THEN l ELSE Cast(t, a - b)
    BY <1>1, <1>5, <1>8, <2>2
  <2>4. CASE a < l + b
    BY <1>1, <1>3, <2>3, <2>4
  <2>5. CASE ~(a < l + b)
    <3>1. a - b \in Values(t)
      BY <1>1, <1>8, <2>5 DEF SignsDiffer
    <3>2. QED
      BY <1>1, <1>2, <1>3, <2>3, <2>5, <3>1
  <2>6. QED
    BY <2>4, <2>5
<1>9. QED
  BY <1>1, <1>6, <1>7, <1>8

\* A greater power of two is at least twice as large.
LEMMA PowerLess ==
  ASSUME NEW m \in Nat, NEW n \in Nat, m < n
  PROVE  2 * 2^m <= 2^n
<1>1. n - (m + 1) \in Nat /\ m + 1 \in Nat
  OBVIOUS
<1>2. 2^((m + 1) + (n - (m + 1))) = 2^(m + 1) * 2^(n - (m + 1))
  BY <1>1, PowerSum
<1>3. (m + 1) + (n - (m + 1)) = n
  OBVIOUS
<1>4. 2^(m + 1) = 2 * 2^m
  BY PowerStep
<1>5. 2^(n - (m + 1)) \in Nat /\ 2^(n - (m + 1)) > 0 /\ 2^m \in Nat /\ 2^m > 0
  BY <1>1, PowerPositive
<1> DEFINE p == 2^(n - (m + 1))
           q == 2^m
<1>6. 2^n = (2 * q) * p
  BY <1>2, <1>3, <1>4
<1>7. p \in Nat \ {0} /\ q \in Nat
  BY <1>5
<1> HIDE DEF p, q
<1>8. (2 * q) * p >= 2 * q
  BY <1>7
<1>9. QED
  BY <1>6, <1>8 DEF q

LEMMA ConvertSat ==
  ASSUME NEW t \in AnyType, NEW u \in AnyType, NEW x \in Values(u)
  PROVE  convert_sat(t, u, x) = Clamp(t, x)
<1> DEFINE N == 2^(t.w - 1)
           K == 2^(u.w - 1)
           l == Least(t)
           g == Greatest(t)
           low == IF u.signed /\ (~t.signed \/ t.w < u.w) THEN Max2(x, Cast(u, l)) ELSE x
           high == IF t.w < u.w \/ (t.w = u.w /\ t.signed /\ ~u.signed)
                   THEN Min2(low, Cast(u, g)) ELSE low
<1>1. /\ t.w \in Nat /\ u.w \in Nat /\ N \in Nat \ {0} /\ K \in Nat \ {0}
      /\ l \in Int /\ g \in Int /\ x \in Int
      /\ t.signed => l = -N /\ g = N - 1
      /\ ~t.signed => l = 0 /\ g = 2 * N - 1
      /\ u.signed => -K <= x /\ x <= K - 1
      /\ ~u.signed => 0 <= x /\ x <= 2 * K - 1
      /\ \A y \in Int : y \in Values(t) <=> l <= y /\ y <= g
      /\ \A y \in Int : u.signed => (y \in Values(u) <=> -K <= y /\ y <= K - 1)
      /\ \A y \in Int : ~u.signed => (y \in Values(u) <=> 0 <= y /\ y <= 2 * K - 1)
  BY TypeSize, ValuesOf
<1>2. /\ t.w < u.w => 2 * N <= K
      /\ t.w = u.w => N = K
      /\ t.w > u.w => 2 * K <= N
  <2>1. t.w - 1 \in Nat /\ u.w - 1 \in Nat
    BY TypeSize
  <2>2. t.w < u.w => 2 * N <= K
    BY <1>1, <2>1, PowerLess
  <2>3. t.w > u.w => 2 * K <= N
    BY <1>1, <2>1, PowerLess
  <2>4. QED
    BY <1>1, <2>2, <2>3
<1>3. /\ \A y \in Int : y \in Values(t) => Cast(t, y) = y
      /\ \A y \in Int : y \in Values(u) => Cast(u, y) = y
  BY CastSame
<1>4. /\ x \in Values(t) => Clamp(t, x) = x
      /\ x < l => Clamp(t, x) = l
      /\ x > g => Clamp(t, x) = g
  BY <1>1, ClampIs
<1>5. convert_sat(t, u, x) = Cast(t, high)
  BY DEF convert_sat, convert
<1> HIDE DEF N, K, l, g
<1>6. low = IF x < l THEN l ELSE x
  <2>1. CASE u.signed /\ (~t.signed \/ t.w < u.w)
    <3>1. l \in Values(u)
      BY <1>1, <1>2, <2>1
    <3>2. Cast(u, l) = l
      BY <1>1, <1>3, <3>1
    <3>3. QED
      BY <1>1, <2>1, <3>2 DEF Max2
  <2>2. CASE ~(u.signed /\ (~t.signed \/ t.w < u.w))
    <3>1. ~(x < l)
      BY <1>1, <1>2, <2>2
    <3>2. QED
      BY <2>2, <3>1
  <2>3. QED
    BY <2>1, <2>2
<1> HIDE DEF low
<1>7. l <= low /\ low \in Int /\ (x <= g => low <= g) /\ (x > g => low = x)
  BY <1>1, <1>6
<1>8. high = IF low > g THEN g ELSE low
  <2>1. CASE t.w < u.w \/ (t.w = u.w /\ t.signed /\ ~u.signed)
    <3>1. g \in Values(u)
      BY <1>1, <1>2, <2>1
    <3>2. Cast(u, g) = g
      BY <1>1, <1>3, <3>1
    <3>3. QED
      BY <1>1, <1>7, <2>1, <3>2 DEF Min2
  <2>2. CASE ~(t.w < u.w \/ (t.w = u.w /\ t.signed /\ ~u.signed))
    <3>1. ~(x > g)
      BY <1>1, <1>2, <2>2
    <3>2. ~(low > g)
      BY <1>1, <1>7, <3>1
    <3>3. QED
      BY <2>2, <3>2
  <2>3. QED
    BY <2>1, <2>2
<1> HIDE DEF high
<1>9. high \in Values(t) /\ high \in Int /\ high = Clamp(t, x)
  BY <1>1, <1>4, <1>6, <1>7, <1>8
<1>10. QED
  BY <1>3, <1>5, <1>9
-----------------------------------------------------------------------------
(* Averages and differences.                                               *)

LEMMA Hadd ==
  ASSUME NEW t \in AnyType, NEW a \in Values(t), NEW b \in Values(t)
  PROVE  hadd(t, a, b) = (a + b) \div 2
<1> DEFINE s == (a \div 2) + (b \div 2) + (a % 2) * (b % 2)
<1>1. /\ a \in Int /\ b \in Int /\ Least(t) \in Int /\ Greatest(t) \in Int
      /\ Least(t) <= a /\ a <= Greatest(t) /\ Least(t) <= b /\ b <= Greatest(t)
      /\ \A x \in Int : x \in Values(t) <=> Least(t) <= x /\ x <= Greatest(t)
  BY ValuesOf
<1>2. s = (a + b) \div 2
  <2>1. a % 2 \in {0, 1} /\ b % 2 \in {0, 1}
    BY <1>1
  <2>2. CASE a % 2 = 0
    BY <1>1, <2>1, <2>2
  <2>3. CASE a % 2 = 1
    BY <1>1, <2>1, <2>3
  <2>4. QED
    BY <2>1, <2>2, <2>3
<1>3. (a + b) \div 2 \in Values(t)
  BY <1>1
<1>4. QED
  BY <1>2, <1>3, CastSame DEF hadd

LEMMA Rhadd ==
  ASSUME NEW t \in AnyType, NEW a \in Values(t), NEW b \in Values(t)
  PROVE  rhadd(t, a, b) = (a + b + 1) \div 2
<1> DEFINE s == (a \div 2) + (b \div 2) + (IF a % 2 = 1 \/ b % 2 = 1 THEN 1 ELSE 0)
<1>1. /\ a \in Int /\ b \in Int /\ Least(t) \in Int /\ Greatest(t) \in Int
      /\ Least(t) <= a /\ a <= Greatest(t) /\ Least(t) <= b /\ b <= Greatest(t)
      /\ \A x \in Int : x \in Values(t) <=> Least(t) <= x /\ x <= Greatest(t)
  BY ValuesOf
<1>2. s = (a + b + 1) \div 2
  BY <1>1
<1>3. (a + b + 1) \div 2 \in Values(t)
  BY <1>1
<1>4. QED
  BY <1>2, <1>3, CastSame DEF rhadd

\* abs of the least value, whose negation wraps around, is right as well.
LEMMA Abs ==
  ASSUME NEW t \in AnyType, NEW a \in Values(t)
  PROVE  abs(t, a) = Max2(a, -a)
<1> DEFINE u == Unsigned(t)
<1>1. /\ u \in AnyType /\ u.w = t.w /\ ~u.signed
  BY UnsignedType
<1>2. /\ 2^(t.w - 1) \in Nat \ {0} /\ 2^t.w \in Nat \ {0} /\ 2^t.w = 2 * 2^(t.w - 1)
      /\ a \in Int /\ Least(t) \in Int /\ Greatest(t) \in Int
      /\ Least(t) <= a /\ a <= Greatest(t)
      /\ t.signed => Least(t) = -(2^(t.w - 1)) /\ Greatest(t) = 2^(t.w - 1) - 1
      /\ ~t.signed => Least(t) = 0 /\ Greatest(t) = 2^t.w - 1
      /\ \A x \in Int : x \in Values(t) <=> Least(t) <= x /\ x <= Greatest(t)
  BY TypeSize, ValuesOf
<1>3. \A x \in Int : x \in Values(u) <=> 0 <= x /\ x <= 2^t.w - 1
  BY <1>1, ValuesOf
<1>4. abs(t, a) = Cast(u, IF a >= 0 THEN a ELSE Cast(t, -a))
  BY DEF abs
<1> HIDE DEF u
<1>5. CASE a >= 0
  <2>1. a \in Values(u)
    BY <1>2, <1>3, <1>5
  <2>2. Cast(u, a) = a
    BY <1>1, <2>1, CastSame
  <2>3. QED
    BY <1>2, <1>4, <1>5, <2>2 DEF Max2
<1>6. CASE a < 0 /\ a # Least(t)
  <2>1. -a \in Values(u) /\ -a \in Values(t)
    BY <1>2, <1>3, <1>6
  <2>2. Cast(u, -a) = -a /\ Cast(t, -a) = -a
    BY <1>1, <2>1, CastSame
  <2>3. QED
    BY <1>2, <1>4, <1>6, <2>2 DEF Max2
<1>7. CASE a < 0 /\ a = Least(t)
  <2>1. t.signed /\ -a = 2^(t.w - 1)
    BY <1>2, <1>7
  <2>2. Cast(t, -a) = a
    BY <1>7, <2>1, Limits
  <2>3. -a \in Values(u)
    BY <1>2, <1>3, <2>1
  <2>4. Cast(u, -a - 2^t.w) = -a
    BY <1>1, <2>3, CastUp
  <2>5. -a - 2^t.w = a
    BY <1>2, <2>1
  <2>6. QED
    BY <1>2, <1>4, <1>7, <2>2, <2>4, <2>5 DEF Max2
<1>8. QED
  BY <1>2, <1>5, <1>6, <1>7

LEMMA AbsDiff ==
  ASSUME NEW t \in AnyType, NEW a \in Values(t), NEW b \in Values(t)
  PROVE  abs_diff(t, a, b) = Max2(a - b, b - a)
<1> DEFINE u == Unsigned(t)
<1>1. /\ u \in AnyType /\ u.w = t.w /\ ~u.signed
  BY UnsignedType
<1>2. /\ 2^(t.w - 1) \in Nat \ {0} /\ 2^t.w \in Nat \ {0} /\ 2^t.w = 2 * 2^(t.w - 1)
      /\ a \in Int /\ b \in Int /\ Least(t) \in Int /\ Greatest(t) \in Int
      /\ Least(t) <= a /\ a <= Greatest(t) /\ Least(t) <= b /\ b <= Greatest(t)
      /\ t.signed => Least(t) = -(2^(t.w - 1)) /\ Greatest(t) = 2^(t.w - 1) - 1
      /\ ~t.signed => Least(t) = 0 /\ Greatest(t) = 2^t.w - 1
      /\ \A x \in Int : x \in Values(t) <=> Least(t) <= x /\ x <= Greatest(t)
  BY TypeSize, ValuesOf
<1>3. \A x \in Int : x \in Values(u) <=> 0 <= x /\ x <= 2^t.w - 1
  BY <1>1, ValuesOf
<1>4. /\ abs(t, a) = Max2(a, -a) /\ abs(t, b) = Max2(b, -b)
      /\ \A x \in Values(t) : abs(t, x) = Max2(x, -x) /\ Cast(t, x) = x
  BY Abs, CastSame
<1>5. abs_diff(t, a, b) =
        IF t.signed THEN IF SignsDiffer(a, b) THEN Cast(u, abs(t, a) + abs(t, b))
                         ELSE abs(t, Cast(t, a - b))
        ELSE abs(t, IF a > b THEN Cast(t, a - b) ELSE Cast(t, b - a))
  BY DEF abs_diff
<1> HIDE DEF u
<1>6. CASE t.signed /\ SignsDiffer(a, b)
  <2>1. abs(t, a) + abs(t, b) = Max2(a - b, b - a) /\ Max2(a - b, b - a) \in Int
    BY <1>2, <1>4, <1>6 DEF SignsDiffer, Max2
  <2>2. Max2(a - b, b - a) \in Values(u)
    BY <1>2, <1>3, <1>6, <2>1 DEF SignsDiffer, Max2
  <2>3. QED
    BY <1>1, <1>5, <1>6, <2>1, <2>2, CastSame
<1>7. CASE t.signed /\ ~SignsDiffer(a, b)
  <2>1. a - b \in Values(t)
    BY <1>2, <1>7 DEF SignsDiffer
  <2>2. abs(t, Cast(t, a - b)) = Max2(a - b, -(a - b))
    BY <1>4, <2>1
  <2>3. -(a - b) = b - a
    BY <1>2
  <2>4. QED
    BY <1>5, <1>7, <2>2, <2>3
<1>8. CASE ~t.signed /\ a > b
  <2>1. a - b \in Values(t) /\ -(a - b) = b - a
    BY <1>2, <1>8
  <2>2. abs(t, Cast(t, a - b)) = Max2(a - b, b - a)
    BY <1>4, <2>1
  <2>3. QED
    BY <1>5, <1>8, <2>2
<1>9. CASE ~t.signed /\ ~(a > b)
  <2>1. b - a \in Values(t) /\ -(b - a) = a - b
    BY <1>2, <1>9
  <2>2. abs(t, Cast(t, b - a)) = Max2(b - a, a - b)
    BY <1>4, <2>1
  <2>3. Max2(b - a, a - b) = Max2(a - b, b - a)
    BY <1>2 DEF Max2
  <2>4. QED
    BY <1>5, <1>9, <2>2, <2>3
<1>10. QED
  BY <1>6, <1>7, <1>8, <1>9
-----------------------------------------------------------------------------
(* Products, from the products of their halves.                            *)

LEMMA DivDiv ==
  ASSUME NEW x \in Int, NEW m \in Nat \ {0}, NEW n \in Nat \ {0}
  PROVE  (x \div m) \div n = x \div (m * n)
<1> DEFINE p == x \div m
           q == p \div n
           r == x % m
           s == p % n
<1>1. p \in Int /\ r \in 0..(m - 1) /\ x = m * p + r
  BY Division
<1>2. q \in Int /\ s \in 0..(n - 1) /\ p = n * q + s
  BY <1>1, Division
<1> HIDE DEF p, q, r, s
<1>3. m * p = m * (n * q) + m * s
  BY <1>2
<1>4. m * (n * q) = (m * n) * q
  BY <1>2
<1> DEFINE k == m * n
           v == m * s + r
<1>5. k \in Nat \ {0} /\ v \in Nat /\ m * s \in Nat
  BY <1>1, <1>2
<1>6. m * s <= m * (n - 1)
  BY <1>2
<1>7. m * (n - 1) = k - m
  OBVIOUS
<1>8. v \in 0..(k - 1)
  BY <1>1, <1>5, <1>6, <1>7
<1>9. x = k * q + v
  BY <1>1, <1>2, <1>3, <1>4
<1> HIDE DEF k, v
<1>10. x \div k = q
  BY <1>2, <1>5, <1>8, <1>9, DivisionUnique
<1>11. QED
  BY <1>10 DEF k, p, q

LEMMA QuotientWithin ==
  ASSUME NEW x \in Int, NEW m \in Nat \ {0}, NEW l \in Int, NEW g \in Int,
         m * l <= x, x < m * (g + 1)
  PROVE  l <= x \div m /\ x \div m <= g
<1> DEFINE q == x \div m
<1>1. q \in Int /\ x - m * q \in 0..(m - 1)
  BY Division
<1> HIDE DEF q
<1>2. ~(q < l)
  <2>1. q < l => m * (q + 1) <= m * l
    BY <1>1
  <2>2. m * (q + 1) = m * q + m
    BY <1>1
  <2>3. QED
    BY <1>1, <2>1, <2>2
<1>3. ~(q > g)
  <2>1. q > g => m * (g + 1) <= m * q
    BY <1>1
  <2>2. QED
    BY <1>1, <2>1
<1>4. QED
  BY <1>1, <1>2, <1>3 DEF q

\* The half of a type is whole, and a value is made of two halves: the high one
\* with the sign of the value, the low one not negative.
LEMMA Halves ==
  ASSUME NEW t \in Types
  PROVE  \E r \in Nat \ {0} :
           /\ Half(t) = 2 * r /\ 2^t.w = Half(t) * Half(t) /\ 2^(t.w - 1) = Half(t) * r
           /\ Half(t) \div 2 = r
           /\ \A x \in Values(t) :
                /\ Hi(t, x) \in Int /\ Lo(t, x) \in 0..(Half(t) - 1)
                /\ x = Half(t) * Hi(t, x) + Lo(t, x)
                /\ t.signed => Hi(t, x) \in (-r)..(r - 1)
                /\ ~t.signed => Hi(t, x) \in 0..(Half(t) - 1)
<1>1. t \in AnyType /\ t.w \in Widths
  BY TypesAny DEF Types
<1>2. PICK k \in 1..t.w : t.w \in Nat /\ t.w = 2^k
  BY <1>1, WidthsAssumption
<1>3. 2^((k - 1) + 1) = 2 * 2^(k - 1) /\ (k - 1) + 1 = k
  BY PowerStep, k - 1 \in Nat
<1>4. PICK h \in Nat \ {0} : t.w = 2 * h
  BY <1>2, <1>3, PowerPositive, k - 1 \in Nat
<1>5. Half(t) = 2^h
  BY <1>4 DEF Half
<1>6. PICK r \in Nat \ {0} : r = 2^(h - 1)
  BY PowerPositive, h - 1 \in Nat
<1> DEFINE H == 2^h
<1>7. H = 2 * r
  BY <1>6, PowerStep, h - 1 \in Nat, (h - 1) + 1 = h
<1>8. H \in Nat \ {0}
  BY <1>7
<1>9. 2^t.w = H * H
  BY <1>4, PowerSum, h + h = 2 * h
<1>10. 2^(t.w - 1) = H * r
  BY <1>4, <1>6, PowerSum, h - 1 \in Nat, h + (h - 1) = 2 * h - 1
<1>11. H \div 2 = r
  BY <1>7
<1>12. ASSUME NEW x \in Values(t)
       PROVE  /\ Hi(t, x) \in Int /\ Lo(t, x) \in 0..(H - 1)
              /\ x = H * Hi(t, x) + Lo(t, x)
              /\ t.signed => Hi(t, x) \in (-r)..(r - 1)
              /\ ~t.signed => Hi(t, x) \in 0..(H - 1)
  <2>1. /\ x \in Int
        /\ t.signed => -(H * r) <= x /\ x <= H * r - 1
        /\ ~t.signed => 0 <= x /\ x <= H * H - 1
    BY <1>1, <1>9, <1>10, ValuesOf
  <2>2. Hi(t, x) = x \div H /\ Lo(t, x) = x % H
    BY <1>5 DEF Hi, Lo
  <2> HIDE DEF H
  <2>3. x \div H \in Int /\ x % H \in 0..(H - 1) /\ x = H * (x \div H) + (x % H)
    BY <1>8, <2>1, Division
  <2>4. ASSUME t.signed PROVE x \div H \in (-r)..(r - 1)
    <3>1. PICK l \in Int : l = -r
      OBVIOUS
    <3>2. PICK g \in Int : g = r - 1
      OBVIOUS
    <3>3. H * l <= x /\ x < H * (g + 1)
      <4>1. H * l = -(H * r)
        BY <1>8, <3>1
      <4>2. g + 1 = r
        BY <3>2
      <4>3. H * r \in Int
        BY <1>8
      <4>4. QED
        BY <2>1, <2>4, <4>1, <4>2, <4>3
    <3>4. l <= x \div H /\ x \div H <= g
      BY <1>8, <2>1, <3>3, QuotientWithin
    <3>5. QED
      BY <2>3, <3>1, <3>2, <3>4
  <2>5. ASSUME ~t.signed PROVE x \div H \in 0..(H - 1)
    <3>1. PICK l \in Int : l = 0
      OBVIOUS
    <3>2. PICK g \in Int : g = H - 1
      BY <1>8
    <3>3. H * l <= x /\ x < H * (g + 1)
      <4>1. H * l = 0
        BY <1>8, <3>1
      <4>2. g + 1 = H
        BY <1>8, <3>2
      <4>3. H * H \in Int
        BY <1>8
      <4>4. QED
        BY <2>1, <2>5, <4>1, <4>2, <4>3
    <3>4. l <= x \div H /\ x \div H <= g
      BY <1>8, <2>1, <3>3, QuotientWithin
    <3>5. QED
      BY <1>8, <2>3, <3>1, <3>2, <3>4
  <2>6. QED
    BY <2>2, <2>3, <2>4, <2>5
<1>13. QED
  BY <1>5, <1>7, <1>9, <1>10, <1>11, <1>12

\* The carry of the middle products: their sum, which need not fit the type,
\* divided by the half.
LEMMA MiddleIs ==
  ASSUME NEW t \in Types, NEW x \in Values(t), NEW y \in Values(t)
  PROVE  Middle(t, x, y) = (x + y) \div Half(t)
<1>1. PICK r \in Nat \ {0} : Half(t) = 2 * r /\ Half(t) \div 2 = r
  BY Halves
<1>2. t \in AnyType
  BY TypesAny
<1>3. x \in Int /\ y \in Int
  BY <1>2, ValuesOf
<1>4. Middle(t, x, y) = ((x + y) \div 2) \div r
  BY <1>1, <1>2, Hadd DEF Middle, Hi1
<1>5. PICK z \in Int : z = x + y
  BY <1>3
<1>6. PICK m \in Nat \ {0} : m = 2
  OBVIOUS
<1>7. (z \div m) \div r = z \div (m * r)
  BY DivDiv
<1>8. QED
  BY <1>1, <1>4, <1>5, <1>6, <1>7

\* The products of a high and a low half, of two high and of two low halves.
LEMMA HalfProducts ==
  ASSUME NEW H \in Nat \ {0}, NEW r \in Nat \ {0}, H = 2 * r,
         NEW al \in 0..(H - 1), NEW bl \in 0..(H - 1)
  PROVE  /\ al * bl \in 0..((H - 1) * (H - 1))
         /\ \A h \in (-r)..(r - 1) : /\ -(r * (H - 1)) <= h * bl
                                     /\ h * bl <= (r - 1) * (H - 1)
<1>1. al * bl \in Nat /\ al * bl <= (H - 1) * bl /\ (H - 1) * bl <= (H - 1) * (H - 1)
  <2>1. al * bl \in Nat
    OBVIOUS
  <2>2. al * bl <= (H - 1) * bl
    OBVIOUS
  <2>3. bl * (H - 1) <= (H - 1) * (H - 1)
    OBVIOUS
  <2>4. QED
    BY <2>1, <2>2, <2>3
<1>2. ASSUME NEW h \in (-r)..(r - 1)
      PROVE  -(r * (H - 1)) <= h * bl /\ h * bl <= (r - 1) * (H - 1)
  <2>1. (-r) * bl <= h * bl /\ h * bl <= (r - 1) * bl
    OBVIOUS
  <2>2. r * bl <= r * (H - 1) /\ (r - 1) * bl <= (r - 1) * (H - 1)
    OBVIOUS
  <2>3. (-r) * bl = -(r * bl) /\ r * bl \in Int /\ h * bl \in Int /\ (r - 1) * bl \in Int
    OBVIOUS
  <2>4. QED
    BY <2>1, <2>2, <2>3
<1>3. QED
  BY <1>1, <1>2

\* No partial product and no partial sum of mad_sat leaves its type.
LEMMA PartsFit ==
  ASSUME NEW t \in Types, NEW a \in Values(t), NEW b \in Values(t), NEW c \in Values(t)
  PROVE  LET T == Lo(t, a) * Lo(t, b) + Lo(t, c)
         IN  /\ Lo(t, a) * Lo(t, b) \in Values(Unsigned(t))
             /\ T \in Values(Unsigned(t))
             /\ T \div Half(t) \in 0..(Half(t) - 1)
             /\ Hi(t, a) * Lo(t, b) \in Values(t)
             /\ Lo(t, a) * Hi(t, b) \in Values(t)
             /\ Hi(t, a) * Hi(t, b) \in Values(t)
             /\ Hi(t, a) * Lo(t, b) + Hi(t, c) \in Values(t)
             /\ Lo(t, a) * Hi(t, b) + T \div Half(t) \in Values(t)
<1> DEFINE H == Half(t)
           u == Unsigned(t)
           ah == Hi(t, a)
           al == Lo(t, a)
           bh == Hi(t, b)
           bl == Lo(t, b)
           ch == Hi(t, c)
           cl == Lo(t, c)
           T == al * bl + cl
<1>1. PICK r \in Nat \ {0} :
        /\ H = 2 * r /\ 2^t.w = H * H /\ 2^(t.w - 1) = H * r
        /\ ah \in Int /\ al \in 0..(H - 1)
        /\ bh \in Int /\ bl \in 0..(H - 1)
        /\ ch \in Int /\ cl \in 0..(H - 1)
        /\ t.signed => ah \in (-r)..(r - 1) /\ bh \in (-r)..(r - 1) /\ ch \in (-r)..(r - 1)
        /\ ~t.signed => ah \in 0..(H - 1) /\ bh \in 0..(H - 1) /\ ch \in 0..(H - 1)
  BY Halves
<1>2. t \in AnyType /\ u \in AnyType /\ u.w = t.w /\ ~u.signed
  BY TypesAny, UnsignedType
<1>3. /\ \A x \in Int : t.signed => (x \in Values(t) <=> -(H * r) <= x /\ x <= H * r - 1)
      /\ \A x \in Int : ~t.signed => (x \in Values(t) <=> 0 <= x /\ x <= H * H - 1)
      /\ \A x \in Int : x \in Values(u) <=> 0 <= x /\ x <= H * H - 1
  BY <1>1, <1>2, ValuesOf
<1>4. H \in Nat \ {0} /\ H >= 2
  BY <1>1
<1> HIDE DEF H, u, ah, al, bh, bl, ch, cl
<1>5. /\ (H - 1) * (H - 1) = H * H - 2 * H + 1
      /\ r * (H - 1) = H * r - r
      /\ (r - 1) * (H - 1) = H * r - H - r + 1
      /\ H * H \in Nat /\ H * r \in Nat
  BY <1>1, <1>4
<1>6. al * bl \in Values(u) /\ T \in Values(u)
  <2>1. al * bl \in 0..((H - 1) * (H - 1))
    BY <1>1, <1>4, HalfProducts
  <2>2. QED
    BY <1>1, <1>3, <1>4, <1>5, <2>1
<1>7. T \in Nat /\ T < H * H
  BY <1>1, <1>3, <1>4, <1>6
<1>8. T \div H \in 0..(H - 1)
  <2>1. PICK l \in Int : l = 0
    OBVIOUS
  <2>2. PICK g \in Int : g = H - 1
    BY <1>4
  <2>3. H * l = 0 /\ g + 1 = H
    BY <1>4, <2>1, <2>2
  <2>4. l <= T \div H /\ T \div H <= g
    <3> HIDE DEF T
    <3>1. T \in Int /\ H * l <= T /\ T < H * (g + 1)
      BY <1>7, <2>3
    <3>2. QED
      BY <1>4, <3>1, QuotientWithin
  <2>5. T \div H \in Int
    BY <1>4, <1>7
  <2>6. QED
    BY <1>4, <2>1, <2>2, <2>4, <2>5
<1> HIDE DEF T
<1>9. /\ ah * bl \in Values(t) /\ al * bh \in Values(t) /\ ah * bh \in Values(t)
      /\ ah * bl + ch \in Values(t)
      /\ al * bh + T \div H \in Values(t)
  <2> DEFINE th == T \div H
  <2>1. th \in 0..(H - 1)
    BY <1>8
  <2> HIDE DEF th
  <2>2. /\ ah * bl \in Int /\ al * bh \in Int /\ ah * bh \in Int
        /\ al * bh = bh * al
    BY <1>1, <1>4
  <2>3. CASE t.signed
    <3>1. /\ -(r * (H - 1)) <= ah * bl /\ ah * bl <= (r - 1) * (H - 1)
          /\ -(r * (H - 1)) <= bh * al /\ bh * al <= (r - 1) * (H - 1)
      BY <1>1, <1>4, <2>3, HalfProducts
    <3>2. -(H * r) <= ah * bh /\ ah * bh <= H * r - 1
      <4>1. CASE bh >= 0
        <5>1. bh \in 0..(H - 1)
          BY <1>1, <2>3, <4>1
        <5>2. -(r * (H - 1)) <= ah * bh /\ ah * bh <= (r - 1) * (H - 1)
          BY <1>1, <1>4, <2>3, <5>1, HalfProducts
        <5>3. QED
          BY <1>1, <1>4, <1>5, <2>2, <5>2
      <4>2. CASE bh < 0
        <5>1. PICK n \in 0..(H - 1) : n = -bh
          BY <1>1, <2>3, <4>2
        <5>2. CASE ah # -r
          <6>1. PICK m \in (-r)..(r - 1) : m = -ah
            BY <1>1, <2>3, <5>2
          <6>2. -(r * (H - 1)) <= m * n /\ m * n <= (r - 1) * (H - 1)
            BY <1>1, <1>4, <5>1, HalfProducts
          <6>3. m * n = ah * bh
            BY <1>1, <5>1, <6>1
          <6>4. QED
            BY <1>1, <1>4, <1>5, <2>2, <6>2, <6>3
        <5>3. CASE ah = -r
          <6>1. ah * bh = r * n
            BY <1>1, <5>1, <5>3
          <6>2. n \in 0..r
            BY <1>1, <2>3, <5>1
          <6>3. r * n \in Nat /\ r * n <= r * r
            BY <6>2
          <6>4. H * r = r * r + r * r /\ r * r \in Nat /\ r * r >= 1
            BY <1>1
          <6>5. QED
            BY <1>5, <2>2, <6>1, <6>3, <6>4
        <5>4. QED
          BY <5>2, <5>3
      <4>3. QED
        BY <1>1, <4>1, <4>2
    <3>3. /\ ah * bl \in Values(t) /\ al * bh \in Values(t) /\ ah * bh \in Values(t)
      BY <1>1, <1>3, <1>4, <1>5, <2>2, <2>3, <3>1, <3>2
    <3>4. ah * bl + ch \in Values(t)
      BY <1>1, <1>3, <1>4, <1>5, <2>2, <2>3, <3>1
    <3>5. al * bh + th \in Values(t)
      BY <1>1, <1>3, <1>4, <1>5, <2>1, <2>2, <2>3, <3>1
    <3>6. QED
      BY <3>3, <3>4, <3>5 DEF th
  <2>4. CASE ~t.signed
    <3>1. /\ ah * bl \in 0..((H - 1) * (H - 1)) /\ al * bh \in 0..((H - 1) * (H - 1))
          /\ ah * bh \in 0..((H - 1) * (H - 1))
      BY <1>1, <1>4, <2>4, HalfProducts
    <3>2. /\ ah * bl \in Values(t) /\ al * bh \in Values(t) /\ ah * bh \in Values(t)
      BY <1>3, <1>4, <1>5, <2>4, <3>1
    <3>3. ah * bl + ch \in Values(t)
      BY <1>1, <1>3, <1>4, <1>5, <2>4, <3>1
    <3>4. al * bh + th \in Values(t)
      BY <1>3, <1>4, <1>5, <2>1, <2>4, <3>1
    <3>5. QED
      BY <3>2, <3>3, <3>4 DEF th
  <2>5. QED
    BY <2>3, <2>4
<1>10. QED
  BY <1>6, <1>8, <1>9 DEF H, u, ah, al, bh, bl, ch, cl, T

\* The high half of a product with an addend, from the halves of the factors:
\* H^2 * ah*bh + H * (ah*bl + al*bh + ch) + (al*bl + cl).
LEMMA HighPart ==
  ASSUME NEW t \in Types, NEW a \in Values(t), NEW b \in Values(t), NEW c \in Values(t)
  PROVE  LET T == Lo(t, a) * Lo(t, b) + Lo(t, c)
             x == Hi(t, a) * Lo(t, b) + Hi(t, c)
             y == Lo(t, a) * Hi(t, b) + T \div Half(t)
         IN  /\ Hi(t, a) * Hi(t, b) + (x + y) \div Half(t) = (a * b + c) \div 2^t.w
             /\ a * b + c = 2^t.w * (Hi(t, a) * Hi(t, b))
                            + (Hi(t, a) * Lo(t, b) + Lo(t, a) * Hi(t, b) + Hi(t, c)) * Half(t) + T
<1> DEFINE H == Half(t)
           ah == Hi(t, a)
           al == Lo(t, a)
           bh == Hi(t, b)
           bl == Lo(t, b)
           ch == Hi(t, c)
           cl == Lo(t, c)
           T == al * bl + cl
           x == ah * bl + ch
           y == al * bh + T \div H
           q == (x + y) \div H
           M == 2^t.w
<1>1. /\ H \in Nat \ {0} /\ M = H * H
      /\ ah \in Int /\ al \in 0..(H - 1) /\ a = H * ah + al
      /\ bh \in Int /\ bl \in 0..(H - 1) /\ b = H * bh + bl
      /\ ch \in Int /\ cl \in 0..(H - 1) /\ c = H * ch + cl
  BY Halves
<1> HIDE DEF H, ah, al, bh, bl, ch, cl, M
<1>2. T \in Int
  BY <1>1
<1>3. T \div H \in Int /\ T % H \in 0..(H - 1) /\ T = H * (T \div H) + (T % H)
  <2> HIDE DEF T
  <2>1. QED
    BY <1>1, <1>2, Division
<1>4. x \in Int /\ y \in Int
  BY <1>1, <1>3
<1>5. q \in Int /\ (x + y) % H \in 0..(H - 1) /\ x + y = H * q + ((x + y) % H)
  <2>1. PICK z \in Int : z = x + y
    BY <1>4
  <2> HIDE DEF x, y
  <2>2. QED
    BY <1>1, <2>1, Division
<1>6. a * b + c = M * (ah * bh) + (ah * bl + al * bh + ch) * H + T
  <2>1. a * b = (H * ah) * (H * bh) + (H * ah) * bl + al * (H * bh) + al * bl
    BY <1>1
  <2>2. (H * ah) * (H * bh) = (H * H) * (ah * bh)
    BY <1>1
  <2>3. (H * ah) * bl + al * (H * bh) + H * ch = (ah * bl + al * bh + ch) * H
    BY <1>1
  <2>4. /\ (H * ah) * bl \in Int /\ al * (H * bh) \in Int /\ al * bl \in Int /\ H * ch \in Int
        /\ (H * H) * (ah * bh) \in Int
    BY <1>1
  <2>5. QED
    BY <1>1, <2>1, <2>2, <2>3, <2>4
<1> DEFINE s == (x + y) % H
           v == H * s + (T % H)
           k == ah * bh + q
           z == a * b + c
<1>7. (ah * bl + al * bh + ch) * H + T = H * (x + y) + (T % H)
  <2> DEFINE th == T \div H
             tl == T % H
             m == ah * bl
             n == al * bh
  <2>1. m \in Int /\ n \in Int /\ ch \in Int /\ th \in Int /\ tl \in Int /\ T = H * th + tl
    BY <1>1, <1>3
  <2>2. x = m + ch /\ y = n + th
    OBVIOUS
  <2> HIDE DEF th, tl, m, n, T, x, y
  <2>3. (m + n + ch) * H + H * th = H * ((m + ch) + (n + th))
    BY <1>1, <2>1
  <2>4. (m + n + ch) * H \in Int /\ H * th \in Int
    BY <1>1, <2>1
  <2>5. QED
    BY <2>1, <2>2, <2>3, <2>4 DEF m, n, tl
<1>8. /\ s \in 0..(H - 1) /\ x + y = H * q + s /\ q \in Int /\ T % H \in 0..(H - 1)
      /\ ah * bh \in Int
  BY <1>1, <1>3, <1>5
<1>9. z = M * (ah * bh) + H * (x + y) + (T % H)
  <2>1. M * (ah * bh) \in Int /\ (ah * bl + al * bh + ch) * H \in Int
    BY <1>1
  <2>2. H * (x + y) \in Int
    BY <1>1, <1>4
  <2> HIDE DEF x, y, T
  <2>3. QED
    BY <1>2, <1>3, <1>6, <1>7, <2>1, <2>2
<1> HIDE DEF x, y, T, q, s
<1>10. H * (x + y) = M * q + H * s
  BY <1>1, <1>8
<1>11. v \in 0..(M - 1)
  <2>1. H * s \in Nat /\ H * s <= H * (H - 1)
    BY <1>1, <1>8
  <2>2. H * (H - 1) = M - H /\ M \in Int
    BY <1>1
  <2>3. QED
    BY <1>1, <1>8, <2>1, <2>2
<1>12. z = M * k + v /\ k \in Int /\ M \in Nat \ {0}
  <2>1. M * k = M * (ah * bh) + M * q
    BY <1>1, <1>8
  <2>2. M * (ah * bh) \in Int /\ M * q \in Int /\ H * s \in Int
    BY <1>1, <1>8
  <2>3. M \in Nat \ {0}
    BY <1>1
  <2>4. QED
    BY <1>8, <1>9, <1>10, <2>1, <2>2, <2>3
<1>13. z \in Int
  BY <1>1
<1> HIDE DEF z, k, v
<1>14. z \div M = k
  BY <1>11, <1>12, <1>13, DivisionUnique
<1>15. QED
  BY <1>6, <1>14 DEF H, ah, al, bh, bl, ch, cl, T, x, y, q, M, z, k

\* The high half of a product with an addend is a value of the type.
LEMMA HighFits ==
  ASSUME NEW t \in AnyType, NEW a \in Values(t), NEW b \in Values(t), NEW c \in Values(t)
  PROVE  (a * b + c) \div 2^t.w \in Values(t)
<1> DEFINE M == 2^t.w
           N == 2^(t.w - 1)
           l == Least(t)
           g == Greatest(t)
           z == a * b + c
<1>1. /\ M \in Nat \ {0} /\ N \in Nat \ {0} /\ M = 2 * N /\ l \in Int /\ g \in Int
      /\ a \in Int /\ b \in Int /\ c \in Int
      /\ l <= a /\ a <= g /\ l <= b /\ b <= g /\ l <= c /\ c <= g
      /\ t.signed => l = -N /\ g = N - 1
      /\ ~t.signed => l = 0 /\ g = M - 1
      /\ \A x \in Int : x \in Values(t) <=> l <= x /\ x <= g
  BY TypeSize, ValuesOf
<1> HIDE DEF M, N, l, g
<1>2. M * l <= z /\ z < M * (g + 1)
  <2>1. CASE ~t.signed
    <3>1. a * b \in Nat /\ a * b <= g * b /\ g * b <= g * g
      BY <1>1, <2>1
    <3>2. g * g + g = M * g /\ M * l = 0 /\ M * (g + 1) = M * g + M /\ M * g \in Int
      BY <1>1, <2>1
    <3>3. g * b \in Int /\ g * g \in Int
      BY <1>1
    <3>4. QED
      BY <1>1, <2>1, <3>1, <3>2, <3>3
  <2>2. CASE t.signed
    <3>1. -(N * N) <= a * b /\ a * b <= N * N
      <4>1. CASE b >= 0
        <5>1. (-N) * b <= a * b /\ a * b <= N * b
          BY <1>1, <2>2, <4>1
        <5>2. N * b <= N * N /\ N * b \in Int /\ N * N \in Int /\ (-N) * b = -(N * b)
          BY <1>1, <2>2
        <5>3. QED
          BY <1>1, <5>1, <5>2
      <4>2. CASE b < 0
        <5>1. PICK d \in Nat : d = -b /\ d <= N
          BY <1>1, <2>2, <4>2
        <5>2. (-N) * d <= a * d /\ a * d <= N * d
          BY <1>1, <2>2, <5>1
        <5>3. N * d <= N * N /\ N * d \in Int /\ N * N \in Int /\ (-N) * d = -(N * d)
          BY <1>1, <5>1
        <5>4. a * d = -(a * b) /\ a * b \in Int
          BY <1>1, <5>1
        <5>5. QED
          BY <1>1, <5>2, <5>3, <5>4
      <4>3. QED
        BY <1>1, <4>1, <4>2
    <3>2. N * N \in Nat /\ N <= N * N /\ M * l = -(2 * (N * N)) /\ M * (g + 1) = 2 * (N * N)
      BY <1>1, <2>2
    <3>3. a * b \in Int
      BY <1>1
    <3>4. QED
      BY <1>1, <2>2, <3>1, <3>2, <3>3
  <2>3. QED
    BY <2>1, <2>2
<1>3. z \in Int
  BY <1>1
<1> HIDE DEF z
<1>4. l <= z \div M /\ z \div M <= g
  BY <1>1, <1>2, <1>3, QuotientWithin
<1>5. z \div M \in Int
  BY <1>1, <1>3, Division
<1>6. QED
  BY <1>1, <1>4, <1>5 DEF z, M

\* abch of mad_sat: the high half is exact.
LEMMA HighExact ==
  ASSUME NEW t \in Types, NEW a \in Values(t), NEW b \in Values(t), NEW c \in Values(t)
  PROVE  LET alblcl == Cast(Unsigned(t), Cast(Unsigned(t), Lo(t, a) * Lo(t, b)) + Lo(t, c))
             ahbl == Cast(t, Hi(t, a) * Lo(t, b))
             albh == Cast(t, Lo(t, a) * Hi(t, b))
         IN  /\ alblcl = Lo(t, a) * Lo(t, b) + Lo(t, c)
             /\ ahbl = Hi(t, a) * Lo(t, b)
             /\ albh = Lo(t, a) * Hi(t, b)
             /\ Cast(t, Cast(t, Hi(t, a) * Hi(t, b))
                        + Middle(t, Cast(t, ahbl + Hi(t, c)), Cast(t, albh + Hi(t, alblcl))))
                = (a * b + c) \div 2^t.w
<1> DEFINE u == Unsigned(t)
           alblcl == Cast(u, Cast(u, Lo(t, a) * Lo(t, b)) + Lo(t, c))
           ahbl == Cast(t, Hi(t, a) * Lo(t, b))
           albh == Cast(t, Lo(t, a) * Hi(t, b))
           T == Lo(t, a) * Lo(t, b) + Lo(t, c)
           x == Hi(t, a) * Lo(t, b) + Hi(t, c)
           y == Lo(t, a) * Hi(t, b) + T \div Half(t)
<1>1. t \in AnyType /\ u \in AnyType
  BY TypesAny, UnsignedType
<1>2. /\ Lo(t, a) * Lo(t, b) \in Values(u)
      /\ T \in Values(u)
      /\ Hi(t, a) * Lo(t, b) \in Values(t)
      /\ Lo(t, a) * Hi(t, b) \in Values(t)
      /\ Hi(t, a) * Hi(t, b) \in Values(t)
      /\ x \in Values(t)
      /\ y \in Values(t)
  BY PartsFit
<1>3. alblcl = T
  BY <1>1, <1>2, CastSame
<1>4. ahbl = Hi(t, a) * Lo(t, b) /\ albh = Lo(t, a) * Hi(t, b)
  BY <1>1, <1>2, CastSame
<1>5. Cast(t, Hi(t, a) * Hi(t, b)) = Hi(t, a) * Hi(t, b)
  BY <1>1, <1>2, CastSame
<1>6. Hi(t, alblcl) = T \div Half(t)
  BY <1>3 DEF Hi
<1>7. Cast(t, ahbl + Hi(t, c)) = x /\ Cast(t, albh + Hi(t, alblcl)) = y
  BY <1>1, <1>2, <1>4, <1>6, CastSame
<1>8. Middle(t, x, y) = (x + y) \div Half(t)
  BY <1>2, MiddleIs
<1>9. Hi(t, a) * Hi(t, b) + (x + y) \div Half(t) = (a * b + c) \div 2^t.w
  BY HighPart
<1>10. (a * b + c) \div 2^t.w \in Values(t)
  BY <1>1, HighFits
<1>11. Cast(t, (a * b + c) \div 2^t.w) = (a * b + c) \div 2^t.w
  BY <1>1, <1>10, CastSame
<1> HIDE DEF alblcl, ahbl, albh, T, x, y
<1>12. Cast(t, Cast(t, Hi(t, a) * Hi(t, b))
               + Middle(t, Cast(t, ahbl + Hi(t, c)), Cast(t, albh + Hi(t, alblcl))))
       = (a * b + c) \div 2^t.w
  BY <1>5, <1>7, <1>8, <1>9, <1>11
<1>13. QED
  BY <1>3, <1>4, <1>12 DEF alblcl, ahbl, albh, T

LEMMA MulHi ==
  ASSUME NEW t \in Types, NEW a \in Values(t), NEW b \in Values(t)
  PROVE  mul_hi(t, a, b) = (a * b) \div 2^t.w
<1> DEFINE u == Unsigned(t)
           albl == Cast(u, Lo(t, a) * Lo(t, b))
           ahbl == Cast(t, Hi(t, a) * Lo(t, b))
           albh == Cast(t, Lo(t, a) * Hi(t, b))
<1>1. t \in AnyType /\ u \in AnyType
  BY TypesAny, UnsignedType
<1>2. PICK c \in Values(t) : c = 0
  BY <1>1, TypeSize, ValuesOf
<1>3. Half(t) \in Nat \ {0} /\ Hi(t, a) \in Int /\ Lo(t, a) \in Int /\ Hi(t, b) \in Int /\ Lo(t, b) \in Int
  BY Halves
<1>4. Hi(t, c) = 0 /\ Lo(t, c) = 0
  BY <1>2, <1>3 DEF Hi, Lo
<1>5. /\ Lo(t, a) * Lo(t, b) \in Values(u)
      /\ Hi(t, a) * Lo(t, b) \in Values(t)
  BY PartsFit
<1>6. /\ albl = Lo(t, a) * Lo(t, b) /\ Cast(u, albl) = albl
      /\ ahbl = Hi(t, a) * Lo(t, b) /\ Cast(t, ahbl) = ahbl
  BY <1>1, <1>5, CastSame
<1>7. albl + Lo(t, c) = albl /\ ahbl + Hi(t, c) = ahbl
  BY <1>3, <1>4, <1>6
<1>8. Cast(t, Cast(t, Hi(t, a) * Hi(t, b))
              + Middle(t, Cast(t, ahbl + Hi(t, c)), Cast(t, albh + Hi(t, Cast(u, albl + Lo(t, c))))))
      = (a * b + c) \div 2^t.w
  BY HighExact
<1>9. a * b + c = a * b
  BY <1>1, <1>2, ValuesOf
<1>10. Cast(t, Cast(t, Hi(t, a) * Hi(t, b)) + Middle(t, ahbl, Cast(t, albh + Hi(t, albl))))
       = (a * b) \div 2^t.w
  BY <1>6, <1>7, <1>8, <1>9
<1>11. QED
  BY <1>10 DEF mul_hi

LEMMA MadSat ==
  ASSUME NEW t \in Types, NEW a \in Values(t), NEW b \in Values(t), NEW c \in Values(t)
  PROVE  mad_sat(t, a, b, c) = Clamp(t, a * b + c)
<1> DEFINE M == 2^t.w
           l == Least(t)
           g == Greatest(t)
           z == a * b + c
           T == Lo(t, a) * Lo(t, b) + Lo(t, c)
           m == (Hi(t, a) * Lo(t, b) + Lo(t, a) * Hi(t, b) + Hi(t, c)) * Half(t)
           e == Hi(t, a) * Hi(t, b)
           low == Cast(t, Cast(t, m) + T)
           high == z \div M
           fits == IF t.signed THEN high = (IF low >= 0 THEN 0 ELSE -1) ELSE high = 0
<1>1. t \in AnyType
  BY TypesAny
<1>2. /\ M \in Nat \ {0} /\ l \in Int /\ g \in Int
      /\ a \in Int /\ b \in Int /\ c \in Int /\ g = l + M - 1
      /\ l <= 0 /\ g >= 0
      /\ ~t.signed => l = 0 /\ 0 <= a /\ 0 <= b /\ 0 <= c
      /\ \A x \in Int : x \in Values(t) <=> l <= x /\ x <= g
  BY <1>1, TypeSize, ValuesOf
<1>3. mad_sat(t, a, b, c) = IF fits THEN low ELSE IF high >= 0 THEN g ELSE l
  BY HighExact DEF mad_sat
<1>4. z = M * e + m + T
  BY HighPart
<1>5. e \in Int /\ m \in Int /\ T \in Int /\ z \in Int
  BY <1>2, Halves
<1> SUFFICES mad_sat(t, a, b, c) = Clamp(t, z)
  OBVIOUS
<1> HIDE DEF M, l, g, z, T, m, e
<1>6. PICK k \in Int : z = M * k + low /\ low \in Values(t) /\ low \in Int
  <2>1. PICK i \in Int : m = M * i + Cast(t, m) /\ Cast(t, m) \in Int
    BY <1>1, <1>5, CastValue, ValuesOf DEF M
  <2>2. PICK x \in Int : x = Cast(t, m) + T
    BY <1>5, <2>1
  <2>3. PICK j \in Int : x = M * j + low /\ low \in Values(t)
    BY <1>1, <2>2, CastValue DEF M
  <2>4. low \in Int
    BY <1>1, <2>3, ValuesOf
  <2> HIDE DEF low
  <2>5. M * (e + i + j) = M * e + M * i + M * j
    BY <1>2, <1>5
  <2>6. M * e \in Int /\ M * i \in Int /\ M * j \in Int
    BY <1>2, <1>5
  <2>7. z = M * (e + i + j) + low
    BY <1>4, <1>5, <2>1, <2>2, <2>3, <2>4, <2>5, <2>6
  <2>8. QED
    BY <1>5, <2>3, <2>4, <2>7
<1> HIDE DEF low
<1>7. low = Cast(t, z)
  BY <1>1, <1>5, <1>6, CastIs DEF M
<1>8. z \in Values(t) => low = z
  BY <1>1, <1>7, CastSame
<1>9. high \in Int /\ z - M * high \in 0..(M - 1)
  BY <1>2, <1>5, Division
<1> HIDE DEF high
<1>10. high >= 0 <=> z >= 0
  <2>1. high >= 0 => M * high >= 0
    BY <1>2, <1>9
  <2>2. high < 0 => M * high <= -M
    BY <1>2, <1>9
  <2>3. M * high \in Int
    BY <1>2, <1>9
  <2>4. QED
    BY <1>2, <1>5, <1>9, <2>1, <2>2, <2>3
<1>11. fits <=> low = z
  <2>1. CASE high = 0
    <3>1. z \in 0..(M - 1)
      BY <1>2, <1>5, <1>9, <2>1
    <3>2. CASE low >= 0
      <4>1. z \in Values(t) \/ t.signed
        BY <1>2, <3>1
      <4>2. k = 0
        <5>1. k >= 1 => M * k >= M
          BY <1>2
        <5>2. k <= -1 => M * k <= -M
          BY <1>2
        <5>3. M * k \in Int /\ low <= M - 1
          BY <1>2, <1>6
        <5>4. QED
          BY <1>2, <1>6, <3>1, <3>2, <5>1, <5>2, <5>3
      <4>3. low = z
        BY <1>2, <1>6, <4>2
      <4>4. QED
        BY <2>1, <3>2, <4>3
    <3>3. CASE low < 0
      <4>1. t.signed
        BY <1>2, <1>6, <3>3
      <4>2. QED
        BY <1>6, <2>1, <3>1, <3>3, <4>1
    <3>4. QED
      BY <1>6, <3>2, <3>3
  <2>2. CASE high = -1
    <3>1. z \in (-M)..(-1)
      BY <1>2, <1>5, <1>9, <2>2
    <3>2. CASE low >= 0
      BY <1>6, <2>2, <3>1, <3>2
    <3>3. CASE low < 0
      <4>1. t.signed
        BY <1>2, <1>6, <3>3
      <4>2. k = 0
        <5>1. k >= 1 => M * k >= M
          BY <1>2
        <5>2. k <= -1 => M * k <= -M
          BY <1>2
        <5>3. M * k \in Int /\ low > -M
          BY <1>2, <1>6
        <5>4. QED
          BY <1>2, <1>6, <3>1, <3>3, <5>1, <5>2, <5>3
      <4>3. low = z
        BY <1>2, <1>6, <4>2
      <4>4. QED
        BY <1>6, <2>2, <3>3, <4>1, <4>3
    <3>4. QED
      BY <1>6, <3>2, <3>3
  <2>3. CASE high \notin {0, -1}
    <3>1. high >= 1 => M * high >= M
      BY <1>2, <1>9
    <3>2. high <= -2 => M * high <= -(2 * M)
      BY <1>2, <1>9
    <3>3. M * high \in Int
      BY <1>2, <1>9
    <3>4. z >= M \/ z < -M
      BY <1>2, <1>5, <1>9, <2>3, <3>1, <3>2, <3>3
    <3>5. low > -M /\ low < M
      BY <1>2, <1>6
    <3>6. low # z
      BY <1>2, <1>5, <1>6, <3>4, <3>5
    <3>7. QED
      BY <1>6, <2>3, <3>6
  <2>4. QED
    BY <2>1, <2>2, <2>3
<1>12. /\ z \in Values(t) => Clamp(t, z) = z
       /\ z < l => Clamp(t, z) = l
       /\ z > g => Clamp(t, z) = g
  BY <1>1, <1>5, ClampIs DEF l, g
<1> HIDE DEF fits
<1>13. CASE fits
  BY <1>3, <1>6, <1>11, <1>12, <1>13
<1>14. CASE ~fits
  <2>1. z \notin Values(t)
    BY <1>8, <1>11, <1>14
  <2>2. z < l \/ z > g
    BY <1>2, <1>5, <2>1
  <2>3. QED
    BY <1>2, <1>3, <1>5, <1>9, <1>10, <1>12, <1>14, <2>2
<1>15. QED
  BY <1>13, <1>14
-----------------------------------------------------------------------------
(* Bits.                                                                   *)

Bit(x, i) == (x \div 2^i) % 2 = 1

\* The bits of a number that is put together from two.
LEMMA BitsSplit ==
  ASSUME NEW n \in Nat, NEW q \in Int, NEW k \in 0..(2^n - 1), NEW x \in Int,
         x = 2^n * q + k
  PROVE  /\ \A i \in 0..(n - 1) : Bit(x, i) = Bit(k, i)
         /\ \A j \in Nat : Bit(x, n + j) = Bit(q, j)
<1>1. 2^n \in Nat \ {0} /\ k \in Int
  BY PowerPositive
<1>2. ASSUME NEW i \in 0..(n - 1) PROVE Bit(x, i) = Bit(k, i)
  <2>1. i \in Nat /\ n - (i + 1) \in Nat /\ (i + 1) + (n - (i + 1)) = n /\ i + 1 \in Nat
    OBVIOUS
  <2> DEFINE P == 2^i
             h == 2^(n - (i + 1)) * q
             d == k \div P
             r == k % P
  <2>2. P \in Nat \ {0} /\ 2^(n - (i + 1)) \in Nat
    BY <2>1, PowerPositive
  <2>3. 2^n = (2 * P) * 2^(n - (i + 1))
    BY <2>1, PowerSum, PowerStep
  <2>4. d \in Int /\ r \in 0..(P - 1) /\ k = P * d + r
    BY <1>1, <2>2, Division
  <2>5. h \in Int
    BY <2>2
  <2>6. 2^n * q = (2 * P) * h
    BY <2>2, <2>3
  <2> HIDE DEF P, h, d, r
  <2>7. PICK e \in Int : e = d + 2 * h
    BY <2>4, <2>5
  <2>8. x = P * e + r
    <3>1. P * e = P * d + (2 * P) * h
      BY <2>2, <2>4, <2>5, <2>7
    <3>2. P * d \in Int /\ (2 * P) * h \in Int
      BY <2>2, <2>4, <2>5
    <3>3. QED
      BY <2>4, <2>6, <3>1, <3>2
  <2>9. x \div P = e
    BY <2>2, <2>4, <2>8, DivisionUnique
  <2>10. e % 2 = d % 2
    BY <2>4, <2>5, <2>7
  <2>11. QED
    BY <2>9, <2>10 DEF Bit, P, d
<1>3. ASSUME NEW j \in Nat PROVE Bit(x, n + j) = Bit(q, j)
  <2>1. x \div 2^n = q
    BY <1>1, DivisionUnique
  <2>2. 2^(n + j) = 2^n * 2^j /\ 2^j \in Nat \ {0}
    BY PowerSum, PowerPositive
  <2>3. (x \div 2^n) \div 2^j = x \div (2^n * 2^j)
    BY <1>1, <2>2, DivDiv
  <2>4. QED
    BY <2>1, <2>2, <2>3 DEF Bit
<1>4. QED
  BY <1>2, <1>3

\* The bits of a value do not depend on the cast that made it.
LEMMA BitsAre ==
  ASSUME NEW t \in AnyType, NEW x \in Int
  PROVE  Bits(t, x) = {i \in 0..(t.w - 1) : Bit(x, i)}
<1> DEFINE M == 2^t.w
<1>1. M \in Nat \ {0} /\ t.w \in Nat
  BY TypeSize
<1>2. x \div M \in Int /\ x % M \in 0..(M - 1) /\ x = M * (x \div M) + (x % M)
  BY <1>1, Division
<1>3. \A i \in 0..(t.w - 1) : Bit(x, i) = Bit(x % M, i)
  BY <1>1, <1>2, BitsSplit, Zenon
<1>4. QED
  BY <1>3 DEF Bits, Bit

\* A number below 2^(n + 1) and its highest bit.
LEMMA TopBit ==
  ASSUME NEW n \in Nat, NEW q \in {0, 1}, NEW k \in 0..(2^n - 1)
  PROVE  /\ 2^n * q + k \in 0..(2^(n + 1) - 1)
         /\ Bit(2^n * q + k, n) <=> q = 1
         /\ \A i \in 0..(n - 1) : Bit(2^n * q + k, i) <=> Bit(k, i)
<1>1. 2^n \in Nat \ {0} /\ 2^(n + 1) = 2 * 2^n /\ q \in Int
  BY PowerPositive, PowerStep
<1>2. PICK x \in Int : x = 2^n * q + k
  BY <1>1
<1>3. x \in 0..(2^(n + 1) - 1)
  BY <1>1, <1>2
<1>4. /\ \A i \in 0..(n - 1) : Bit(x, i) = Bit(k, i)
      /\ \A j \in Nat : Bit(x, n + j) = Bit(q, j)
  BY <1>1, <1>2, BitsSplit, Zenon
<1>5. PICK z \in Nat : z = 0
  OBVIOUS
<1>6. Bit(x, n + z) = Bit(q, z)
  BY <1>4
<1>7. n + z = n /\ 2^z = 1
  BY <1>5, PowerPositive
<1>8. Bit(q, z) <=> q = 1
  BY <1>7 DEF Bit
<1>9. QED
  BY <1>2, <1>3, <1>4, <1>6, <1>7, <1>8

\* Every set of bits is the one of a number.
LEMMA BitsExist ==
  ASSUME NEW n \in Nat, NEW B \in SUBSET (0..(n - 1))
  PROVE  \E m \in 0..(2^n - 1) : B = {i \in 0..(n - 1) : Bit(m, i)}
<1> DEFINE Holds(j) == \A C \in SUBSET (0..(j - 1)) :
                         \E m \in 0..(2^j - 1) : C = {i \in 0..(j - 1) : Bit(m, i)}
           S == {j \in Nat : Holds(j)}
<1>1. 0 \in S
  <2>1. 0..(0 - 1) = {} /\ 2^0 = 1
    OBVIOUS
  <2>2. 0 \in 0..(2^0 - 1)
    BY <2>1
  <2>3. QED
    BY <2>1, <2>2
<1>2. ASSUME NEW j \in Nat, j \in S PROVE j + 1 \in S
  <2> SUFFICES ASSUME NEW C \in SUBSET (0..((j + 1) - 1))
               PROVE  \E m \in 0..(2^(j + 1) - 1) : C = {i \in 0..((j + 1) - 1) : Bit(m, i)}
    OBVIOUS
  <2>1. PICK k \in 0..(2^j - 1) : C \ {j} = {i \in 0..(j - 1) : Bit(k, i)}
    <3>1. C \ {j} \in SUBSET (0..(j - 1))
      OBVIOUS
    <3>2. Holds(j)
      BY <1>2
    <3> HIDE DEF Holds
    <3>3. QED
      BY <3>1, <3>2 DEF Holds
  <2>2. PICK q \in {0, 1} : q = 1 <=> j \in C
    OBVIOUS
  <2>3. PICK m \in 0..(2^(j + 1) - 1) :
          /\ Bit(m, j) <=> q = 1
          /\ \A i \in 0..(j - 1) : Bit(m, i) <=> Bit(k, i)
    BY TopBit
  <2>4. ASSUME NEW i \in 0..j PROVE i \in C <=> Bit(m, i)
    <3>1. CASE i = j
      BY <2>2, <2>3, <3>1
    <3>2. CASE i # j
      <4>1. i \in 0..(j - 1)
        BY <3>2
      <4>2. QED
        BY <2>1, <2>3, <3>2, <4>1
    <3>3. QED
      BY <3>1, <3>2
  <2>5. (j + 1) - 1 = j
    OBVIOUS
  <2>6. C = {i \in 0..((j + 1) - 1) : Bit(m, i)}
    BY <2>4, <2>5
  <2>7. QED
    BY <2>6
<1>3. Nat \subseteq S
  <2> HIDE DEF S
  <2>1. QED
    BY <1>1, <1>2, SetInduction
<1>4. Holds(n)
  BY <1>3
<1>5. QED
  BY <1>4

\* Two numbers with the same bits are equal.
LEMMA BitsUnique ==
  ASSUME NEW n \in Nat, NEW x \in 0..(2^n - 1), NEW y \in 0..(2^n - 1),
         \A i \in 0..(n - 1) : Bit(x, i) <=> Bit(y, i)
  PROVE  x = y
<1> DEFINE Holds(j) == \A u, v \in 0..(2^j - 1) :
                         (\A i \in 0..(j - 1) : Bit(u, i) <=> Bit(v, i)) => u = v
           S == {j \in Nat : Holds(j)}
<1>1. 0 \in S
  <2>1. 2^0 = 1
    OBVIOUS
  <2>2. QED
    BY <2>1
<1>2. ASSUME NEW j \in Nat, j \in S PROVE j + 1 \in S
  <2> SUFFICES ASSUME NEW u \in 0..(2^(j + 1) - 1), NEW v \in 0..(2^(j + 1) - 1),
                      \A i \in 0..((j + 1) - 1) : Bit(u, i) <=> Bit(v, i)
               PROVE  u = v
    OBVIOUS
  <2>1. 2^j \in Nat \ {0} /\ 2^(j + 1) = 2 * 2^j
    BY PowerPositive, PowerStep
  <2>2. \A z \in 0..(2^(j + 1) - 1) : \E q \in {0, 1}, k \in 0..(2^j - 1) : z = 2^j * q + k
    <3> SUFFICES ASSUME NEW z \in 0..(2^(j + 1) - 1)
                 PROVE  \E q \in {0, 1}, k \in 0..(2^j - 1) : z = 2^j * q + k
      OBVIOUS
    <3>1. CASE z < 2^j
      <4>1. z \in 0..(2^j - 1) /\ z = 2^j * 0 + z
        BY <2>1, <3>1
      <4>2. QED
        BY <4>1
    <3>2. CASE ~(z < 2^j)
      <4>1. z - 2^j \in 0..(2^j - 1) /\ z = 2^j * 1 + (z - 2^j)
        BY <2>1, <3>2
      <4>2. QED
        BY <4>1
    <3>3. QED
      BY <3>1, <3>2
  <2>3. PICK p \in {0, 1}, k \in 0..(2^j - 1) : u = 2^j * p + k
    BY <2>2
  <2>4. PICK q \in {0, 1}, l \in 0..(2^j - 1) : v = 2^j * q + l
    BY <2>2
  <2>5. Bit(u, j) <=> Bit(v, j)
    OBVIOUS
  <2>6. p = q
    <3>1. (Bit(u, j) <=> p = 1) /\ (Bit(v, j) <=> q = 1)
      BY <2>3, <2>4, TopBit, Zenon
    <3>2. QED
      BY <2>5, <3>1
  <2>7. \A i \in 0..(j - 1) : Bit(k, i) <=> Bit(l, i)
    <3> SUFFICES ASSUME NEW i \in 0..(j - 1) PROVE Bit(k, i) <=> Bit(l, i)
      OBVIOUS
    <3>1. i \in 0..((j + 1) - 1)
      OBVIOUS
    <3>2. Bit(u, i) <=> Bit(v, i)
      BY <3>1
    <3>3. (Bit(u, i) <=> Bit(k, i)) /\ (Bit(v, i) <=> Bit(l, i))
      BY <2>3, <2>4, TopBit
    <3>4. QED
      BY <3>2, <3>3
  <2>8. k = l
    <3>1. Holds(j)
      BY <1>2
    <3> HIDE DEF Holds
    <3>2. QED
      BY <2>7, <3>1 DEF Holds
  <2>9. QED
    BY <2>3, <2>4, <2>6, <2>8
<1>3. Nat \subseteq S
  <2> HIDE DEF S
  <2>1. QED
    BY <1>1, <1>2, SetInduction
<1>4. Holds(n)
  BY <1>3
<1>5. QED
  BY <1>4

\* OfBits is the inverse of Bits.
LEMMA OfBitsIs ==
  ASSUME NEW t \in AnyType, NEW B \in SUBSET (0..(t.w - 1))
  PROVE  OfBits(t, B) \in Values(t) /\ Bits(t, OfBits(t, B)) = B
<1>1. t.w \in Nat /\ 2^t.w \in Nat \ {0}
  BY TypeSize
<1>2. PICK m \in 0..(2^t.w - 1) : B = {i \in 0..(t.w - 1) : Bit(m, i)}
  BY <1>1, BitsExist
<1>3. m \in Int
  BY <1>1
<1>4. PICK x \in Values(t), k \in Int : m = 2^t.w * k + x
  BY <1>3, CastValue
<1>5. x \in Int
  BY ValuesOf
<1>6. x % 2^t.w = m
  <2>1. PICK j \in Int : j = -k
    OBVIOUS
  <2>2. x = 2^t.w * j + m
    <3>1. 2^t.w * (-k) = -(2^t.w * k) /\ 2^t.w * k \in Int
      BY <1>1
    <3>2. QED
      BY <1>3, <1>4, <1>5, <2>1, <3>1
  <2>3. QED
    BY <1>1, <1>2, <1>5, <2>2, DivisionUnique
<1>7. Bits(t, x) = B
  BY <1>2, <1>6 DEF Bits, Bit
<1>8. QED
  BY <1>7 DEF OfBits

LEMMA SameBits ==
  ASSUME NEW t \in AnyType, NEW x \in Values(t), NEW y \in Values(t), Bits(t, x) = Bits(t, y)
  PROVE  x = y
<1> DEFINE M == 2^t.w
           m == x % M
           n == y % M
<1>1. t.w \in Nat /\ M \in Nat \ {0} /\ x \in Int /\ y \in Int
  BY TypeSize, ValuesOf
<1>2. /\ x \div M \in Int /\ m \in 0..(M - 1) /\ x = M * (x \div M) + m
      /\ y \div M \in Int /\ n \in 0..(M - 1) /\ y = M * (y \div M) + n
  BY <1>1, Division
<1>3. \A i \in 0..(t.w - 1) : Bit(m, i) <=> Bit(n, i)
  BY DEF Bits, Bit
<1>4. m = n
  <2> HIDE DEF m, n
  <2>1. QED
    BY <1>1, <1>2, <1>3, BitsUnique
<1>5. PICK k \in Int : k = (y \div M) - (x \div M)
  BY <1>2
<1>6. y = M * k + x
  <2> DEFINE d == x \div M
             e == y \div M
  <2>1. d \in Int /\ e \in Int /\ x = M * d + m /\ y = M * e + m /\ m \in Int /\ k = e - d
    BY <1>1, <1>2, <1>4, <1>5
  <2> HIDE DEF d, e, m, M
  <2>2. M * (e - d) = M * e - M * d /\ M * e \in Int /\ M * d \in Int
    BY <1>1, <2>1
  <2>3. QED
    BY <2>1, <2>2
<1>7. Cast(t, y) = x
  BY <1>1, <1>6, CastIs
<1>8. QED
  BY <1>7, CastSame

LEMMA Bitselect ==
  ASSUME NEW t \in AnyType, NEW a \in Values(t), NEW b \in Values(t), NEW c \in Values(t),
         NEW i \in 0..(t.w - 1)
  PROVE  i \in Bits(t, bitselect(t, a, b, c)) <=> i \in Bits(t, IF i \in Bits(t, c) THEN b ELSE a)
<1> DEFINE B == (Bits(t, a) \ Bits(t, c)) \cup (Bits(t, c) \cap Bits(t, b))
<1>1. B \in SUBSET (0..(t.w - 1))
  BY DEF Bits
<1>2. Bits(t, bitselect(t, a, b, c)) = B
  <2> HIDE DEF B
  <2>1. QED
    BY <1>1, OfBitsIs DEF bitselect, B
<1>3. QED
  BY <1>2

\* The two shift counts of rotate, reduced to the width.
LEMMA ShiftCounts ==
  ASSUME NEW w \in Nat \ {0}, NEW b \in Int
  PROVE  /\ b % w \in 0..(w - 1)
         /\ (-b) % w = (IF b % w = 0 THEN 0 ELSE w - (b % w))
         /\ \A i \in 0..(w - 1) : (i - b) % w = (IF i >= (b % w) THEN i - (b % w) ELSE (i + w) - (b % w))
<1> DEFINE c == b % w
           q == b \div w
<1>1. q \in Int /\ c \in 0..(w - 1) /\ b = w * q + c
  BY Division
<1> HIDE DEF c, q
<1>2. \A r \in 0..(w - 1), m \in {-q, -q - 1} : \A y \in Int : y = w * m + r => y % w = r
  <2> SUFFICES ASSUME NEW r \in 0..(w - 1), NEW m \in {-q, -q - 1}, NEW y \in Int, y = w * m + r
               PROVE  y % w = r
    OBVIOUS
  <2>1. m \in Int
    BY <1>1
  <2>2. QED
    BY <2>1, DivisionUnique
<1>3. w * (-q) = -(w * q) /\ w * (-q - 1) = -(w * q) - w /\ w * q \in Int
  BY <1>1
<1>4. (-b) % w = IF c = 0 THEN 0 ELSE w - c
  <2>1. PICK y \in Int : y = -b
    OBVIOUS
  <2>2. CASE c = 0
    <3>1. 0 \in 0..(w - 1) /\ y = w * (-q) + 0
      BY <1>1, <1>3, <2>1, <2>2
    <3>2. y % w = 0
      BY <1>2, <3>1
    <3>3. QED
      BY <2>1, <2>2, <3>2
  <2>3. CASE c # 0
    <3>1. w - c \in 0..(w - 1) /\ y = w * (-q - 1) + (w - c)
      BY <1>1, <1>3, <2>1, <2>3
    <3>2. y % w = w - c
      BY <1>2, <3>1
    <3>3. QED
      BY <2>1, <2>3, <3>2
  <2>4. QED
    BY <2>2, <2>3
<1>5. ASSUME NEW i \in 0..(w - 1)
      PROVE  (i - b) % w = IF i >= c THEN i - c ELSE (i + w) - c
  <2>1. PICK y \in Int : y = i - b
    OBVIOUS
  <2>2. CASE i >= c
    <3>1. i - c \in 0..(w - 1) /\ y = w * (-q) + (i - c)
      BY <1>1, <1>3, <2>1, <2>2
    <3>2. y % w = i - c
      BY <1>2, <3>1
    <3>3. QED
      BY <2>1, <2>2, <3>2
  <2>3. CASE ~(i >= c)
    <3>1. (i + w) - c \in 0..(w - 1) /\ y = w * (-q - 1) + ((i + w) - c)
      BY <1>1, <1>3, <2>1, <2>3
    <3>2. y % w = (i + w) - c
      BY <1>2, <3>1
    <3>3. QED
      BY <2>1, <2>3, <3>2
  <2>4. QED
    BY <2>2, <2>3
<1>6. QED
  BY <1>1, <1>4, <1>5 DEF c

LEMMA Rotate ==
  ASSUME NEW t \in AnyType, NEW a \in Values(t), NEW b \in Values(t), NEW i \in 0..(t.w - 1)
  PROVE  i \in Bits(t, rotate(t, a, b)) <=> (i - b) % t.w \in Bits(t, a)
<1> DEFINE A == Bits(t, a)
           c == b % t.w
           d == (-b) % t.w
           left == {j + c : j \in A} \cap 0..(t.w - 1)
           right == {j - d : j \in A} \cap 0..(t.w - 1)
<1>1. t.w \in Nat \ {0} /\ b \in Int
  BY TypeSize, ValuesOf
<1>2. left \cup right \in SUBSET (0..(t.w - 1))
  OBVIOUS
<1>3. Bits(t, rotate(t, a, b)) = left \cup right
  <2>1. rotate(t, a, b) = OfBits(t, left \cup right)
    BY DEF rotate
  <2> HIDE DEF left, right
  <2>2. QED
    BY <1>2, <2>1, OfBitsIs
<1>4. A \subseteq 0..(t.w - 1)
  BY DEF Bits
<1>5. /\ c \in 0..(t.w - 1)
      /\ d = IF c = 0 THEN 0 ELSE t.w - c
      /\ (i - b) % t.w = IF i >= c THEN i - c ELSE (i + t.w) - c
  BY <1>1, ShiftCounts
<1>6. SUFFICES i \in left \cup right <=> (i - b) % t.w \in A
  BY <1>3
<1> DEFINE e == (i - b) % t.w
<1>7. e = IF i >= c THEN i - c ELSE (i + t.w) - c
  BY <1>5
<1> HIDE DEF A, c, d, e
<1>8. ASSUME i \in left PROVE e \in A
  <2>1. PICK j \in A : i = j + c
    BY <1>8
  <2>2. e = j
    BY <1>1, <1>4, <1>5, <1>7, <2>1
  <2>3. QED
    BY <2>1, <2>2
<1>9. ASSUME i \in right PROVE e \in A
  <2>1. PICK j \in A : i = j - d
    BY <1>9
  <2>2. j \in 0..(t.w - 1)
    BY <1>4, <2>1
  <2>3. e = j
    BY <1>1, <1>5, <1>7, <2>1, <2>2
  <2>4. QED
    BY <2>1, <2>3
<1>10. ASSUME e \in A PROVE i \in left \cup right
  <2>1. CASE i >= c
    <3>1. i = e + c
      BY <1>1, <1>5, <1>7, <2>1
    <3>2. QED
      BY <1>10, <3>1
  <2>2. CASE ~(i >= c)
    <3>1. i = e - d
      BY <1>1, <1>5, <1>7, <2>2
    <3>2. QED
      BY <1>10, <3>1
  <2>3. QED
    BY <2>1, <2>2
<1>11. QED
  BY <1>8, <1>9, <1>10 DEF e

\* The bits of -1 - x are the ones x does not have.
LEMMA Complement ==
  ASSUME NEW x \in Int, NEW i \in Nat
  PROVE  Bit(-1 - x, i) <=> ~Bit(x, i)
<1> DEFINE P == 2^i
           q == x \div P
           r == x % P
<1>1. P \in Nat \ {0}
  BY PowerPositive
<1>2. q \in Int /\ r \in 0..(P - 1) /\ x = P * q + r
  BY <1>1, Division
<1> HIDE DEF P, q, r
<1>3. PICK y \in Int : y = -1 - x
  OBVIOUS
<1>4. PICK k \in Int : k = -q - 1
  BY <1>2
<1>5. PICK s \in 0..(P - 1) : s = P - 1 - r
  BY <1>1, <1>2
<1>6. y = P * k + s
  <2>1. P * k = -(P * q) - P /\ P * q \in Int
    BY <1>1, <1>2, <1>4
  <2>2. QED
    BY <1>1, <1>2, <1>3, <1>5, <2>1
<1>7. y \div P = k
  BY <1>1, <1>6, DivisionUnique
<1>8. k % 2 = 1 <=> ~(q % 2 = 1)
  BY <1>2, <1>4
<1>9. QED
  BY <1>3, <1>7, <1>8 DEF Bit, P, q

LEMMA Popcount ==
  ASSUME NEW t \in AnyType, NEW a \in Values(t)
  PROVE  popcount(t, a) + Cardinality(Bits(t, -1 - a)) = t.w
<1> DEFINE I == 0..(t.w - 1)
           A == Bits(t, a)
<1>1. t.w \in Nat \ {0} /\ a \in Int /\ -1 - a \in Int
  BY TypeSize, ValuesOf
<1>2. A = {i \in I : Bit(a, i)}
  BY <1>1, BitsAre
<1>3. Bits(t, -1 - a) = {i \in I : Bit(-1 - a, i)}
  BY <1>1, BitsAre
<1>4. Bits(t, -1 - a) = I \ A
  <2>1. \A i \in I : Bit(-1 - a, i) <=> ~Bit(a, i)
    BY <1>1, Complement
  <2>2. QED
    BY <1>2, <1>3, <2>1
<1>5. IsFiniteSet(I) /\ Cardinality(I) = t.w
  <2>1. PICK m \in Int, n \in Int : m = 0 /\ n = t.w - 1
    BY <1>1
  <2>2. IsFiniteSet(m..n) /\ Cardinality(m..n) = (IF m > n THEN 0 ELSE n - m + 1)
    BY FS_Interval
  <2>3. QED
    BY <1>1, <2>1, <2>2
<1>6. A \subseteq I
  BY <1>2
<1> HIDE DEF I, A
<1>7. IsFiniteSet(A) /\ Cardinality(A) \in Nat
  BY <1>5, <1>6, FS_Subset, FS_CardinalityType
<1>8. Cardinality(I \ A) = Cardinality(I) - Cardinality(I \cap A)
  BY <1>5, FS_Difference
<1>9. I \cap A = A
  BY <1>6
<1>10. QED
  BY <1>1, <1>4, <1>5, <1>7, <1>8, <1>9 DEF popcount, A

\* A number below 2^n has no bit from n on.
LEMMA NoHighBit ==
  ASSUME NEW n \in Nat, NEW x \in 0..(2^n - 1), NEW i \in Nat, i >= n
  PROVE  ~Bit(x, i)
<1>1. 2^n \in Nat \ {0} /\ 2^i \in Nat \ {0}
  BY PowerPositive
<1>2. 2^n <= 2^i
  <2>1. n < i => 2 * 2^n <= 2^i
    BY PowerLess
  <2>2. QED
    BY <1>1, <2>1
<1>3. PICK z \in Int : z = 0
  OBVIOUS
<1>4. PICK P \in Nat \ {0} : P = 2^i
  BY <1>1
<1>5. x \in 0..(P - 1) /\ x \in Int /\ x = P * z + x
  BY <1>1, <1>2, <1>3, <1>4
<1>6. x \div P = z
  BY <1>5, DivisionUnique
<1>7. QED
  BY <1>3, <1>4, <1>6 DEF Bit

LEMMA Upsample ==
  ASSUME NEW t \in AnyType, NEW a \in Values(t), NEW b \in Values(Unsigned(t))
  PROVE  upsample(t, a, b) = a * 2^t.w + b
<1> DEFINE w == t.w
           M == 2^w
           N == 2^(w - 1)
           long == [t EXCEPT !.w = 2 * @]
           y == a * M + b
           high == {i + w : i \in Bits(long, a)} \cap 0..(long.w - 1)
<1>1. /\ w \in Nat \ {0} /\ M \in Nat \ {0} /\ N \in Nat \ {0} /\ M = 2 * N
      /\ a \in Int
      /\ t.signed => -N <= a /\ a <= N - 1
      /\ ~t.signed => 0 <= a /\ a <= M - 1
  BY TypeSize, ValuesOf
<1>2. b \in 0..(M - 1) /\ b \in Int
  <2>1. Unsigned(t) \in AnyType /\ Unsigned(t).w = w /\ ~Unsigned(t).signed
    BY UnsignedType
  <2>2. QED
    BY <1>1, <2>1, ValuesOf
<1>3. long \in AnyType /\ long.w = 2 * w /\ long.signed = t.signed
  BY <1>1 DEF AnyType
<1>4. 2^(2 * w) = M * M /\ 2^(2 * w - 1) = M * N
  <2>1. w - 1 \in Nat /\ w + w = 2 * w /\ w + (w - 1) = 2 * w - 1
    BY <1>1
  <2>2. QED
    BY <1>1, <2>1, PowerSum
<1>5. upsample(t, a, b) = OfBits(long, high \cup Bits(long, b))
  BY DEF upsample
<1>6. y \in Int /\ y = M * a + b
  BY <1>1, <1>2
<1>7. y \in Values(long)
  <2>1. /\ t.signed => (y \in Values(long) <=> -(M * N) <= y /\ y <= M * N - 1)
        /\ ~t.signed => (y \in Values(long) <=> 0 <= y /\ y <= M * M - 1)
    BY <1>3, <1>4, <1>6, ValuesOf
  <2> HIDE DEF M, N, long
  <2>2. CASE t.signed
    <3>1. M * (-N) <= M * a /\ M * a <= M * (N - 1)
      BY <1>1, <2>2
    <3>2. M * (-N) = -(M * N) /\ M * (N - 1) = M * N - M /\ M * N \in Int /\ M * a \in Int
      BY <1>1
    <3>3. QED
      BY <1>1, <1>2, <1>6, <2>1, <2>2, <3>1, <3>2
  <2>3. CASE ~t.signed
    <3>1. 0 <= M * a /\ M * a <= M * (M - 1)
      BY <1>1, <2>3
    <3>2. M * (M - 1) = M * M - M /\ M * M \in Int /\ M * a \in Int
      BY <1>1
    <3>3. QED
      BY <1>1, <1>2, <1>6, <2>1, <2>3, <3>1, <3>2
  <2>4. QED
    BY <2>2, <2>3
<1>8. /\ Bits(long, y) = {i \in 0..(2 * w - 1) : Bit(y, i)}
      /\ Bits(long, a) = {i \in 0..(2 * w - 1) : Bit(a, i)}
      /\ Bits(long, b) = {i \in 0..(2 * w - 1) : Bit(b, i)}
  BY <1>1, <1>2, <1>3, <1>6, BitsAre
<1>9. w \in Nat
  BY <1>1
<1>10. /\ \A i \in 0..(w - 1) : Bit(y, i) = Bit(b, i)
       /\ \A j \in Nat : Bit(y, w + j) = Bit(a, j)
  <2>1. a \in Int /\ b \in 0..(2^w - 1) /\ y \in Int /\ y = 2^w * a + b
    BY <1>1, <1>2, <1>6
  <2> HIDE DEF y, w
  <2>2. QED
    BY <1>9, <2>1, BitsSplit, Zenon
<1>11. \A i \in Nat : i >= w => ~Bit(b, i)
  BY <1>2, <1>9, NoHighBit
<1> HIDE DEF y, w, M, N, long
<1>12. high = {i \in 0..(2 * w - 1) : i >= w /\ Bit(y, i)}
  <2>1. ASSUME NEW i \in high PROVE i \in 0..(2 * w - 1) /\ i >= w /\ Bit(y, i)
    <3>1. PICK j \in 0..(2 * w - 1) : i = j + w /\ Bit(a, j)
      BY <1>8, <2>1
    <3>2. j \in Nat /\ i = w + j
      BY <1>1, <3>1
    <3>3. Bit(y, w + j) = Bit(a, j)
      BY <1>10, <3>2
    <3>4. i \in 0..(2 * w - 1)
      BY <1>3, <2>1
    <3>5. i >= w
      BY <1>1, <3>2
    <3>6. Bit(y, i)
      BY <3>1, <3>2, <3>3
    <3>7. QED
      BY <3>4, <3>5, <3>6
  <2>2. ASSUME NEW i \in 0..(2 * w - 1), i >= w, Bit(y, i) PROVE i \in high
    <3>1. PICK j \in 0..(2 * w - 1) : i = w + j
      <4>1. i - w \in 0..(2 * w - 1) /\ i = w + (i - w)
        BY <1>1, <2>2
      <4>2. QED
        BY <4>1
    <3>2. j \in Nat
      BY <1>1
    <3>3. Bit(a, j)
      BY <1>10, <2>2, <3>1, <3>2
    <3>4. i = j + w /\ i \in 0..(long.w - 1)
      BY <1>1, <1>3, <3>1
    <3>5. QED
      BY <1>8, <3>3, <3>4
  <2> HIDE DEF high
  <2>3. QED
    BY <2>1, <2>2
<1>13. high \cup Bits(long, b) = Bits(long, y)
  <2> SUFFICES ASSUME NEW i \in 0..(2 * w - 1)
               PROVE  (i >= w /\ Bit(y, i)) \/ Bit(b, i) <=> Bit(y, i)
    BY <1>8, <1>12
  <2>1. CASE i >= w
    <3>1. ~Bit(b, i)
      BY <1>1, <1>11, <2>1
    <3>2. QED
      BY <2>1, <3>1
  <2>2. CASE ~(i >= w)
    <3>1. i \in 0..(w - 1)
      BY <1>1, <2>2
    <3>2. Bit(y, i) = Bit(b, i)
      BY <1>10, <3>1
    <3>3. QED
      BY <2>2, <3>2
  <2>3. QED
    BY <2>1, <2>2
<1>14. Bits(long, y) \in SUBSET (0..(long.w - 1))
  BY DEF Bits
<1>15. upsample(t, a, b) \in Values(long) /\ Bits(long, upsample(t, a, b)) = Bits(long, y)
  <2> HIDE DEF high
  <2>1. QED
    BY <1>3, <1>5, <1>13, <1>14, OfBitsIs
<1>16. upsample(t, a, b) = y
  BY <1>3, <1>7, <1>15, SameBits
<1>17. QED
  BY <1>16 DEF y, M, w

\* The highest bit of a number.
LEMMA HighestBit ==
  ASSUME NEW w \in Nat, NEW n \in 1..(2^w - 1)
  PROVE  \E i \in 0..(w - 1) :
           /\ 2^i <= n /\ n < 2 * 2^i /\ Bit(n, i)
           /\ \A j \in Nat : j > i => ~Bit(n, j)
<1> DEFINE T == {k \in Nat : n < 2^k}
<1>1. 2^w \in Nat \ {0} /\ n \in Nat \ {0}
  BY PowerPositive
<1>2. w \in T
  BY <1>1
<1>3. PICK k \in T : \A y \in T : k <= y
  BY <1>2, LeastElement, T \subseteq Nat, Zenon
<1>4. k # 0
  <2> SUFFICES ASSUME k = 0 PROVE FALSE
    OBVIOUS
  <2>1. n < 2^0
    BY <1>3
  <2>2. 2^0 = 1
    OBVIOUS
  <2>3. QED
    BY <1>1, <2>1, <2>2
<1>5. PICK i \in Nat : k = i + 1
  <2>1. k - 1 \in Nat /\ k = (k - 1) + 1
    BY <1>3, <1>4
  <2>2. QED
    BY <2>1
<1>6. 2^k = 2 * 2^i /\ 2^i \in Nat \ {0}
  BY <1>5, PowerStep, PowerPositive
<1>7. i \notin T
  BY <1>3, <1>5
<1>8. 2^i <= n /\ n < 2 * 2^i
  BY <1>1, <1>3, <1>6, <1>7
<1>9. i \in 0..(w - 1)
  BY <1>2, <1>3, <1>5
<1>10. Bit(n, i)
  <2>1. PICK o \in Int : o = 1
    OBVIOUS
  <2>2. PICK r \in 0..(2^i - 1) : r = n - 2^i
    BY <1>1, <1>6, <1>8
  <2>3. n \in Int /\ n = 2^i * o + r
    BY <1>1, <1>6, <2>1, <2>2
  <2>4. n \div 2^i = o
    BY <1>6, <2>3, DivisionUnique, Zenon
  <2>5. QED
    BY <2>1, <2>4 DEF Bit
<1>11. \A j \in Nat : j > i => ~Bit(n, j)
  <2>1. n \in 0..(2^k - 1)
    BY <1>1, <1>6, <1>8
  <2>2. k \in Nat /\ \A j \in Nat : j > i => j >= k
    BY <1>5
  <2>3. QED
    BY <2>1, <2>2, NoHighBit
<1>12. QED
  BY <1>8, <1>9, <1>10, <1>11

LEMMA Clz ==
  ASSUME NEW t \in AnyType, NEW a \in Values(t)
  PROVE  LET n == Cast(Unsigned(t), a)
             r == clz(t, a)
         IN  n * 2^r < 2^t.w /\ (n > 0 => 2 * n * 2^r >= 2^t.w) /\ r <= t.w
<1> DEFINE w == t.w
           wide == [w |-> 2 * t.w, signed |-> FALSE]
           n == Cast(Unsigned(t), a)
           B == Bits(wide, n)
           top == {i \in B : \A j \in B : j <= i}
           highest == CHOOSE i \in top : TRUE
           r == clz(t, a)
<1>1. w \in Nat \ {0} /\ 2^w \in Nat \ {0} /\ a \in Int
  BY TypeSize, ValuesOf
<1>2. n \in 0..(2^w - 1)
  <2>1. Unsigned(t) \in AnyType /\ Unsigned(t).w = w /\ ~Unsigned(t).signed
    BY UnsignedType
  <2>2. n \in Values(Unsigned(t))
    BY <1>1, <2>1, CastValue
  <2>3. QED
    BY <1>1, <2>1, <2>2, ValuesOf
<1>3. wide \in AnyType /\ wide.w = 2 * w
  BY <1>1 DEF AnyType
<1>4. r = (IF n = 0 THEN wide.w ELSE wide.w - 1 - highest) - w
  BY DEF clz
<1>5. B = {i \in 0..(2 * w - 1) : Bit(n, i)}
  BY <1>1, <1>2, <1>3, BitsAre
<1> SUFFICES n * 2^r < 2^w /\ (n > 0 => 2 * n * 2^r >= 2^w) /\ r <= w
  OBVIOUS
<1> HIDE DEF n, w, wide, B, r
<1>6. CASE n = 0
  <2>1. r = w
    BY <1>1, <1>3, <1>4, <1>6
  <2>2. QED
    BY <1>1, <1>6, <2>1
<1>7. CASE n # 0
  <2>1. n \in 1..(2^w - 1) /\ w \in Nat
    BY <1>1, <1>2, <1>7
  <2>2. PICK i \in 0..(w - 1) :
          /\ 2^i <= n /\ n < 2 * 2^i /\ Bit(n, i)
          /\ \A j \in Nat : j > i => ~Bit(n, j)
    BY <2>1, HighestBit
  <2>3. i \in B /\ \A j \in B : j <= i
    BY <1>1, <1>5, <2>2
  <2>4. top = {i}
    <3>1. B \subseteq Int
      BY <1>1, <1>5
    <3>2. \A k \in B : i <= k /\ k <= i => k = i
      BY <2>3, <3>1
    <3>3. QED
      BY <2>3, <3>1, <3>2
  <2>5. highest = i
    BY <2>4
  <2>6. r = w - 1 - i
    <3> HIDE DEF highest
    <3>1. r = (wide.w - 1 - highest) - w
      BY <1>4, <1>7
    <3>2. QED
      BY <1>1, <1>3, <2>5, <3>1
  <2>7. r \in Nat /\ i \in Nat /\ i + 1 \in Nat /\ (i + 1) + r = w /\ r <= w
    BY <1>1, <2>6
  <2>8. 2^w = 2^(i + 1) * 2^r /\ 2^(i + 1) = 2 * 2^i
    BY <2>7, PowerSum, PowerStep
  <2> DEFINE p == 2^r
             q == 2^i
  <2>9. p \in Nat \ {0} /\ q \in Nat \ {0}
    BY <2>7, PowerPositive
  <2>10. 2^w = (2 * q) * p /\ q <= n /\ n < 2 * q
    BY <2>2, <2>8
  <2> HIDE DEF p, q
  <2>11. n * p < (2 * q) * p /\ (2 * n) * p >= (2 * q) * p
    BY <2>1, <2>9, <2>10
  <2>12. QED
    BY <2>7, <2>10, <2>11 DEF p
<1>8. QED
  BY <1>6, <1>7
-----------------------------------------------------------------------------
(* Floats.                                                                 *)

\* The distance of r from q, in quarters.
Distance(r, q) == IF r > q THEN r - q ELSE q - r

LEMMA FloatForm ==
  /\ Floats \subseteq Int
  /\ \A m \in Significands, e \in 0..Exponents :
       /\ m * 2^e \in Nat /\ m * 2^e \in Floats /\ -(m * 2^e) \in Floats
  /\ \A r \in Floats : \E m \in Significands, e \in 0..Exponents :
       r = m * 2^e \/ r = -(m * 2^e)
  /\ 0 \in Floats
  /\ \A r \in Floats : -r \in Floats
<1>1. Precision \in Nat /\ Exponents \in Nat /\ 2^Precision \in Nat \ {0}
  BY PrecisionAssumption, PowerPositive
<1>2. Significands \subseteq Nat /\ 0 \in Significands
  BY <1>1 DEF Significands
<1>3. ASSUME NEW m \in Significands, NEW e \in 0..Exponents
      PROVE  /\ m * 2^e \in Nat /\ m * 2^e \in Floats /\ -(m * 2^e) \in Floats
             /\ \A s \in {-1, 1} : s * m * 2^e \in {m * 2^e, -(m * 2^e)}
  <2>1. m \in Nat /\ 2^e \in Nat
    BY <1>1, <1>2, PowerPositive
  <2>2. PICK i \in {-1, 1}, j \in {-1, 1} : i = 1 /\ j = -1
    OBVIOUS
  <2>3. i * m * 2^e \in Floats /\ j * m * 2^e \in Floats
    BY DEF Floats
  <2>4. m * 2^e \in Nat /\ i * m * 2^e = m * 2^e /\ j * m * 2^e = -(m * 2^e)
    BY <2>1, <2>2
  <2>5. \A s \in {-1, 1} : s * m * 2^e \in {m * 2^e, -(m * 2^e)}
    BY <2>2, <2>4
  <2>6. QED
    BY <2>3, <2>4, <2>5
<1>4. \A r \in Floats : \E m \in Significands, e \in 0..Exponents :
         r = m * 2^e \/ r = -(m * 2^e)
  <2> SUFFICES ASSUME NEW r \in Floats
               PROVE  \E m \in Significands, e \in 0..Exponents : r = m * 2^e \/ r = -(m * 2^e)
    OBVIOUS
  <2>1. PICK s \in {-1, 1}, m \in Significands, e \in 0..Exponents : r = s * m * 2^e
    BY DEF Floats
  <2>2. r \in {m * 2^e, -(m * 2^e)}
    BY <1>3, <2>1
  <2>3. QED
    BY <2>2
<1>5. Floats \subseteq Int
  BY <1>3, <1>4
<1>6. 0 \in Floats
  <2>1. 0 \in 0..Exponents /\ 0 * 2^0 = 0
    BY <1>1
  <2>2. QED
    BY <1>2, <1>3, <2>1
<1>7. ASSUME NEW r \in Floats PROVE -r \in Floats
  <2>1. PICK m \in Significands, e \in 0..Exponents : r = m * 2^e \/ r = -(m * 2^e)
    BY <1>4
  <2>2. m * 2^e \in Nat /\ m * 2^e \in Floats /\ -(m * 2^e) \in Floats
    BY <1>3
  <2>3. QED
    BY <2>1, <2>2
<1>8. QED
  BY <1>3, <1>4, <1>5, <1>6, <1>7

\* The floats that are nearest to q.
LEMMA NearIs ==
  ASSUME NEW q \in Int
  PROVE  /\ Near(q) # {}
         /\ \A r : r \in Near(q) <=> r \in Floats /\ \A p \in Floats : Distance(r, q) <= Distance(p, q)
<1>1. \A r : r \in Near(q) <=> r \in Floats /\ \A p \in Floats : Distance(r, q) <= Distance(p, q)
  BY DEF Near, Distance
<1> DEFINE D == {Distance(p, q) : p \in Floats}
<1>2. D \subseteq Nat
  <2>1. ASSUME NEW p \in Floats PROVE Distance(p, q) \in Nat
    <3>1. p \in Int
      BY FloatForm
    <3>2. QED
      BY <3>1 DEF Distance
  <2>2. QED
    BY <2>1
<1>3. D # {}
  BY FloatForm
<1>4. PICK d \in D : \A e \in D : d <= e
  <2> HIDE DEF D
  <2>1. QED
    BY <1>2, <1>3, LeastElement
<1>5. PICK r \in Floats : d = Distance(r, q)
  BY <1>4
<1>6. r \in Near(q)
  BY <1>1, <1>4, <1>5
<1>7. QED
  BY <1>1, <1>6

\* A float is its own nearest float.
LEMMA ToFloatSame ==
  ASSUME NEW r \in Floats
  PROVE  ToFloat(r) = r
<1>1. r \in Int /\ Floats \subseteq Int
  BY FloatForm
<1>2. Distance(r, r) = 0 /\ \A p \in Floats : Distance(p, r) >= 0 /\ (Distance(p, r) <= 0 => p = r)
  BY <1>1 DEF Distance
<1>3. Near(r) = {r}
  BY <1>1, <1>2, NearIs
<1>4. Cardinality(Near(r)) = 1
  BY <1>3, FS_Singleton
<1>5. QED
  BY <1>3, <1>4 DEF ToFloat

LEMMA PowerAtLeastTwo == \A n \in Nat \ {0} : 2^n >= 2
<1> SUFFICES ASSUME NEW n \in Nat \ {0} PROVE 2^n >= 2
  OBVIOUS
<1>1. n - 1 \in Nat /\ (n - 1) + 1 = n
  OBVIOUS
<1>2. 2^n = 2 * 2^(n - 1) /\ 2^(n - 1) \in Nat /\ 2^(n - 1) > 0
  BY <1>1, PowerStep, PowerPositive
<1>3. QED
  BY <1>2

\* An odd number divides no power of two.
LEMMA OddPower ==
  ASSUME NEW m \in Nat, m % 2 = 1, NEW k \in Nat, NEW n \in Nat, m * 2^k = 2^n
  PROVE  m = 1
<1>1. 2^k \in Nat \ {0} /\ 2^n \in Nat \ {0} /\ m # 0
  BY PowerPositive
<1>2. CASE k >= n
  <2>1. 2^n <= 2^k
    <3>1. n < k => 2 * 2^n <= 2^k
      BY PowerLess
    <3>2. QED
      BY <1>1, <1>2, <3>1
  <2>2. m >= 2 => m * 2^k >= 2 * 2^k
    BY <1>1
  <2>3. QED
    BY <1>1, <2>1, <2>2
<1>3. CASE k < n
  <2>1. n - k \in Nat /\ n - (k + 1) \in Nat /\ k + (n - k) = n /\ (n - (k + 1)) + 1 = n - k
    BY <1>3
  <2>2. 2^n = 2^k * 2^(n - k)
    BY <2>1, PowerSum
  <2>3. 2^(n - k) = 2 * 2^(n - (k + 1)) /\ 2^(n - (k + 1)) \in Nat
    BY <2>1, PowerStep, PowerPositive
  <2> DEFINE P == 2^k
             h == 2^(n - (k + 1))
  <2>4. P \in Nat \ {0} /\ h \in Nat /\ m * P = P * (2 * h)
    BY <1>1, <2>2, <2>3
  <2> HIDE DEF P, h
  <2>5. m = 2 * h
    BY <2>4
  <2>6. QED
    BY <2>4, <2>5
<1>4. QED
  BY <1>2, <1>3

\* Two positive floats next to each other are not both odd.
LEMMA NextPositive ==
  ASSUME NEW m1 \in Significands, NEW e1 \in 0..Exponents, m1 % 2 = 1,
         m1 >= 2^(Precision - 1) \/ e1 = 0,
         NEW m2 \in Significands, NEW e2 \in 0..Exponents, m2 % 2 = 1,
         m2 >= 2^(Precision - 1) \/ e2 = 0,
         m1 * 2^e1 < m2 * 2^e2,
         \A p \in Floats : ~(m1 * 2^e1 < p /\ p < m2 * 2^e2)
  PROVE  FALSE
<1> DEFINE P == 2^Precision
           Q == 2^(Precision - 1)
           p1 == 2^e1
           p2 == 2^e2
<1>1. /\ Precision \in Nat /\ Precision - 1 \in Nat /\ Precision >= 2 /\ Exponents \in Nat
      /\ P \in Nat /\ Q \in Nat /\ P = 2 * Q /\ Q >= 2
  <2>1. Precision \in Nat /\ Precision - 1 \in Nat /\ Precision >= 2 /\ Exponents \in Nat
    BY PrecisionAssumption
  <2>2. P = 2 * Q
    BY <2>1, PowerStep, (Precision - 1) + 1 = Precision
  <2>3. Q >= 2
    BY <2>1, PowerAtLeastTwo
  <2>4. QED
    BY <2>1, <2>2, <2>3, PowerPositive
<1>2. /\ m1 \in Nat /\ m1 <= P - 1 /\ m2 \in Nat /\ m2 <= P - 1
      /\ e1 \in Nat /\ e2 \in Nat /\ p1 \in Nat \ {0} /\ p2 \in Nat \ {0}
  BY <1>1, PowerPositive DEF Significands
<1>3. m1 * p1 < m2 * p2 /\ (m1 >= Q \/ e1 = 0) /\ (m2 >= Q \/ e2 = 0)
  OBVIOUS
<1>4. m1 * p1 \in Nat /\ m2 * p2 \in Nat
  BY <1>2
<1>5. e1 <= e2
  <2> SUFFICES ASSUME e2 < e1 PROVE FALSE
    BY <1>2
  <2>1. 2 * p2 <= p1
    BY <1>2, PowerLess
  <2>2. m1 >= Q
    BY <1>2, <1>3
  <2> HIDE DEF P, Q, p1, p2
  <2>3. m2 * p2 <= P * p2 /\ P * p2 = Q * (2 * p2)
    BY <1>1, <1>2
  <2>4. Q * (2 * p2) <= Q * p1
    BY <1>1, <1>2, <2>1
  <2>5. Q * p1 <= m1 * p1
    BY <1>1, <1>2, <2>2
  <2>6. Q * p1 \in Int /\ Q * (2 * p2) \in Int
    BY <1>1, <1>2
  <2>7. QED
    BY <1>3, <1>4, <2>3, <2>4, <2>5, <2>6
<1>6. PICK d \in Nat : e2 = e1 + d
  <2>1. e2 - e1 \in Nat /\ e2 = e1 + (e2 - e1)
    BY <1>2, <1>5
  <2>2. QED
    BY <2>1
<1> DEFINE f == 2^d
           n == m2 * f
<1>7. p2 = p1 * f /\ f \in Nat \ {0}
  <2>1. 2^(e1 + d) = 2^e1 * 2^d
    BY <1>2, PowerSum
  <2>2. f \in Nat \ {0}
    BY PowerPositive
  <2>3. QED
    BY <1>6, <2>1, <2>2
<1>8. m2 * p2 = n * p1 /\ n \in Nat
  <2> HIDE DEF p1, p2, f
  <2>1. QED
    BY <1>2, <1>7
<1>9. m1 < n
  <2> HIDE DEF p1, p2, n
  <2>1. n <= m1 => n * p1 <= m1 * p1
    BY <1>2, <1>8
  <2>2. QED
    BY <1>2, <1>3, <1>4, <1>8, <2>1
<1>10. (m1 + 1) * p1 \in Floats
  <2>1. CASE m1 + 1 <= P - 1
    <3>1. m1 + 1 \in Significands
      BY <1>1, <1>2, <2>1 DEF Significands
    <3>2. QED
      BY <3>1, FloatForm
  <2>2. CASE m1 + 1 > P - 1 /\ e1 + 1 <= Exponents
    <3>1. m1 + 1 = 2 * Q
      BY <1>1, <1>2, <2>2
    <3>2. Q \in Significands /\ e1 + 1 \in 0..Exponents
      BY <1>1, <1>2, <2>2 DEF Significands
    <3>3. Q * 2^(e1 + 1) \in Floats
      BY <3>2, FloatForm
    <3>4. 2^(e1 + 1) = 2 * p1
      BY <1>2, PowerStep
    <3> HIDE DEF Q, p1
    <3>5. Q * (2 * p1) = (2 * Q) * p1
      BY <1>1, <1>2
    <3>6. QED
      BY <3>1, <3>3, <3>4, <3>5
  <2>3. CASE m1 + 1 > P - 1 /\ ~(e1 + 1 <= Exponents)
    <3>1. e1 = Exponents /\ e2 = Exponents
      BY <1>1, <1>2, <1>5, <2>3
    <3>2. p1 = p2 /\ m2 <= m1
      BY <1>1, <1>2, <2>3, <3>1
    <3> HIDE DEF p1, p2, P, Q
    <3>3. m2 * p1 <= m1 * p1
      BY <1>2, <3>2
    <3>4. QED
      BY <1>3, <1>4, <3>2, <3>3
  <2>4. QED
    BY <1>1, <1>2, <2>1, <2>2, <2>3
<1>11. n = m1 + 1
  <2>1. ~(m1 * p1 < (m1 + 1) * p1 /\ (m1 + 1) * p1 < m2 * p2)
    BY <1>10
  <2> HIDE DEF p1, p2, n, P, Q
  <2>2. m1 * p1 < (m1 + 1) * p1
    BY <1>2
  <2>3. m1 + 1 < n => (m1 + 1) * p1 < n * p1
    BY <1>2, <1>8
  <2>4. QED
    BY <1>2, <1>8, <1>9, <2>1, <2>2, <2>3
<1>12. d # 0
  <2> SUFFICES ASSUME d = 0 PROVE FALSE
    OBVIOUS
  <2>1. f = 1
    OBVIOUS
  <2>2. m2 = m1 + 1
    BY <1>2, <1>11, <2>1
  <2>3. QED
    BY <1>2, <2>2
<1>13. f >= 2 /\ m2 >= Q
  <2>1. e2 # 0
    BY <1>2, <1>6, <1>12
  <2>2. QED
    BY <1>3, <1>12, <2>1, PowerAtLeastTwo
<1>14. n = P
  <2> HIDE DEF f, P, Q
  <2>1. m2 * f >= Q * 2
    BY <1>1, <1>2, <1>7, <1>13
  <2> HIDE DEF n
  <2>2. n >= Q * 2
    BY <2>1 DEF n
  <2>3. QED
    BY <1>1, <1>2, <1>8, <1>11, <2>2
<1>15. m2 = 1
  BY <1>1, <1>2, <1>14, OddPower
<1>16. QED
  BY <1>1, <1>13, <1>15

LEMMA NotBothOdd ==
  ASSUME NEW r1 \in Floats, NEW r2 \in Floats, r1 < r2,
         \A p \in Floats : ~(r1 < p /\ p < r2),
         OddSignificand(r1), OddSignificand(r2)
  PROVE  FALSE
<1>1. r1 \in Int /\ r2 \in Int /\ Floats \subseteq Int
  BY FloatForm
<1>2. PICK m1 \in Significands, e1 \in 0..Exponents :
        /\ m1 % 2 = 1 /\ (r1 = m1 * 2^e1 \/ r1 = -(m1 * 2^e1))
        /\ m1 >= 2^(Precision - 1) \/ e1 = 0
  BY DEF OddSignificand
<1>3. PICK m2 \in Significands, e2 \in 0..Exponents :
        /\ m2 % 2 = 1 /\ (r2 = m2 * 2^e2 \/ r2 = -(m2 * 2^e2))
        /\ m2 >= 2^(Precision - 1) \/ e2 = 0
  BY DEF OddSignificand
<1>4. m1 * 2^e1 \in Nat \ {0} /\ m2 * 2^e2 \in Nat \ {0}
  <2>1. Significands \subseteq Nat /\ Exponents \in Nat
    BY PrecisionAssumption, PowerPositive DEF Significands
  <2>2. m1 \in Nat \ {0} /\ m2 \in Nat \ {0} /\ 2^e1 \in Nat \ {0} /\ 2^e2 \in Nat \ {0}
    BY <1>2, <1>3, <2>1, PowerPositive
  <2>3. QED
    BY <2>2
<1>5. CASE r1 = m1 * 2^e1 /\ r2 = m2 * 2^e2
  BY <1>2, <1>3, <1>5, NextPositive
<1>6. CASE r1 = -(m1 * 2^e1) /\ r2 = m2 * 2^e2
  <2>1. r1 < 0 /\ 0 < r2
    BY <1>4, <1>6
  <2>2. QED
    BY <2>1, FloatForm
<1>7. CASE r1 = m1 * 2^e1 /\ r2 = -(m2 * 2^e2)
  BY <1>4, <1>7
<1>8. CASE r1 = -(m1 * 2^e1) /\ r2 = -(m2 * 2^e2)
  <2>1. m2 * 2^e2 < m1 * 2^e1
    BY <1>4, <1>8
  <2>2. ASSUME NEW p \in Floats PROVE ~(m2 * 2^e2 < p /\ p < m1 * 2^e1)
    <3>1. -p \in Floats /\ p \in Int
      BY FloatForm
    <3>2. ~(r1 < -p /\ -p < r2)
      BY <3>1
    <3>3. QED
      BY <1>1, <1>4, <1>8, <3>1, <3>2
  <2>3. QED
    BY <1>2, <1>3, <2>1, <2>2, NextPositive
<1>9. QED
  BY <1>2, <1>3, <1>5, <1>6, <1>7, <1>8

\* The cast of an integer to float is defined: where two floats are nearest, one
\* of them is even.
LEMMA ToFloatNear ==
  ASSUME NEW q \in Int
  PROVE  ToFloat(q) \in Near(q)
<1>1. CASE Cardinality(Near(q)) = 1
  <2>1. ToFloat(q) = CHOOSE r \in Near(q) : TRUE
    BY <1>1 DEF ToFloat
  <2>2. QED
    BY <2>1, NearIs
<1>2. CASE Cardinality(Near(q)) # 1
  <2>1. PICK a \in Near(q), b \in Near(q) : a < b
    <3>1. PICK c \in Near(q) : TRUE
      BY NearIs
    <3>2. Near(q) # {c}
      BY <1>2, FS_Singleton
    <3>3. PICK d \in Near(q) : d # c
      BY <3>1, <3>2
    <3>4. c \in Int /\ d \in Int
      BY FloatForm, NearIs
    <3>5. c < d \/ d < c
      BY <3>3, <3>4
    <3>6. QED
      BY <3>1, <3>3, <3>5
  <2>2. /\ a \in Floats /\ b \in Floats /\ a \in Int /\ b \in Int
        /\ \A p \in Floats : Distance(a, q) <= Distance(p, q) /\ Distance(b, q) <= Distance(p, q)
    BY <2>1, FloatForm, NearIs
  <2>3. Distance(a, q) <= Distance(b, q) /\ Distance(b, q) <= Distance(a, q)
    BY <2>2
  <2>4. a < q /\ q < b /\ q - a = b - q
    BY <2>1, <2>2, <2>3 DEF Distance
  <2>5. ASSUME NEW p \in Floats PROVE ~(a < p /\ p < b)
    <3>1. p \in Int /\ Distance(a, q) <= Distance(p, q)
      BY <2>2, FloatForm
    <3>2. QED
      BY <2>2, <2>4, <3>1 DEF Distance
  <2>6. \E r \in Near(q) : ~OddSignificand(r)
    BY <2>1, <2>2, <2>5, NotBothOdd
  <2>7. ToFloat(q) = CHOOSE r \in Near(q) : ~OddSignificand(r)
    BY <1>2 DEF ToFloat
  <2>8. QED
    BY <2>6, <2>7
<1>3. QED
  BY <1>1, <1>2

\* The floats reach beyond the ends of the integer types, as float does for a
\* ulong: 2^w, in quarters, is a float.
FloatsReach == \A w \in Widths : w + 2 <= Exponents + Precision - 1

LEMMA PowerFloat ==
  ASSUME NEW k \in Nat, k <= Exponents + Precision - 1
  PROVE  2^k \in Floats /\ -(2^k) \in Floats
<1>1. Precision \in Nat /\ Precision >= 2 /\ Exponents \in Nat /\ Precision - 1 \in Nat
  BY PrecisionAssumption
<1>2. 2^Precision \in Nat /\ 2^(Precision - 1) \in Nat \ {0} /\ 2^Precision = 2 * 2^(Precision - 1)
  BY <1>1, PowerPositive, PowerStep, (Precision - 1) + 1 = Precision
<1>3. CASE k <= Precision - 1
  <2>1. 2^k \in Nat \ {0} /\ 2^k <= 2^(Precision - 1)
    <3>1. k < Precision - 1 => 2 * 2^k <= 2^(Precision - 1)
      BY <1>1, PowerLess
    <3>2. 2^k \in Nat \ {0}
      BY PowerPositive
    <3>3. k = Precision - 1 \/ k < Precision - 1
      BY <1>1, <1>3
    <3>4. QED
      BY <1>2, <3>1, <3>2, <3>3
  <2>2. 2^k \in Significands /\ 0 \in 0..Exponents
    BY <1>1, <1>2, <2>1 DEF Significands
  <2>3. 2^k * 2^0 \in Floats /\ -(2^k * 2^0) \in Floats
    BY <2>2, FloatForm
  <2>4. 2^k * 2^0 = 2^k
    BY <2>1
  <2>5. QED
    BY <2>3, <2>4
<1>4. CASE k > Precision - 1
  <2>1. PICK e \in 0..Exponents : k = (Precision - 1) + e
    <3>1. k - (Precision - 1) \in 0..Exponents /\ k = (Precision - 1) + (k - (Precision - 1))
      BY <1>1, <1>4
    <3>2. QED
      BY <3>1
  <2>2. 2^(Precision - 1) \in Significands
    BY <1>2 DEF Significands
  <2>3. 2^(Precision - 1) * 2^e \in Floats /\ -(2^(Precision - 1) * 2^e) \in Floats
    BY <2>2, FloatForm
  <2>4. 2^((Precision - 1) + e) = 2^(Precision - 1) * 2^e
    BY <1>1, PowerSum
  <2>5. QED
    BY <2>1, <2>3, <2>4
<1>5. QED
  BY <1>1, <1>3, <1>4

\* 2^n - 1 is a float where the significand has n bits...
LEMMA GreatestIsFloat ==
  ASSUME NEW n \in Nat \ {0}, n + 2 <= Exponents + Precision - 1, n <= Precision
  PROVE  4 * (2^n - 1) \in Floats
<1>1. Precision \in Nat /\ Precision >= 2 /\ Exponents \in Nat
  BY PrecisionAssumption
<1> DEFINE N == 2^n
           P == 2^Precision
<1>2. N \in Nat \ {0} /\ P \in Nat \ {0}
  BY <1>1, PowerPositive
<1>3. \A m \in 0..(P - 1), e \in 0..Exponents : m * 2^e \in Floats
  BY FloatForm DEF Significands
<1>4. 2^0 = 1 /\ 2^1 = 2 /\ 2^2 = 4
  <2>1. PICK o \in Nat, i \in Nat : o = 0 /\ i = 1
    OBVIOUS
  <2>2. 2^(o + 1) = 2 * 2^o /\ 2^(i + 1) = 2 * 2^i
    BY PowerStep
  <2>3. 2^0 = 1
    OBVIOUS
  <2>4. o + 1 = 1 /\ i + 1 = 2
    BY <2>1
  <2>5. 2^1 = 2
    BY <2>1, <2>2, <2>3, <2>4
  <2>6. QED
    BY <2>1, <2>2, <2>3, <2>4, <2>5
<1>5. CASE n = Precision
  <2>1. 2 \in 0..Exponents /\ N - 1 \in 0..(P - 1)
    BY <1>1, <1>2, <1>5
  <2>2. (N - 1) * 2^2 \in Floats
    BY <1>3, <2>1
  <2> HIDE DEF N
  <2>3. (N - 1) * 4 = 4 * (N - 1)
    BY <1>2
  <2>4. QED
    BY <1>4, <2>2, <2>3 DEF N
<1>6. CASE n + 1 = Precision
  <2>1. P = 2 * N
    BY <1>6, PowerStep
  <2>2. 1 \in 0..Exponents /\ 2 * (N - 1) \in 0..(P - 1)
    BY <1>1, <1>2, <1>6, <2>1
  <2>3. (2 * (N - 1)) * 2^1 \in Floats
    BY <1>3, <2>2
  <2> HIDE DEF N
  <2>4. (2 * (N - 1)) * 2 = 4 * (N - 1)
    BY <1>2
  <2>5. QED
    BY <1>4, <2>3, <2>4 DEF N
<1>7. CASE n + 2 <= Precision
  <2>1. n + 1 < Precision /\ n + 1 \in Nat
    BY <1>1, <1>7
  <2>2. 2^(n + 1) = 2 * N /\ 2 * 2^(n + 1) <= P
    BY <1>1, <2>1, PowerStep, PowerLess
  <2>3. 0 \in 0..Exponents /\ 4 * (N - 1) \in 0..(P - 1)
    BY <1>1, <1>2, <2>2
  <2>4. (4 * (N - 1)) * 2^0 \in Floats
    BY <1>3, <2>3
  <2>5. (4 * (N - 1)) * 1 = 4 * (N - 1)
    BY <1>2
  <2>6. QED
    BY <1>4, <2>4, <2>5
<1>8. QED
  BY <1>1, <1>5, <1>6, <1>7

\* The floats just below 2^(n + 2), for an n beyond the bits of a significand.
LEMMA BelowPower ==
  ASSUME NEW n \in Nat, n > Precision, NEW p \in Floats, p < 4 * 2^n
  PROVE  /\ p <= 4 * 2^n - 8
         /\ p = 4 * 2^n - 8 => OddSignificand(p)
<1> DEFINE N == 2^n
           P == 2^Precision
           Q == 2^(Precision - 1)
<1>1. Precision \in Nat /\ Precision >= 2 /\ Exponents \in Nat /\ Precision - 1 \in Nat
  BY PrecisionAssumption
<1>2. /\ P \in Nat \ {0} /\ Q \in Nat \ {0} /\ P = 2 * Q /\ Q >= 2
      /\ N \in Nat \ {0} /\ 2 * P <= N
  <2>1. P = 2 * Q
    BY <1>1, PowerStep, (Precision - 1) + 1 = Precision
  <2>2. Q >= 2
    BY <1>1, PowerAtLeastTwo
  <2>3. 2 * P <= N
    BY <1>1, PowerLess
  <2>4. QED
    BY <1>1, <2>1, <2>2, <2>3, PowerPositive
<1>3. PICK h \in Nat : h = 2^(n - 3) /\ N = 8 * h
  <2>1. n - 3 \in Nat /\ n - 2 \in Nat /\ n - 1 \in Nat
        /\ (n - 3) + 1 = n - 2 /\ (n - 2) + 1 = n - 1 /\ (n - 1) + 1 = n
    BY <1>1
  <2>2. 2^(n - 2) = 2 * 2^(n - 3) /\ 2^(n - 1) = 2 * 2^(n - 2) /\ 2^n = 2 * 2^(n - 1)
    BY <2>1, PowerStep
  <2>3. 2^(n - 3) \in Nat
    BY <2>1, PowerPositive
  <2>4. N = 8 * 2^(n - 3)
    BY <2>2, <2>3
  <2>5. QED
    BY <2>3, <2>4
<1>4. PICK m \in Significands, e \in 0..Exponents : p = m * 2^e \/ p = -(m * 2^e)
  BY FloatForm
<1>5. m \in Nat /\ m <= P - 1 /\ e \in Nat /\ m * 2^e \in Nat
  BY <1>1, <1>2, <1>4, FloatForm DEF Significands
<1>6. p < 4 * N
  OBVIOUS
<1>7. SUFFICES p <= 4 * N - 8 /\ (p = 4 * N - 8 => OddSignificand(p))
  OBVIOUS
<1>8. CASE p # m * 2^e
  <2>1. p \in Int /\ p <= 0
    BY <1>4, <1>5, <1>8
  <2> HIDE DEF N
  <2>2. QED
    BY <1>2, <2>1
<1>9. CASE p = m * 2^e /\ e <= 2
  <2>1. 2^e \in Nat /\ 2^e <= 4
    <3>1. 2^e \in Nat /\ 2^2 = 4
      BY <1>5, PowerPositive
    <3>2. PICK z \in Nat : z = 2
      OBVIOUS
    <3>3. e < z => 2 * 2^e <= 2^z
      BY <1>5, PowerLess
    <3>4. 2^z = 4
      BY <3>1, <3>2
    <3>5. e = z \/ e < z
      BY <1>5, <1>9, <3>2
    <3>6. QED
      BY <3>1, <3>3, <3>4, <3>5
  <2> DEFINE f == 2^e
  <2>2. f \in Nat /\ f <= 4 /\ p = m * f
    BY <1>9, <2>1
  <2> HIDE DEF f, N, P, Q
  <2>3. m * f <= m * 4 /\ m * f \in Nat
    BY <1>5, <2>2
  <2>4. p <= 4 * P - 4
    BY <1>2, <1>5, <2>2, <2>3
  <2>5. p < 4 * N - 8
    BY <1>2, <1>5, <2>2, <2>3, <2>4
  <2>6. QED
    BY <1>2, <2>2, <2>3, <2>5
<1>10. CASE p = m * 2^e /\ e >= 3
  <2>1. e - 3 \in Nat /\ e - 2 \in Nat /\ e - 1 \in Nat
        /\ (e - 3) + 1 = e - 2 /\ (e - 2) + 1 = e - 1 /\ (e - 1) + 1 = e
    BY <1>5, <1>10
  <2>2. 2^(e - 2) = 2 * 2^(e - 3) /\ 2^(e - 1) = 2 * 2^(e - 2) /\ 2^e = 2 * 2^(e - 1)
    BY <2>1, PowerStep
  <2>3. PICK f \in Nat : f = 2^(e - 3)
    BY <2>1, PowerPositive
  <2>4. 2^e = 8 * f
    BY <2>2, <2>3
  <2>5. p = 8 * (m * f) /\ m * f \in Nat
    BY <1>5, <1>10, <2>4
  <2>6. p <= 4 * N - 8
    <3> DEFINE j == m * f
    <3>1. j \in Nat /\ p = 8 * j
      BY <2>5
    <3> HIDE DEF j, N
    <3>2. QED
      BY <1>3, <1>6, <3>1
  <2>7. ASSUME p = 4 * N - 8 PROVE OddSignificand(p)
    <3>1. m * f = 4 * h - 1
      <4> DEFINE j == m * f
      <4>1. j \in Nat /\ p = 8 * j
        BY <2>5
      <4> HIDE DEF j, N
      <4>2. j = 4 * h - 1
        BY <1>3, <2>7, <4>1
      <4>3. QED
        BY <4>2 DEF j
    <3>2. e = 3
      <4> SUFFICES ASSUME e # 3 PROVE FALSE
        OBVIOUS
      <4>1. e - 4 \in Nat /\ (e - 4) + 1 = e - 3
        BY <1>5, <1>10
      <4>2. PICK g \in Nat : f = 2 * g
        BY <2>3, <4>1, PowerStep, PowerPositive
      <4>3. m * f = 2 * (m * g) /\ m * g \in Nat
        BY <1>5, <4>2
      <4> DEFINE j == m * g
      <4>4. j \in Nat /\ 2 * j = 4 * h - 1
        BY <3>1, <4>3
      <4> HIDE DEF j
      <4>5. QED
        BY <1>3, <4>4
    <3>3. m = 4 * h - 1
      <4>1. e - 3 = 0
        BY <3>2
      <4>2. f = 1
        BY <2>3, <4>1
      <4>3. QED
        BY <1>5, <3>1, <4>2
    <3>4. m % 2 = 1
      BY <1>3, <1>5, <3>3
    <3>5. m >= Q
      <4> HIDE DEF N, P, Q
      <4>1. QED
        BY <1>2, <1>3, <1>5, <3>3
    <3>6. QED
      BY <1>10, <3>4, <3>5 DEF OddSignificand
  <2>8. QED
    BY <2>6, <2>7
<1>11. QED
  BY <1>5, <1>8, <1>9, <1>10

\* ... and is rounded up to 2^n where it has not: the tie between the two floats
\* next to it goes to the power of two.
LEMMA GreatestToFloat ==
  ASSUME NEW n \in Nat \ {0}, n + 2 <= Exponents + Precision - 1
  PROVE  ToFloat(4 * (2^n - 1)) = 4 * (2^n - 1) \/ ToFloat(4 * (2^n - 1)) = 4 * 2^n
<1> DEFINE K == 4 * 2^n
           g == 4 * (2^n - 1)
<1>1. Precision \in Nat /\ Precision >= 2 /\ Exponents \in Nat /\ Precision - 1 \in Nat
  BY PrecisionAssumption
<1>2. 2^n \in Nat \ {0} /\ 2^(n + 1) = 2 * 2^n /\ 2^(n + 2) = 2 * 2^(n + 1)
  <2>1. n + 1 \in Nat /\ (n + 1) + 1 = n + 2
    OBVIOUS
  <2>2. QED
    BY <2>1, PowerPositive, PowerStep
<1>3. K = 2^(n + 2) /\ K \in Nat \ {0} /\ g \in Int /\ g = K - 4
  BY <1>2
<1>4. CASE n <= Precision
  BY <1>4, GreatestIsFloat, ToFloatSame
<1>5. CASE n > Precision
  <2>1. K \in Floats
    BY <1>3, PowerFloat, n + 2 \in Nat
  <2>2. \A p \in Floats : p < K => p <= K - 8 /\ (p = K - 8 => OddSignificand(p))
    BY <1>5, BelowPower
  <2> HIDE DEF K, g
  <2>3. K \in Near(g)
    <3>1. ASSUME NEW p \in Floats PROVE Distance(K, g) <= Distance(p, g)
      <4>1. p \in Int /\ (p < K => p <= K - 8)
        BY <2>2, FloatForm
      <4>2. QED
        BY <1>3, <4>1 DEF Distance
    <3>2. QED
      BY <1>3, <2>1, <3>1, NearIs
  <2>4. ASSUME NEW r \in Near(g), r # K PROVE OddSignificand(r)
    <3>1. r \in Floats /\ r \in Int /\ Distance(r, g) <= Distance(K, g)
      BY <1>3, <2>1, FloatForm, NearIs
    <3>2. r >= K - 8 /\ r < K
      BY <1>3, <2>4, <3>1 DEF Distance
    <3>3. QED
      BY <1>3, <2>2, <3>1, <3>2
  <2>5. ~OddSignificand(K)
    <3> SUFFICES ASSUME NEW m \in Significands, NEW e \in 0..Exponents,
                        m % 2 = 1, K = m * 2^e \/ K = -(m * 2^e),
                        m >= 2^(Precision - 1) \/ e = 0
                 PROVE  FALSE
      BY DEF OddSignificand
    <3>1. m \in Nat /\ e \in Nat /\ m * 2^e \in Nat
      BY <1>1, FloatForm, PowerPositive DEF Significands
    <3>2. m * 2^e = 2^(n + 2)
      BY <1>3, <3>1
    <3>3. m = 1
      BY <3>1, <3>2, OddPower, n + 2 \in Nat
    <3>4. 2^(Precision - 1) >= 2
      BY <1>1, PowerAtLeastTwo
    <3>5. e = 0
      BY <1>1, <3>3, <3>4
    <3>6. 2^(n + 2) = 1
      <4>1. 2^e = 1
        BY <3>5
      <4>2. QED
        BY <3>2, <3>3, <4>1
    <3>7. 2^(n + 2) >= 2
      BY PowerAtLeastTwo, n + 2 \in Nat \ {0}
    <3>8. QED
      BY <3>6, <3>7
  <2>6. ToFloat(g) = K
    <3>1. CASE Cardinality(Near(g)) = 1
      <4>1. PICK c : Near(g) = {c}
        <5>1. IsFiniteSet(Near(g))
          <6>1. Near(g) \subseteq (K - 8)..K
            <7> SUFFICES ASSUME NEW r \in Near(g) PROVE r \in (K - 8)..K
              OBVIOUS
            <7>1. r \in Int /\ Distance(r, g) <= Distance(K, g)
              BY <1>3, <2>1, FloatForm, NearIs
            <7>2. QED
              BY <1>3, <7>1 DEF Distance
          <6>2. PICK l \in Int, u \in Int : l = K - 8 /\ u = K
            BY <1>3
          <6>3. IsFiniteSet(l..u)
            BY FS_Interval
          <6>4. QED
            BY <6>1, <6>2, <6>3, FS_Subset
        <5>2. QED
          BY <3>1, <5>1, FS_Singleton
      <4>2. ToFloat(g) = CHOOSE r \in Near(g) : TRUE
        BY <3>1 DEF ToFloat
      <4>3. QED
        BY <2>3, <4>1, <4>2
    <3>2. CASE Cardinality(Near(g)) # 1
      <4>1. ToFloat(g) = CHOOSE r \in Near(g) : ~OddSignificand(r)
        BY <3>2 DEF ToFloat
      <4>2. QED
        BY <2>3, <2>4, <2>5, <4>1
    <3>3. QED
      BY <3>1, <3>2
  <2>7. QED
    BY <2>6 DEF K, g
<1>6. QED
  BY <1>1, <1>4, <1>5
-----------------------------------------------------------------------------
(* Conversions of floats.                                                  *)

\* What a mode asks for: y, in quarters, is the right neighbour of q.
Asked(mode, q, y) ==
  /\ y - q < 4 /\ q - y < 4
  /\ mode = "rtp" => y >= q
  /\ mode = "rtn" => y <= q
  /\ mode = "rtz" => (q >= 0 => y \in 0..q) /\ (q <= 0 => y \in q..0)
  /\ mode = "rte" => y - q <= 2 /\ q - y <= 2
                     /\ (y - q \in {2, -2} => (y \div 4) % 2 = 0)

LEMMA TruncAsked ==
  ASSUME NEW q \in Int
  PROVE  Trunc(q) \in Int /\ Asked("rtz", q, Quarters(Trunc(q)))
BY DEF Asked, Trunc, Quarters

LEMMA TruncQuarters ==
  ASSUME NEW r \in Int
  PROVE  Quarters(r) \in Int /\ Trunc(Quarters(r)) = r
BY DEF Trunc, Quarters

LEMMA NeighbourAsked ==
  ASSUME NEW mode \in {"rte", "rtp", "rtn"}, NEW q \in Int
  PROVE  Neighbour(mode, q) \in Int /\ Asked(mode, q, Quarters(Neighbour(mode, q)))
<1>1. CASE mode = "rtp"
  BY <1>1 DEF Neighbour, Asked, Quarters
<1>2. CASE mode = "rtn"
  BY <1>2 DEF Neighbour, Asked, Quarters
<1>3. CASE mode = "rte"
  <2> DEFINE d == q \div 4
             r == IF q % 4 < 2 \/ (q % 4 = 2 /\ d % 2 = 0) THEN d ELSE d + 1
  <2>1. Neighbour(mode, q) = r
    BY <1>3 DEF Neighbour
  <2>2. d \in Int /\ q % 4 \in 0..3 /\ q = 4 * d + (q % 4)
    OBVIOUS
  <2> HIDE DEF d
  <2>3. r \in Int /\ 4 * r - q <= 2 /\ q - 4 * r <= 2 /\ (4 * r) \div 4 = r
    BY <2>2
  <2>4. 4 * r - q \in {2, -2} => r % 2 = 0
    BY <2>2
  <2> HIDE DEF r
  <2>5. QED
    BY <1>3, <2>1, <2>3, <2>4 DEF Asked, Quarters
<1>4. QED
  BY <1>1, <1>2, <1>3

LEMMA LargeIs ==
  /\ Precision \in Nat /\ Precision >= 2 /\ Exponents \in Nat /\ Exponents >= 5
  /\ 2^(Precision - 1) \in Nat /\ 2^(Precision - 1) >= 2 /\ 2^(Precision - 1) % 2 = 0
  /\ 2^Precision = 2 * 2^(Precision - 1)
  /\ Large = 4 * 2^(Precision - 1) /\ Large \in Nat
<1>1. Precision \in Nat /\ Precision >= 2 /\ Exponents \in Nat /\ Exponents >= 5
  BY PrecisionAssumption
<1>2. Precision - 1 \in Nat \ {0} /\ Precision - 2 \in Nat
      /\ (Precision - 1) + 1 = Precision /\ (Precision - 2) + 1 = Precision - 1
  BY <1>1
<1>3. 2^(Precision - 1) \in Nat /\ 2^(Precision - 1) >= 2 /\ 2^Precision = 2 * 2^(Precision - 1)
  BY <1>2, PowerPositive, PowerStep, PowerAtLeastTwo
<1>4. 2^(Precision - 1) % 2 = 0
  <2>1. 2^(Precision - 1) = 2 * 2^(Precision - 2) /\ 2^(Precision - 2) \in Nat
    BY <1>2, PowerPositive, PowerStep
  <2>2. \A h \in Nat : (2 * h) % 2 = 0
    OBVIOUS
  <2>3. QED
    BY <2>1, <2>2
<1>5. QED
  BY <1>1, <1>3, <1>4 DEF Large, Quarters

\* A float from Large on is an integer.
LEMMA LargeWhole ==
  ASSUME NEW p \in Floats, p >= Large \/ -p >= Large
  PROVE  p \in Int /\ p % 4 = 0
<1> DEFINE Q == 2^(Precision - 1)
<1>1. p \in Int /\ Q \in Nat /\ Q >= 2 /\ 2^Precision = 2 * Q /\ Large = 4 * Q /\ Exponents \in Nat
  BY LargeIs, FloatForm
<1>2. PICK m \in Significands, e \in 0..Exponents : p = m * 2^e \/ p = -(m * 2^e)
  BY FloatForm
<1>3. m \in Nat /\ m < 2 * Q /\ 2^e \in Nat /\ m * 2^e \in Nat /\ e \in Nat
  BY <1>1, LargeIs, FloatForm, PowerPositive DEF Significands
<1>4. m * 2^e >= 4 * Q
  BY <1>1, <1>2, <1>3
<1>5. 2^e > 2
  <2> SUFFICES ASSUME 2^e <= 2 PROVE FALSE
    BY <1>3
  <2> DEFINE E == 2^e
  <2>1. E \in Nat /\ E <= 2
    BY <1>3
  <2> HIDE DEF E, Q
  <2>2. m * E <= m * 2
    BY <1>3, <2>1
  <2>3. m * E \in Nat /\ m * E >= 4 * Q
    BY <1>3, <1>4 DEF E
  <2>4. QED
    BY <1>1, <1>3, <2>2, <2>3
<1>6. e >= 2
  <2>1. 2^0 = 1 /\ 2^1 = 2
    <3>1. PICK o \in Nat : o = 0
      OBVIOUS
    <3>2. 2^(o + 1) = 2 * 2^o
      BY PowerStep
    <3>3. 2^0 = 1 /\ o + 1 = 1
      BY <3>1
    <3>4. QED
      BY <3>1, <3>2, <3>3
  <2>2. e # 0 /\ e # 1
    <3>1. ASSUME e = 0 PROVE FALSE
      <4>1. 2^e = 1
        BY <2>1, <3>1
      <4>2. QED
        BY <1>5, <4>1
    <3>2. ASSUME e = 1 PROVE FALSE
      <4>1. 2^e = 2
        BY <2>1, <3>2
      <4>2. QED
        BY <1>5, <4>1
    <3>3. QED
      BY <3>1, <3>2
  <2>3. QED
    BY <1>3, <2>2
<1>7. PICK h \in Nat : 2^e = 4 * h
  <2>1. e - 2 \in Nat /\ e - 1 \in Nat /\ (e - 2) + 1 = e - 1 /\ (e - 1) + 1 = e
    BY <1>3, <1>6
  <2>2. 2^e = 2 * 2^(e - 1) /\ 2^(e - 1) = 2 * 2^(e - 2) /\ 2^(e - 2) \in Nat
    BY <2>1, PowerStep, PowerPositive
  <2>3. 2^e = 4 * 2^(e - 2)
    BY <2>2
  <2>4. QED
    BY <2>2, <2>3
<1>8. PICK k \in Nat : m * 2^e = 4 * k
  <2>1. m * (4 * h) = 4 * (m * h) /\ m * h \in Nat
    BY <1>3
  <2>2. QED
    BY <1>7, <2>1
<1>9. QED
  BY <1>1, <1>2, <1>8

\* The integers between Large and its double are floats.
LEMMA WholeFloat ==
  ASSUME NEW k \in Nat, k <= 2^Precision
  PROVE  4 * k \in Floats
<1>1. 2^2 = 4
  <2>1. PICK o \in Nat, i \in Nat : o = 0 /\ i = 1
    OBVIOUS
  <2>2. 2^(o + 1) = 2 * 2^o /\ 2^(i + 1) = 2 * 2^i
    BY PowerStep
  <2>3. 2^0 = 1 /\ o + 1 = 1 /\ i + 1 = 2
    BY <2>1
  <2>4. QED
    BY <2>1, <2>2, <2>3
<1>2. CASE k < 2^Precision
  <2>1. k \in Significands /\ 2 \in 0..Exponents
    BY <1>2, LargeIs DEF Significands
  <2>2. k * 2^2 \in Floats
    BY <2>1, FloatForm
  <2>3. k * 4 = 4 * k
    OBVIOUS
  <2>4. QED
    BY <1>1, <2>2, <2>3
<1>3. CASE k = 2^Precision
  <2>1. Precision + 2 \in Nat /\ Precision + 1 \in Nat /\ (Precision + 1) + 1 = Precision + 2
        /\ Precision + 2 <= Exponents + Precision - 1
    BY LargeIs
  <2>2. 2^(Precision + 2) = 2 * 2^(Precision + 1) /\ 2^(Precision + 1) = 2 * 2^Precision
    BY <2>1, LargeIs, PowerStep
  <2>3. 2^(Precision + 2) \in Floats
    BY <2>1, PowerFloat
  <2>4. QED
    BY <1>3, <2>2, <2>3
<1>4. QED
  BY <1>2, <1>3, LargeIs

\* r is what the sum x is rounded to: the nearest float, the even one of two.
SumIs(x, r) == r \in Near(x) /\ \A p \in Near(x) : p # r => ~OddSignificand(r)

LEMMA ToFloatSum ==
  ASSUME NEW x \in Int
  PROVE  SumIs(x, ToFloat(x))
<1>1. ToFloat(x) \in Near(x)
  BY ToFloatNear
<1>2. ASSUME NEW p \in Near(x), p # ToFloat(x) PROVE ~OddSignificand(ToFloat(x))
  <2> DEFINE c == ToFloat(x)
  <2>1. /\ c \in Floats /\ p \in Floats /\ c \in Int /\ p \in Int
        /\ Distance(c, x) <= Distance(p, x) /\ Distance(p, x) <= Distance(c, x)
        /\ \A f \in Floats : Distance(c, x) <= Distance(f, x)
    BY <1>1, FloatForm, NearIs
  <2>2. Cardinality(Near(x)) # 1
    <3> SUFFICES ASSUME Cardinality(Near(x)) = 1 PROVE FALSE
      OBVIOUS
    <3>1. IsFiniteSet(Near(x))
      <4> DEFINE D == Distance(c, x)
      <4>1. D \in Int
        BY <2>1 DEF Distance
      <4>2. Near(x) \subseteq (x - D)..(x + D)
        <5> SUFFICES ASSUME NEW f \in Near(x) PROVE f \in (x - D)..(x + D)
          OBVIOUS
        <5>1. f \in Int /\ Distance(f, x) <= D
          BY <2>1, FloatForm, NearIs
        <5> HIDE DEF D
        <5>2. QED
          BY <4>1, <5>1 DEF Distance
      <4>3. PICK l \in Int, u \in Int : l = x - D /\ u = x + D
        BY <4>1
      <4>4. IsFiniteSet(l..u)
        BY FS_Interval
      <4>5. QED
        BY <4>2, <4>3, <4>4, FS_Subset
    <3>2. PICK f : Near(x) = {f}
      BY <3>1, FS_Singleton
    <3>3. QED
      BY <1>1, <1>2, <3>2
  <2>3. c = CHOOSE f \in Near(x) : ~OddSignificand(f)
    BY <2>2 DEF ToFloat
  <2>4. \E f \in Near(x) : ~OddSignificand(f)
    <3> SUFFICES ASSUME OddSignificand(c), OddSignificand(p) PROVE FALSE
      BY <1>1, <1>2
    <3> HIDE DEF c
    <3>1. c # p
      BY <1>2 DEF c
    <3>2. ASSUME NEW f \in Floats PROVE ~(c < f /\ f < p) /\ ~(p < f /\ f < c)
      <4>1. f \in Int /\ Distance(c, x) <= Distance(f, x)
        BY <2>1, FloatForm
      <4>2. QED
        BY <2>1, <4>1 DEF Distance
    <3>3. c < p \/ p < c
      BY <2>1, <3>1
    <3>4. QED
      BY <2>1, <3>2, <3>3, NotBothOdd
  <2>5. QED
    BY <2>3, <2>4
<1>3. QED
  BY <1>1, <1>2 DEF SumIs

LEMMA NearBy ==
  ASSUME NEW x \in Int, NEW r \in Near(x)
  PROVE  /\ r \in Floats /\ r \in Int /\ -r \in Floats
         /\ \A p \in Floats : p \in Int /\ -p \in Floats /\ Distance(r, x) <= Distance(p, x)
<1>1. r \in Floats /\ \A p \in Floats : Distance(r, x) <= Distance(p, x)
  BY NearIs
<1>2. \A p \in Floats : p \in Int /\ -p \in Floats
  BY FloatForm
<1>3. QED
  BY <1>1, <1>2

LEMMA SumNegated ==
  ASSUME NEW x \in Int, NEW r, SumIs(x, r)
  PROVE  SumIs(-x, -r)
<1>1. /\ r \in Floats /\ r \in Int /\ -r \in Floats /\ -x \in Int
      /\ \A p \in Floats : p \in Int /\ -p \in Floats /\ Distance(r, x) <= Distance(p, x)
  <2>1. r \in Near(x)
    BY DEF SumIs
  <2>2. QED
    BY <2>1, NearBy
<1>2. \A p \in Floats : /\ p \in Int /\ -p \in Floats
                        /\ Distance(-p, -x) = Distance(p, x) /\ Distance(p, -x) = Distance(-p, x)
  <2> SUFFICES ASSUME NEW p \in Floats
               PROVE  Distance(-p, -x) = Distance(p, x) /\ Distance(p, -x) = Distance(-p, x)
    BY <1>1
  <2>1. p \in Int
    BY <1>1
  <2>2. QED
    BY <2>1 DEF Distance
<1>3. -r \in Near(-x)
  <2> SUFFICES ASSUME NEW p \in Floats PROVE Distance(-r, -x) <= Distance(p, -x)
    BY <1>1, NearIs
  <2>1. Distance(r, x) <= Distance(-p, x)
    BY <1>1, <1>2
  <2>2. QED
    BY <1>1, <1>2, <2>1
<1>4. ASSUME NEW p \in Near(-x), p # -r PROVE ~OddSignificand(-r)
  <2>1. p \in Floats /\ p \in Int /\ \A f \in Floats : Distance(p, -x) <= Distance(f, -x)
    BY <1>1, <1>4, FloatForm, NearIs
  <2>2. -p \in Near(x)
    <3> SUFFICES ASSUME NEW f \in Floats PROVE Distance(-p, x) <= Distance(f, x)
      BY <1>2, <2>1, NearIs
    <3>1. -f \in Floats /\ f \in Int
      BY <1>2
    <3>2. Distance(p, -x) <= Distance(-f, -x)
      BY <2>1, <3>1
    <3>3. QED
      BY <1>2, <2>1, <3>2
  <2>3. -p # r
    BY <1>1, <1>4, <2>1
  <2>4. ~OddSignificand(r)
    BY <2>2, <2>3 DEF SumIs
  <2>5. OddSignificand(-r) => OddSignificand(r)
    <3> SUFFICES ASSUME NEW m \in Significands, NEW e \in 0..Exponents, m % 2 = 1,
                        -r = m * 2^e \/ -r = -(m * 2^e), m >= 2^(Precision - 1) \/ e = 0
                 PROVE  OddSignificand(r)
      BY DEF OddSignificand
    <3>1. m * 2^e \in Nat
      BY FloatForm
    <3>2. r = m * 2^e \/ r = -(m * 2^e)
      BY <1>1, <3>1
    <3>3. QED
      BY <3>2 DEF OddSignificand
  <2>6. QED
    BY <2>4, <2>5
<1>5. QED
  BY <1>3, <1>4 DEF SumIs

\* The sum of Large and a smaller number is rounded to an integer: the last bit of
\* its significand counts whole numbers.
LEMMA SumRounded ==
  ASSUME NEW q \in Nat, q < Large, NEW r, SumIs(q + Large, r)
  PROVE  \E k \in Nat : /\ r = Large + 4 * k /\ k <= 2^(Precision - 1)
                        /\ 4 * k - q <= 2 /\ q - 4 * k <= 2
                        /\ 4 * k - q \in {2, -2} => k % 2 = 0
<1> DEFINE Q == 2^(Precision - 1)
           x == q + Large
<1>1. Q \in Nat /\ Q >= 2 /\ Q % 2 = 0 /\ 2^Precision = 2 * Q /\ Large = 4 * Q /\ Large \in Nat
  BY LargeIs
<1>2. \A k \in Nat : k <= Q => 4 * (Q + k) \in Floats
  <2> SUFFICES ASSUME NEW k \in Nat, k <= Q PROVE 4 * (Q + k) \in Floats
    OBVIOUS
  <2>1. Q + k \in Nat /\ Q + k <= 2^Precision
    BY <1>1
  <2>2. QED
    BY <2>1, WholeFloat
<1>3. /\ x \in Int /\ r \in Floats /\ r \in Int
      /\ \A p \in Floats : p \in Int /\ Distance(r, x) <= Distance(p, x)
  <2>1. x \in Int /\ r \in Near(x)
    BY <1>1 DEF SumIs
  <2>2. QED
    BY <2>1, NearBy
<1>4. \A p : p \in Floats /\ p \in Int /\ Distance(p, x) <= Distance(r, x) => p \in Near(x)
  <2> SUFFICES ASSUME NEW p \in Floats, p \in Int, Distance(p, x) <= Distance(r, x),
                      NEW f \in Floats
               PROVE  Distance(p, x) <= Distance(f, x)
    BY <1>3, NearIs
  <2>1. f \in Int /\ Distance(r, x) <= Distance(f, x)
    BY <1>3
  <2>2. Distance(r, x) \in Int /\ Distance(p, x) \in Int /\ Distance(f, x) \in Int
    BY <1>3, <2>1 DEF Distance
  <2>3. QED
    BY <2>1, <2>2
<1> HIDE DEF Q
<1>5. r - x <= 2 /\ x - r <= 2
  <2> DEFINE j == (q + 2) \div 4
  <2>1. j \in Nat /\ j <= Q /\ 4 * j - q <= 2 /\ q - 4 * j <= 2
    BY <1>1
  <2> HIDE DEF j
  <2>2. Distance(r, x) <= Distance(4 * (Q + j), x)
    BY <1>2, <1>3, <2>1
  <2>3. Distance(4 * (Q + j), x) <= 2
    BY <1>1, <2>1 DEF Distance
  <2>4. QED
    BY <1>1, <1>3, <2>1, <2>2, <2>3 DEF Distance
<1>6. r >= Large
  <2> SUFFICES ASSUME r < Large PROVE FALSE
    BY <1>1, <1>3
  <2>1. 4 * (Q + 0) \in Floats
    BY <1>1, <1>2
  <2>2. 4 * (Q + 0) = Large
    BY <1>1
  <2>3. Distance(r, x) <= Distance(Large, x)
    BY <1>3, <2>1, <2>2
  <2>4. QED
    BY <1>1, <1>3, <2>3 DEF Distance
<1>7. r % 4 = 0
  BY <1>3, <1>6, LargeWhole
<1>8. PICK k \in Nat : r = Large + 4 * k
  <2>1. (r - Large) \div 4 \in Nat /\ r = Large + 4 * ((r - Large) \div 4)
    BY <1>1, <1>3, <1>6, <1>7
  <2>2. QED
    BY <2>1
<1>9. k <= Q
  BY <1>1, <1>3, <1>5, <1>8
<1>10. ASSUME 4 * k - q \in {2, -2} PROVE k % 2 = 0
  <2> SUFFICES ASSUME k % 2 = 1 PROVE FALSE
    OBVIOUS
  <2>1. PICK p \in Near(x) : p # r
    <3>1. CASE 4 * k - q = 2
      <4>1. k - 1 \in Nat /\ k - 1 <= Q
        BY <1>9, <1>1, <3>1
      <4>2. 4 * (Q + (k - 1)) \in Floats
        BY <1>2, <4>1
      <4>3. 4 * (Q + (k - 1)) = r - 4
        BY <1>1, <1>8
      <4>4. r - 4 \in Near(x)
        BY <1>1, <1>3, <1>4, <1>8, <3>1, <4>2, <4>3 DEF Distance
      <4>5. QED
        BY <1>3, <4>4
    <3>2. CASE 4 * k - q = -2
      <4>1. k + 1 \in Nat /\ k + 1 <= Q
        BY <1>9, <1>1, <3>2
      <4>2. 4 * (Q + (k + 1)) \in Floats
        BY <1>2, <4>1
      <4>3. 4 * (Q + (k + 1)) = r + 4
        BY <1>1, <1>8
      <4>4. r + 4 \in Near(x)
        BY <1>1, <1>3, <1>4, <1>8, <3>2, <4>2, <4>3 DEF Distance
      <4>5. QED
        BY <1>3, <4>4
    <3>3. QED
      BY <1>10, <3>1, <3>2
  <2>2. OddSignificand(r)
    <3>1. Q + k \in Nat /\ (Q + k) % 2 = 1 /\ Q + k >= Q /\ Q + k <= 2 * Q
      BY <1>1, <1>9
    <3>2. Q + k # 2 * Q
      BY <1>1, <3>1
    <3>3. Q + k \in Significands /\ 2 \in 0..Exponents
      BY <1>1, <3>1, <3>2, LargeIs DEF Significands
    <3>4. 2^2 = 4
      <4>1. PICK o \in Nat, i \in Nat : o = 0 /\ i = 1
        OBVIOUS
      <4>2. 2^(o + 1) = 2 * 2^o /\ 2^(i + 1) = 2 * 2^i
        BY PowerStep
      <4>3. 2^0 = 1 /\ o + 1 = 1 /\ i + 1 = 2
        BY <4>1
      <4>4. QED
        BY <4>1, <4>2, <4>3
    <3>5. r = (Q + k) * 2^2
      BY <1>1, <1>8, <3>4
    <3>6. QED
      BY <3>1, <3>3, <3>5 DEF OddSignificand, Q
  <2>3. QED
    BY <2>1, <2>2 DEF SumIs
<1>11. QED
  BY <1>1, <1>3, <1>5, <1>8, <1>9, <1>10 DEF Q

\* vml_rint is right below 2^mantissa_bits.
LEMMA RintAsked ==
  ASSUME NEW q \in Int, q < Large, -q < Large
  PROVE  \E r \in Int : RintByAdding(q) = Quarters(r) /\ Asked("rte", q, Quarters(r))
<1>1. Large \in Nat /\ 2^(Precision - 1) \in Nat /\ 2^Precision = 2 * 2^(Precision - 1)
  BY LargeIs
<1>2. \A k \in Nat : k <= 2^(Precision - 1) => ToFloat(4 * k) = 4 * k /\ ToFloat(-(4 * k)) = -(4 * k)
  <2> SUFFICES ASSUME NEW k \in Nat, k <= 2^(Precision - 1)
               PROVE  ToFloat(4 * k) = 4 * k /\ ToFloat(-(4 * k)) = -(4 * k)
    OBVIOUS
  <2>1. k <= 2^Precision
    BY <1>1
  <2>2. 4 * k \in Floats /\ -(4 * k) \in Floats
    BY <2>1, WholeFloat, FloatForm
  <2>3. QED
    BY <2>2, ToFloatSame
<1>3. CASE q >= 0
  <2>1. SumIs(q + Large, ToFloat(q + Large))
    BY <1>1, ToFloatSum
  <2>2. PICK k \in Nat : /\ ToFloat(q + Large) = Large + 4 * k /\ k <= 2^(Precision - 1)
                         /\ 4 * k - q <= 2 /\ q - 4 * k <= 2
                         /\ 4 * k - q \in {2, -2} => k % 2 = 0
    BY <1>3, <2>1, SumRounded
  <2>3. (Large + 4 * k) - Large = 4 * k /\ (4 * k) \div 4 = k
    BY <1>1
  <2>4. RintByAdding(q) = 4 * k
    BY <1>2, <1>3, <2>2, <2>3 DEF RintByAdding
  <2>5. Asked("rte", q, 4 * k)
    BY <2>2, <2>3 DEF Asked
  <2>6. QED
    BY <2>4, <2>5 DEF Quarters
<1>4. CASE q < 0
  <2> DEFINE x == q + (-Large)
  <2>1. x \in Int /\ -x = (-q) + Large /\ -q \in Nat
    BY <1>1, <1>4
  <2>2. SumIs(x, ToFloat(x))
    BY <2>1, ToFloatSum
  <2>3. SumIs(-x, -ToFloat(x)) /\ ToFloat(x) \in Int
    BY <2>1, <2>2, SumNegated, NearIs, FloatForm DEF SumIs
  <2>4. PICK k \in Nat : /\ -ToFloat(x) = Large + 4 * k /\ k <= 2^(Precision - 1)
                         /\ 4 * k - (-q) <= 2 /\ (-q) - 4 * k <= 2
                         /\ 4 * k - (-q) \in {2, -2} => k % 2 = 0
    BY <2>1, <2>3, SumRounded
  <2>5. ToFloat(x) - (-Large) = -(4 * k) /\ (-(4 * k)) \div 4 = -k
    BY <1>1, <2>3, <2>4
  <2>6. RintByAdding(q) = -(4 * k)
    BY <1>2, <1>4, <2>4, <2>5 DEF RintByAdding
  <2>7. Asked("rte", q, -(4 * k))
    <3>1. -(4 * k) - q \in {2, -2} => (-k) % 2 = 0
      BY <2>4
    <3>2. QED
      BY <2>4, <2>5, <3>1 DEF Asked
  <2>8. -k \in Int /\ -(4 * k) = Quarters(-k)
    BY DEF Quarters
  <2>9. QED
    BY <2>6, <2>7, <2>8
<1>5. QED
  BY <1>3, <1>4

LEMMA RoundedInt ==
  ASSUME NEW mode \in Modes, NEW vml \in BOOLEAN, NEW q \in Int
  PROVE  RoundedTo(mode, vml, q) \in Int
<1>1. CASE mode = "rtz"
  BY <1>1 DEF RoundedTo
<1>2. CASE mode # "rtz" /\ ~vml
  <2>1. Quarters(Neighbour(mode, q)) \in Int
    BY <1>2, NeighbourAsked DEF Modes, Quarters
  <2>2. QED
    BY <1>2, <2>1 DEF RoundedTo
<1>3. CASE mode = "rte" /\ vml
  <2> DEFINE offset == IF q < 0 THEN -Large ELSE Large
  <2>1. \A x \in Int : ToFloat(x) \in Int
    BY ToFloatNear, NearBy
  <2>2. offset \in Int /\ q + offset \in Int
    BY LargeIs
  <2> HIDE DEF offset
  <2>3. ToFloat(q + offset) - offset \in Int
    BY <2>1, <2>2
  <2>4. ToFloat(ToFloat(q + offset) - offset) \in Int
    BY <2>1, <2>3
  <2>5. RoundedTo(mode, vml, q) = RintByAdding(q)
    BY <1>3 DEF RoundedTo
  <2>6. QED
    BY <2>4, <2>5 DEF RintByAdding, offset
<1>4. CASE mode \in {"rtp", "rtn"} /\ vml
  <2>1. Quarters(Trunc(q)) \in Int /\ -q \in Int
    BY TruncAsked DEF Quarters
  <2>2. \A a \in Int : Quarters(Neighbour("rtp", a)) \in Int
    BY NeighbourAsked DEF Quarters
  <2>3. Antitrunc(q) \in Int
    BY <2>1, <2>2, LargeIs DEF Antitrunc
  <2>4. QED
    BY <1>4, <2>1, <2>3 DEF RoundedTo
<1>5. QED
  BY <1>1, <1>2, <1>3, <1>4 DEF Modes

\* The cast of the rounded float is the neighbour that is asked for.
LEMMA Rounding ==
  ASSUME NEW mode \in Modes, NEW vml \in BOOLEAN, NEW q \in Floats, ~Misrounded(mode, vml, q)
  PROVE  Asked(mode, q, Quarters(Trunc(RoundedTo(mode, vml, q))))
<1>1. q \in Int /\ Large \in Nat /\ Quarters(1) = 4
  BY FloatForm, LargeIs DEF Quarters
<1>2. CASE mode = "rtz"
  BY <1>1, <1>2, TruncAsked DEF RoundedTo
<1>3. CASE mode # "rtz" /\ ~vml
  <2>1. RoundedTo(mode, vml, q) = Quarters(Neighbour(mode, q))
    BY <1>3 DEF RoundedTo
  <2>2. mode \in {"rte", "rtp", "rtn"}
    BY <1>3 DEF Modes
  <2>3. QED
    BY <1>1, <2>1, <2>2, NeighbourAsked, TruncQuarters
<1>4. CASE mode = "rte" /\ vml
  <2>1. q < Large /\ -q < Large
    BY <1>1, <1>4 DEF Misrounded
  <2>2. RoundedTo(mode, vml, q) = RintByAdding(q)
    BY <1>4 DEF RoundedTo
  <2>3. QED
    BY <1>1, <1>4, <2>1, <2>2, RintAsked, TruncQuarters
<1>5. CASE mode = "rtp" /\ vml
  <2>1. CASE q < 0
    <3>1. RoundedTo(mode, vml, q) = Quarters(Trunc(q))
      BY <1>5, <2>1 DEF RoundedTo
    <3>2. Asked("rtp", q, Quarters(Trunc(q))) /\ Trunc(q) \in Int
      BY <1>1, <2>1 DEF Asked, Trunc, Quarters
    <3>3. QED
      BY <1>5, <3>1, <3>2, TruncQuarters
  <2>2. CASE q >= 0 /\ q <= Large - 4
    <3>1. RoundedTo(mode, vml, q) = Quarters(Neighbour("rtp", q))
      BY <1>1, <1>5, <2>2 DEF RoundedTo, Antitrunc
    <3>2. QED
      BY <1>1, <1>5, <3>1, NeighbourAsked, TruncQuarters
  <2>3. CASE q > Large - 4
    <3>1. q >= Large
      BY <1>1, <1>5, <2>3 DEF Misrounded
    <3>2. RoundedTo(mode, vml, q) = q
      BY <1>1, <1>5, <2>3, <3>1 DEF RoundedTo, Antitrunc
    <3>3. q % 4 = 0
      BY <3>1, LargeWhole
    <3>4. Quarters(Trunc(q)) = q
      BY <1>1, <3>1, <3>3 DEF Quarters, Trunc
    <3>5. Asked("rtp", q, q)
      BY <1>1 DEF Asked
    <3>6. QED
      BY <1>5, <3>2, <3>4, <3>5
  <2>4. QED
    BY <1>1, <2>1, <2>2, <2>3
<1>6. CASE mode = "rtn" /\ vml
  <2>1. CASE q >= 0
    <3>1. RoundedTo(mode, vml, q) = Quarters(Trunc(q))
      BY <1>1, <1>6, <2>1 DEF RoundedTo
    <3>2. Asked("rtn", q, Quarters(Trunc(q))) /\ Trunc(q) \in Int
      BY <1>1, <2>1 DEF Asked, Trunc, Quarters
    <3>3. QED
      BY <1>6, <3>1, <3>2, TruncQuarters
  <2>2. CASE q < 0 /\ -q <= Large - 4
    <3> DEFINE n == Neighbour("rtp", -q)
    <3>1. RoundedTo(mode, vml, q) = -Quarters(n)
      BY <1>1, <1>6, <2>2 DEF RoundedTo, Antitrunc
    <3>2. n \in Int /\ Asked("rtp", -q, Quarters(n))
      BY <1>1, NeighbourAsked
    <3> HIDE DEF n
    <3>3. -n \in Int /\ -Quarters(n) = Quarters(-n) /\ Asked("rtn", q, Quarters(-n))
      BY <1>1, <3>2 DEF Asked, Quarters
    <3>4. QED
      BY <1>6, <3>1, <3>3, TruncQuarters
  <2>3. CASE -q > Large - 4 /\ q < 0
    <3>1. -q >= Large
      BY <1>1, <1>6, <2>3 DEF Misrounded
    <3>2. RoundedTo(mode, vml, q) = q
      BY <1>1, <1>6, <2>3, <3>1 DEF RoundedTo, Antitrunc
    <3>3. q % 4 = 0
      BY <3>1, LargeWhole
    <3>4. Quarters(Trunc(q)) = q
      BY <1>1, <2>3, <3>3 DEF Quarters, Trunc
    <3>5. Asked("rtn", q, q)
      BY <1>1 DEF Asked
    <3>6. QED
      BY <1>6, <3>2, <3>4, <3>5
  <2>4. QED
    BY <1>1, <2>1, <2>2, <2>3
<1>7. QED
  BY <1>2, <1>3, <1>4, <1>5, <1>6 DEF Modes

LEMMA FloatSat ==
  ASSUME NEW t \in Types, FloatsReach, NEW mode \in Modes, NEW vml \in BOOLEAN, NEW q \in Int,
         NEW x \in convert_float_sat(t, mode, vml, q)
  PROVE  LET r == RoundedTo(mode, vml, q)
         IN  \/ x = Clamp(t, Trunc(r))
             \/ ~FloatHasGreatest(t) /\ r = ToFloat(Quarters(Greatest(t)))
<1> DEFINE r == RoundedTo(mode, vml, q)
           l == Least(t)
           g == Greatest(t)
           h == ToFloat(Quarters(g))
<1>1. r \in Int
  BY RoundedInt
<1>2. t \in AnyType /\ t.w \in Widths
  BY TypesAny DEF Types
<1>3. /\ t.w \in Nat \ {0} /\ l \in Int /\ g \in Int /\ l <= g
      /\ t.signed => l = -(2^(t.w - 1)) /\ g = 2^(t.w - 1) - 1
      /\ ~t.signed => l = 0 /\ g = 2^t.w - 1
      /\ \A y \in Int : y \in Values(t) <=> l <= y /\ y <= g
      /\ Values(t) \subseteq Int
  BY <1>2, TypeSize, ValuesOf
<1>4. t.w + 2 <= Exponents + Precision - 1 /\ Exponents \in Nat /\ Precision \in Nat /\ t.w # 1
  <2>1. PICK k \in 1..t.w : t.w = 2^k
    BY <1>2, WidthsAssumption
  <2>2. t.w >= 2
    BY <1>3, <2>1, PowerAtLeastTwo
  <2>3. QED
    BY <1>2, <2>2, PrecisionAssumption DEF FloatsReach
<1>5. ToFloat(Quarters(l)) = Quarters(l)
  <2>1. CASE t.signed
    <3>1. t.w - 1 \in Nat /\ (t.w - 1) + 1 = t.w /\ t.w + 1 \in Nat /\ t.w + 1 <= Exponents + Precision - 1
      BY <1>3, <1>4
    <3>2. 2^(t.w + 1) = 2 * 2^t.w /\ 2^t.w = 2 * 2^(t.w - 1) /\ 2^(t.w - 1) \in Nat
      BY <1>3, <3>1, PowerStep, PowerPositive
    <3>3. -(2^(t.w + 1)) \in Floats
      BY <3>1, PowerFloat
    <3>4. Quarters(l) = -(2^(t.w + 1))
      BY <1>3, <2>1, <3>2 DEF Quarters
    <3>5. QED
      BY <3>3, <3>4, ToFloatSame
  <2>2. CASE ~t.signed
    <3>1. Quarters(l) = 0
      BY <1>3, <2>2 DEF Quarters
    <3>2. QED
      BY <3>1, FloatForm, ToFloatSame
  <2>3. QED
    BY <2>1, <2>2
<1>6. h = Quarters(g) \/ h = Quarters(g) + 4
  <2>1. PICK n \in Nat \ {0} : g = 2^n - 1 /\ n <= t.w
    <3>1. CASE t.signed
      <4>1. t.w - 1 \in Nat \ {0} /\ t.w - 1 <= t.w
        BY <1>3, <1>4
      <4>2. QED
        BY <1>3, <3>1, <4>1
    <3>2. CASE ~t.signed
      BY <1>3, <3>2
    <3>3. QED
      BY <3>1, <3>2
  <2>2. n + 2 <= Exponents + Precision - 1
    BY <1>3, <1>4, <2>1
  <2>3. ToFloat(4 * (2^n - 1)) = 4 * (2^n - 1) \/ ToFloat(4 * (2^n - 1)) = 4 * 2^n
    BY <2>2, GreatestToFloat
  <2>4. Quarters(g) = 4 * (2^n - 1)
    BY <2>1 DEF Quarters
  <2>5. 4 * 2^n = 4 * (2^n - 1) + 4
    BY PowerPositive
  <2>6. QED
    BY <2>3, <2>4, <2>5
<1>7. PICK y \in FromFloat(t, r) : x = IF r > h THEN g ELSE IF r < Quarters(l) THEN l ELSE y
  BY <1>5 DEF convert_float_sat
<1> DEFINE c == Trunc(r)
<1>8. c \in Values(t) => y = c
  BY <1>7 DEF FromFloat
<1>9. /\ Quarters(l) = 4 * l /\ Quarters(g) = 4 * g /\ c \in Int
      /\ r >= 4 * l /\ l <= 0 => c >= l
      /\ r < 4 * g + 4 /\ g >= 0 => c <= g
      /\ r < 4 * l => c <= l
      /\ r > 4 * g => c >= g
  BY <1>1, <1>3 DEF Quarters, Trunc
<1>10. /\ c \in Values(t) => Clamp(t, c) = c
       /\ c < l => Clamp(t, c) = l
       /\ c > g => Clamp(t, c) = g
  BY <1>2, <1>9, ClampIs
<1>11. FloatHasGreatest(t) <=> h = Quarters(g)
  BY DEF FloatHasGreatest
<1>12. l <= 0 /\ g >= 0
  <2>1. 2^t.w \in Nat /\ 2^t.w >= 1 /\ t.w - 1 \in Nat
    BY <1>3, PowerPositive
  <2>2. 2^(t.w - 1) \in Nat /\ 2^(t.w - 1) >= 1
    BY <2>1, PowerPositive
  <2>3. QED
    BY <1>3, <2>1, <2>2
<1> SUFFICES x = Clamp(t, c) \/ (~FloatHasGreatest(t) /\ r = h)
  OBVIOUS
<1> HIDE DEF r, l, g, h, c
<1>13. CASE r < 4 * l
  BY <1>1, <1>3, <1>6, <1>7, <1>9, <1>10, <1>12, <1>13
<1>14. CASE r > h
  BY <1>1, <1>3, <1>6, <1>7, <1>9, <1>10, <1>12, <1>14
<1>15. CASE r = h /\ h # 4 * g
  BY <1>9, <1>11, <1>15
<1>16. CASE r >= 4 * l /\ r <= h /\ ~(r = h /\ h # 4 * g)
  <2>1. c \in Values(t)
    BY <1>1, <1>3, <1>6, <1>9, <1>12, <1>16
  <2>2. x = y
    BY <1>1, <1>3, <1>6, <1>7, <1>9, <1>16
  <2>3. QED
    BY <1>8, <1>10, <2>1, <2>2
<1>17. QED
  BY <1>1, <1>3, <1>6, <1>9, <1>13, <1>14, <1>15, <1>16
-----------------------------------------------------------------------------
(* The properties.                                                         *)

\* The calls.
LEMMA Calls ==
  ASSUME Next
  PROVE  \/ Return
         \/ \E t \in Types : \E a \in Values(t) : Unary(t, a)
         \/ \E t \in Types : \E a, b \in Values(t) : Binary(t, a, b)
         \/ \E t \in Types : \E a, b, c \in Values(t) : Ternary(t, a, b, c)
         \/ \E t, u \in Types : \E x \in Values(u) : Conversion(t, u, x)
         \/ \E t \in Types, mode \in Modes, vml \in BOOLEAN, q \in Floats :
              FloatConversion(t, mode, vml, q)
         \/ \E t \in Types, mode \in Modes : \E x \in Values(t) : ToFloatConversion(t, mode, x)
BY DEF Next

Saturating == {"add_sat", "sub_sat", "mad_sat", "convert_sat", "convert_float_sat"}

LEMMA SaturatesStep ==
  ASSUME FloatsReach, Next
  PROVE  Saturates'
<1>1. Types \subseteq AnyType
  BY TypesAny
<1>2. ASSUME fn' \notin Saturating PROVE Saturates'
  BY <1>2 DEF Saturates, Saturating
<1>3. CASE Return
  BY <1>2, <1>3 DEF Return, Saturating
<1>4. ASSUME NEW t \in Types, NEW a \in Values(t), Unary(t, a) PROVE Saturates'
  BY <1>2, <1>4 DEF Unary, Call, Saturating
<1>5. ASSUME NEW t \in Types, NEW a \in Values(t), NEW b \in Values(t), Binary(t, a, b)
      PROVE  Saturates'
  <2>1. CASE fn' = "add_sat"
    <3>1. type' = t /\ args' = <<a, b>> /\ result' = add_sat(t, a, b)
      BY <1>5, <2>1 DEF Binary, Call
    <3>2. result' = Clamp(t, a + b)
      BY <1>1, <3>1, AddSat
    <3>3. args'[1] = a /\ args'[2] = b
      BY <3>1
    <3>4. QED
      BY <2>1, <3>1, <3>2, <3>3 DEF Saturates
  <2>2. CASE fn' = "sub_sat"
    <3>1. type' = t /\ args' = <<a, b>> /\ result' = sub_sat(t, a, b)
      BY <1>5, <2>2 DEF Binary, Call
    <3>2. result' = Clamp(t, a - b)
      BY <1>1, <3>1, SubSat
    <3>3. args'[1] = a /\ args'[2] = b
      BY <3>1
    <3>4. QED
      BY <2>2, <3>1, <3>2, <3>3 DEF Saturates
  <2>3. CASE fn' \notin {"add_sat", "sub_sat"}
    BY <1>2, <1>5, <2>3 DEF Binary, Call, Saturating
  <2>4. QED
    BY <2>1, <2>2, <2>3
<1>6. ASSUME NEW t \in Types, NEW a \in Values(t), NEW b \in Values(t), NEW c \in Values(t),
             Ternary(t, a, b, c)
      PROVE  Saturates'
  <2>1. CASE fn' = "mad_sat"
    <3>1. type' = t /\ args' = <<a, b, c>> /\ result' = mad_sat(t, a, b, c)
      BY <1>6, <2>1 DEF Ternary, Call
    <3>2. result' = Clamp(t, a * b + c)
      BY <3>1, MadSat
    <3>3. args'[1] = a /\ args'[2] = b /\ args'[3] = c
      BY <3>1
    <3>4. QED
      BY <2>1, <3>1, <3>2, <3>3 DEF Saturates
  <2>2. CASE fn' # "mad_sat"
    BY <1>2, <1>6, <2>2 DEF Ternary, Call, Saturating
  <2>3. QED
    BY <2>1, <2>2
<1>7. ASSUME NEW t \in Types, NEW u \in Types, NEW x \in Values(u), Conversion(t, u, x)
      PROVE  Saturates'
  <2>1. fn' = "convert_sat" /\ type' = t /\ args' = <<x>> /\ result' = convert_sat(t, u, x)
    BY <1>7 DEF Conversion, Call
  <2>2. result' = Clamp(t, x)
    BY <1>1, <2>1, ConvertSat
  <2>3. QED
    BY <2>1, <2>2 DEF Saturates
<1>8. ASSUME NEW t \in Types, NEW mode \in Modes, NEW vml \in BOOLEAN, NEW q \in Floats,
             FloatConversion(t, mode, vml, q)
      PROVE  Saturates'
  <2>1. CASE fn' = "convert_float_sat"
    <3>1. type' = t /\ args' = <<mode, vml, q>> /\ result' \in convert_float_sat(t, mode, vml, q)
      BY <1>8, <2>1 DEF FloatConversion, Call
    <3>2. q \in Int
      BY FloatForm
    <3>3. \/ result' = Clamp(t, Trunc(RoundedTo(mode, vml, q)))
          \/ /\ ~FloatHasGreatest(t)
             /\ RoundedTo(mode, vml, q) = ToFloat(Quarters(Greatest(t)))
      BY <3>1, <3>2, FloatSat
    <3>4. args'[1] = mode /\ args'[2] = vml /\ args'[3] = q
      BY <3>1
    <3>5. QED
      BY <2>1, <3>1, <3>3, <3>4 DEF Saturates
  <2>2. CASE fn' # "convert_float_sat"
    BY <1>2, <1>8, <2>2 DEF FloatConversion, Call, Saturating
  <2>3. QED
    BY <2>1, <2>2
<1>9. ASSUME NEW t \in Types, NEW mode \in Modes, NEW x \in Values(t), ToFloatConversion(t, mode, x)
      PROVE  Saturates'
  BY <1>2, <1>9 DEF ToFloatConversion, Call, Saturating
<1>10. QED
  BY <1>3, <1>4, <1>5, <1>6, <1>7, <1>8, <1>9, Calls

Exactly == {"hadd", "rhadd", "abs", "abs_diff", "mul_hi", "mad_hi", "rotate", "clz",
            "popcount", "bitselect", "upsample"}

LEMMA ExactStep ==
  ASSUME Next
  PROVE  Exact'
<1>1. Types \subseteq AnyType
  BY TypesAny
<1>2. ASSUME fn' \notin Exactly PROVE Exact'
  BY <1>2 DEF Exact, Exactly
<1>3. CASE Return
  BY <1>2, <1>3 DEF Return, Exactly
<1>4. ASSUME NEW t \in Types, NEW a \in Values(t), Unary(t, a) PROVE Exact'
  <2>1. CASE fn' = "abs"
    <3>1. type' = t /\ args' = <<a>> /\ result' = abs(t, a)
      BY <1>4, <2>1 DEF Unary, Call
    <3>2. result' = Max2(a, -a)
      BY <1>1, <3>1, Abs
    <3>3. QED
      BY <2>1, <3>1, <3>2 DEF Exact
  <2>2. CASE fn' = "clz"
    <3>1. type' = t /\ args' = <<a>> /\ result' = clz(t, a)
      BY <1>4, <2>2 DEF Unary, Call
    <3>2. LET n == Cast(Unsigned(t), a)
          IN  n * 2^(result') < 2^t.w /\ (n > 0 => 2 * n * 2^(result') >= 2^t.w) /\ result' <= t.w
      BY <1>1, <3>1, Clz
    <3>3. QED
      BY <2>2, <3>1, <3>2 DEF Exact
  <2>3. CASE fn' = "popcount"
    <3>1. type' = t /\ args' = <<a>> /\ result' = popcount(t, a)
      BY <1>4, <2>3 DEF Unary, Call
    <3>2. result' + Cardinality(Bits(t, -1 - a)) = t.w
      BY <1>1, <3>1, Popcount
    <3>3. QED
      BY <2>3, <3>1, <3>2 DEF Exact
  <2>4. QED
    BY <1>4, <2>1, <2>2, <2>3 DEF Unary, Call
<1>5. ASSUME NEW t \in Types, NEW a \in Values(t), NEW b \in Values(t), Binary(t, a, b)
      PROVE  Exact'
  <2>1. CASE fn' = "hadd"
    <3>1. type' = t /\ args' = <<a, b>> /\ result' = hadd(t, a, b)
      BY <1>5, <2>1 DEF Binary, Call
    <3>2. result' = (a + b) \div 2
      BY <1>1, <3>1, Hadd
    <3>3. args'[1] = a /\ args'[2] = b
      BY <3>1
    <3>4. QED
      BY <2>1, <3>1, <3>2, <3>3 DEF Exact
  <2>2. CASE fn' = "rhadd"
    <3>1. type' = t /\ args' = <<a, b>> /\ result' = rhadd(t, a, b)
      BY <1>5, <2>2 DEF Binary, Call
    <3>2. result' = (a + b + 1) \div 2
      BY <1>1, <3>1, Rhadd
    <3>3. args'[1] = a /\ args'[2] = b
      BY <3>1
    <3>4. QED
      BY <2>2, <3>1, <3>2, <3>3 DEF Exact
  <2>3. CASE fn' = "abs_diff"
    <3>1. type' = t /\ args' = <<a, b>> /\ result' = abs_diff(t, a, b)
      BY <1>5, <2>3 DEF Binary, Call
    <3>2. result' = Max2(a - b, b - a)
      BY <1>1, <3>1, AbsDiff
    <3>3. args'[1] = a /\ args'[2] = b
      BY <3>1
    <3>4. QED
      BY <2>3, <3>1, <3>2, <3>3 DEF Exact
  <2>4. CASE fn' = "mul_hi"
    <3>1. type' = t /\ args' = <<a, b>> /\ result' = mul_hi(t, a, b)
      BY <1>5, <2>4 DEF Binary, Call
    <3>2. result' = (a * b) \div 2^t.w
      BY <3>1, MulHi
    <3>3. args'[1] = a /\ args'[2] = b
      BY <3>1
    <3>4. QED
      BY <2>4, <3>1, <3>2, <3>3 DEF Exact
  <2>5. CASE fn' = "rotate"
    <3>1. type' = t /\ args' = <<a, b>> /\ result' = rotate(t, a, b)
      BY <1>5, <2>5 DEF Binary, Call
    <3>2. \A i \in 0..(t.w - 1) : i \in Bits(t, result') <=> (i - b) % t.w \in Bits(t, a)
      BY <1>1, <3>1, Rotate
    <3>3. args'[1] = a /\ args'[2] = b
      BY <3>1
    <3>4. QED
      BY <2>5, <3>1, <3>2, <3>3 DEF Exact
  <2>6. CASE fn' = "upsample"
    <3> DEFINE d == Cast(Unsigned(t), b)
    <3>1. type' = t /\ args' = <<a, d>> /\ result' = upsample(t, a, d)
      BY <1>5, <2>6 DEF Binary, Call
    <3>2. d \in Values(Unsigned(t))
      BY <1>1, UnsignedType, ValuesOf, CastValue
    <3> HIDE DEF d
    <3>3. result' = a * 2^t.w + d
      BY <1>1, <3>1, <3>2, Upsample
    <3>4. args'[1] = a /\ args'[2] = d
      BY <3>1
    <3>5. QED
      BY <2>6, <3>1, <3>3, <3>4 DEF Exact
  <2>7. CASE fn' \in {"add_sat", "sub_sat", "mul24"}
    BY <1>2, <2>7 DEF Exactly
  <2>8. QED
    BY <1>5, <2>1, <2>2, <2>3, <2>4, <2>5, <2>6, <2>7 DEF Binary, Call
<1>6. ASSUME NEW t \in Types, NEW a \in Values(t), NEW b \in Values(t), NEW c \in Values(t),
             Ternary(t, a, b, c)
      PROVE  Exact'
  <2>1. CASE fn' = "mad_hi"
    <3>1. type' = t /\ args' = <<a, b, c>> /\ result' = mad_hi(t, a, b, c)
      BY <1>6, <2>1 DEF Ternary, Call
    <3>2. result' = Cast(t, (a * b) \div 2^t.w + c)
      BY <3>1, MulHi DEF mad_hi
    <3>3. args'[1] = a /\ args'[2] = b /\ args'[3] = c
      BY <3>1
    <3>4. QED
      BY <2>1, <3>1, <3>2, <3>3 DEF Exact
  <2>2. CASE fn' = "bitselect"
    <3>1. type' = t /\ args' = <<a, b, c>> /\ result' = bitselect(t, a, b, c)
      BY <1>6, <2>2 DEF Ternary, Call
    <3>2. \A i \in 0..(t.w - 1) :
            i \in Bits(t, result') <=> i \in Bits(t, IF i \in Bits(t, c) THEN b ELSE a)
      BY <1>1, <3>1, Bitselect
    <3>3. args'[1] = a /\ args'[2] = b /\ args'[3] = c
      BY <3>1
    <3>4. QED
      BY <2>2, <3>1, <3>2, <3>3 DEF Exact
  <2>3. CASE fn' \in {"mad_sat", "mad24"}
    BY <1>2, <2>3 DEF Exactly
  <2>4. QED
    BY <1>6, <2>1, <2>2, <2>3 DEF Ternary, Call
<1>7. ASSUME NEW t \in Types, NEW u \in Types, NEW x \in Values(u), Conversion(t, u, x)
      PROVE  Exact'
  BY <1>2, <1>7 DEF Conversion, Call, Exactly
<1>8. ASSUME NEW t \in Types, NEW mode \in Modes, NEW vml \in BOOLEAN, NEW q \in Floats,
             FloatConversion(t, mode, vml, q)
      PROVE  Exact'
  BY <1>2, <1>8 DEF FloatConversion, Call, Exactly
<1>9. ASSUME NEW t \in Types, NEW mode \in Modes, NEW x \in Values(t), ToFloatConversion(t, mode, x)
      PROVE  Exact'
  BY <1>2, <1>9 DEF ToFloatConversion, Call, Exactly
<1>10. QED
  BY <1>3, <1>4, <1>5, <1>6, <1>7, <1>8, <1>9, Calls

LEMMA RoundsStep ==
  ASSUME Next
  PROVE  Rounds'
<1>1. Types \subseteq AnyType
  BY TypesAny
<1>2. ASSUME fn' \notin {"convert_float_to", "convert_to_float"} PROVE Rounds'
  BY <1>2 DEF Rounds
<1>3. CASE Return
  BY <1>2, <1>3 DEF Return
<1>4. ASSUME NEW t \in Types, NEW a \in Values(t), Unary(t, a) PROVE Rounds'
  BY <1>2, <1>4 DEF Unary, Call
<1>5. ASSUME NEW t \in Types, NEW a \in Values(t), NEW b \in Values(t), Binary(t, a, b)
      PROVE  Rounds'
  BY <1>2, <1>5 DEF Binary, Call
<1>6. ASSUME NEW t \in Types, NEW a \in Values(t), NEW b \in Values(t), NEW c \in Values(t),
             Ternary(t, a, b, c)
      PROVE  Rounds'
  BY <1>2, <1>6 DEF Ternary, Call
<1>7. ASSUME NEW t \in Types, NEW u \in Types, NEW x \in Values(u), Conversion(t, u, x)
      PROVE  Rounds'
  BY <1>2, <1>7 DEF Conversion, Call
<1>8. ASSUME NEW t \in Types, NEW mode \in Modes, NEW vml \in BOOLEAN, NEW q \in Floats,
             FloatConversion(t, mode, vml, q)
      PROVE  Rounds'
  <2>1. CASE fn' = "convert_float_to"
    <3> DEFINE r == RoundedTo(mode, vml, q)
    <3>1. type' = t /\ args' = <<mode, vml, q>> /\ result' \in FromFloat(t, r)
      BY <1>8, <2>1 DEF FloatConversion, Call, convert_float_to
    <3>2. args'[1] = mode /\ args'[2] = vml /\ args'[3] = q
      BY <3>1
    <3>3. CASE Misrounded(mode, vml, q) \/ Trunc(r) \notin Values(t)
      BY <2>1, <3>1, <3>2, <3>3 DEF Rounds, Misrounded
    <3>4. CASE ~Misrounded(mode, vml, q) /\ Trunc(r) \in Values(t)
      <4>1. result' = Trunc(r)
        BY <3>1, <3>4 DEF FromFloat
      <4>2. Asked(mode, q, Quarters(result'))
        BY <3>4, <4>1, Rounding
      <4>3. result' \in Int /\ Quarters(result') \div 4 = result'
        <5>1. r \in Int
          BY FloatForm, RoundedInt
        <5>2. Trunc(r) \in Int
          BY <5>1, TruncAsked
        <5>3. QED
          BY <4>1, <5>2 DEF Quarters
      <4>4. QED
        BY <2>1, <3>2, <4>2, <4>3 DEF Rounds, Asked
    <3>5. QED
      BY <3>3, <3>4
  <2>2. CASE fn' # "convert_float_to"
    BY <1>2, <1>8, <2>2 DEF FloatConversion, Call
  <2>3. QED
    BY <2>1, <2>2
<1>9. ASSUME NEW t \in Types, NEW mode \in Modes, NEW x \in Values(t), ToFloatConversion(t, mode, x)
      PROVE  Rounds'
  <2>1. /\ fn' = "convert_to_float" /\ type' = t /\ args' = <<mode, x>>
        /\ result' \in convert_to_float(t, mode, x)
    BY <1>9 DEF ToFloatConversion, Call
  <2>2. args'[1] = mode /\ args'[2] = x
    BY <2>1
  <2>3. CASE mode # "rte"
    BY <2>1, <2>2, <2>3 DEF Rounds
  <2>4. CASE mode = "rte"
    <3> DEFINE q == Quarters(x)
    <3>1. q \in Int
      BY <1>1, ValuesOf DEF Quarters
    <3>2. result' = ToFloat(q)
      BY <2>1, <2>4 DEF convert_to_float
    <3> HIDE DEF q
    <3>3. result' \in Near(q)
      BY <3>1, <3>2, ToFloatNear
    <3>4. result' \in Floats /\ \A p \in Floats : Distance(result', q) <= Distance(p, q)
      BY <3>1, <3>3, NearIs
    <3>5. \A p \in Floats : Distance(p, q) = Max2(p - q, q - p)
      <4>1. \A p \in Floats : p \in Int
        BY FloatForm
      <4>2. QED
        BY <3>1, <4>1 DEF Distance, Max2
    <3>6. \A p \in Floats : Max2(result' - q, q - result') <= Max2(p - q, q - p)
      BY <3>4, <3>5
    <3>7. QED
      BY <2>1, <2>2, <2>4, <3>6 DEF Rounds, q
  <2>5. QED
    BY <2>3, <2>4
<1>10. QED
  BY <1>3, <1>4, <1>5, <1>6, <1>7, <1>8, <1>9, Calls

\* No saturating function of add_sat.cl, sub_sat.cl, mad_sat.cl and convert_type.cl
\* wraps around, in any type: whatever the arguments, the result is the exact one
\* or the end of the type it is beyond.
THEOREM NoWrapAround ==
  ASSUME FloatsReach
  PROVE  Spec => []Saturates
<1>1. Init => Saturates
  BY DEF Init, Saturates
<1>2. Saturates /\ [Next]_vars => Saturates'
  <2> SUFFICES ASSUME Saturates, [Next]_vars PROVE Saturates'
    OBVIOUS
  <2>1. CASE Next
    BY <2>1, SaturatesStep
  <2>2. CASE UNCHANGED vars
    BY <2>2 DEF Saturates, vars
  <2>3. QED
    BY <2>1, <2>2
<1>3. QED
  BY <1>1, <1>2, PTL DEF Spec

\* The functions that work in parts to stay within a type (hadd.cl, rhadd.cl,
\* abs_diff.cl, mul_hi.cl) and the ones on bits (rotate.cl, clz.cl, popcount.cl,
\* bitselect.cl, upsample.cl) are exact in any type.
THEOREM PartsAreExact == Spec => []Exact
<1>1. Init => Exact
  BY DEF Init, Exact
<1>2. Exact /\ [Next]_vars => Exact'
  <2> SUFFICES ASSUME Exact, [Next]_vars PROVE Exact'
    OBVIOUS
  <2>1. CASE Next
    BY <2>1, ExactStep
  <2>2. CASE UNCHANGED vars
    BY <2>2 DEF Exact, vars
  <2>3. QED
    BY <2>1, <2>2
<1>3. QED
  BY <1>1, <1>2, PTL DEF Spec

\* The conversions with a rounding mode (convert_type.cl) return the neighbour the
\* mode asks for, through an instruction's rint, ceil and floor for every float,
\* through vecmathlib's for all but the ones of Misrounded: below 2^mantissa_bits
\* adding and taking away that number rounds to nearest even.  An integer becomes
\* the nearest float, for significands of any length.
THEOREM RoundsAsAsked == Spec => []Rounds
<1>1. Init => Rounds
  BY DEF Init, Rounds
<1>2. Rounds /\ [Next]_vars => Rounds'
  <2> SUFFICES ASSUME Rounds, [Next]_vars PROVE Rounds'
    OBVIOUS
  <2>1. CASE Next
    BY <2>1, RoundsStep
  <2>2. CASE UNCHANGED vars
    BY <2>2 DEF Rounds, vars
  <2>3. QED
    BY <2>1, <2>2
<1>3. QED
  BY <1>1, <1>2, PTL DEF Spec
=============================================================================
