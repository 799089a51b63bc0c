----------------------------- MODULE FloatMath -----------------------------
(***************************************************************************)
(* The functions of vecmathlib (lib/kernel/vecmathlib/mathfuncs_*.h) that  *)
(* take a floating-point number apart: they work on its bits (as_int), and *)
(* round by adding numbers that are too large for the mantissa.            *)
(*                                                                         *)
(* A number is its bit pattern, as an unsigned integer: sign, exponent and *)
(* mantissa as in the code, with fewer bits.  Its value is counted in the  *)
(* smallest positive number.  One component of a vector is modelled here;  *)
(* VectorMath applies the functions to vectors.                            *)
(***************************************************************************)
EXTENDS Integers

CONSTANTS
  mantissa_bits,  \* bound: 23 and 52 in the code
  exponent_bits   \* bound: 8 and 11 in the code

\* 2^(mantissa_bits + 1) is a number of the format.
ASSUME FormatAssumption ==
  /\ mantissa_bits \in Nat \ {0, 1} /\ exponent_bits \in Nat \ {0, 1}
  /\ mantissa_bits + 1 <= 2^(exponent_bits - 1) - 1

\* floatprops.
bits == 1 + exponent_bits + mantissa_bits
signbit_mask == 2^(bits - 1)
exponent_offset == 2^(exponent_bits - 1) - 1
exponent_max == 2^exponent_bits - 1
int_min == -(2^(bits - 1))
int_max == 2^(bits - 1) - 1

Patterns == 0..(2^bits - 1)

Sign(x) == x \div signbit_mask
Magnitude(x) == x % signbit_mask
Exponent(x) == Magnitude(x) \div 2^mantissa_bits
Mantissa(x) == x % 2^mantissa_bits

\* The pattern as int_t.
AsInt(x) == IF x > int_max THEN x - 2^bits ELSE x
-----------------------------------------------------------------------------
(* The arithmetic of the processor: IEEE, round to nearest, ties to even.  *)

Infinity == exponent_max * 2^mantissa_bits
NaN == Infinity + 1

\* The value of a magnitude; that of Infinity is where numbers are too large.
ValueOf(m) == IF Exponent(m) = 0 THEN m
              ELSE (2^mantissa_bits + Mantissa(m)) * 2^(Exponent(m) - 1)
Value(x) == IF Sign(x) = 1 THEN -ValueOf(Magnitude(x)) ELSE ValueOf(x)

One == exponent_offset * 2^mantissa_bits
Unit == ValueOf(One)

IsNaN(x) == Magnitude(x) > Infinity
IsInf(x) == Magnitude(x) = Infinity

Negated(x) == (x + signbit_mask) % 2^bits
WithSign(m, s) == IF s = 1 THEN m + signbit_mask ELSE m

\* The magnitude nearest to v / d, and to v.
NearestQuotient(v, d) ==
  LET below == CHOOSE m \in 0..Infinity :
                 ValueOf(m) * d <= v /\ (m < Infinity => v < ValueOf(m + 1) * d)
      up == ValueOf(below + 1) * d - v
      down == v - ValueOf(below) * d
  IN  IF below = Infinity \/ down < up \/ (down = up /\ below % 2 = 0) THEN below ELSE below + 1

Nearest(v) == NearestQuotient(v, 1)

Number(v) == IF v < 0 THEN WithSign(Nearest(-v), 1) ELSE Nearest(v)

Plus(x, y) ==
  IF IsNaN(x) \/ IsNaN(y) \/ (IsInf(x) /\ IsInf(y) /\ Sign(x) # Sign(y)) THEN NaN
  ELSE IF IsInf(x) THEN x
  ELSE IF IsInf(y) THEN y
  ELSE IF Value(x) + Value(y) = 0 THEN WithSign(0, IF Sign(x) = 1 /\ Sign(y) = 1 THEN 1 ELSE 0)
  ELSE Number(Value(x) + Value(y))

Minus(x, y) == Plus(x, Negated(y))

Less(x, y) == ~IsNaN(x) /\ ~IsNaN(y) /\ Value(x) < Value(y)
Equal(x, y) == ~IsNaN(x) /\ ~IsNaN(y) /\ Value(x) = Value(y)
-----------------------------------------------------------------------------
(* mathfuncs_fabs.h, with VML_HAVE_INF and VML_HAVE_NAN.                   *)

vml_copysign(x, y) == WithSign(Magnitude(x), Sign(y))
vml_fabs(x) == Magnitude(x)
vml_signbit(x) == Sign(x) = 1

vml_isfinite(x) == Exponent(x) # exponent_max
vml_isinf(x) == Magnitude(x) = exponent_max * 2^mantissa_bits
vml_isnan(x) == Exponent(x) = exponent_max /\ Mantissa(x) # 0
vml_isnormal(x) == Exponent(x) # exponent_max /\ Exponent(x) # 0

vml_fmax(x, y) == IF Less(x, y) THEN y ELSE x
vml_fmin(x, y) == IF Less(y, x) THEN y ELSE x

vml_ilogb(x) ==
  IF vml_isnan(x) THEN int_min
  ELSE IF vml_isinf(x) THEN int_max
  ELSE IF Exponent(x) = 0 THEN int_min
  ELSE Exponent(x) - exponent_offset

vml_ldexp(x, n) ==
  IF Exponent(x) = 0 THEN x ELSE (x + n * 2^mantissa_bits) % 2^bits
-----------------------------------------------------------------------------
(* mathfuncs_convert.h.                                                    *)

\* ldexp(R(1.0), FP::mantissa_bits): from here on a number is an integer.
TooLarge == vml_ldexp(One, mantissa_bits)

\* Sign, exponent and the mantissa bits of x that mask has too.
Masked(x, mask) ==
  LET kept == {i \in 0..(mantissa_bits - 1) : /\ (Mantissa(mask) \div 2^i) % 2 = 1
                                              /\ (Mantissa(x) \div 2^i) % 2 = 1}
      sum[i \in 0..mantissa_bits] ==
        IF i = 0 THEN 0 ELSE sum[i - 1] + (IF i - 1 \in kept THEN 2^(i - 1) ELSE 0)
  IN  x - Mantissa(x) + sum[mantissa_bits]

\* ldexp(RV(2.0), nbits) - RV(1.0)
IntegerBits(x) == Minus(vml_ldexp(vml_ldexp(One, 1), vml_ilogb(x)), One)

vml_trunc(x) ==
  LET a == vml_fabs(x)
  IN  vml_copysign(IF Less(a, One) THEN 0
                   ELSE IF ~IsNaN(a) /\ ~Less(a, TooLarge) THEN a
                   ELSE Masked(a, IntegerBits(a)), x)

\* Mistaken form: the sum is masked without the offset.
vml_antitrunc_short(x) ==
  LET a == vml_fabs(x)
  IN  vml_copysign(IF Equal(a, 0) THEN 0
                   ELSE IF ~Less(One, a) /\ ~IsNaN(a) THEN One
                   ELSE IF Less(Minus(TooLarge, One), a) THEN a
                   ELSE Masked(Plus(a, One), IntegerBits(a)), x)

vml_antitrunc(x) ==
  LET a == vml_fabs(x)
      offset == Minus(One, vml_ldexp(One, vml_ilogb(a) - mantissa_bits))
  IN  vml_copysign(IF Equal(a, 0) THEN 0
                   ELSE IF ~Less(One, a) /\ ~IsNaN(a) THEN One
                   ELSE IF Less(Minus(TooLarge, One), a) THEN a
                   ELSE Masked(Plus(a, offset), IntegerBits(a)), x)

vml_ceil(x) == IF Less(x, 0) THEN vml_trunc(x) ELSE vml_antitrunc(x)
vml_floor(x) == IF Less(x, 0) THEN vml_antitrunc(x) ELSE vml_trunc(x)

vml_rint(x) ==
  LET offset == vml_copysign(TooLarge, x) IN Minus(Plus(x, offset), offset)

vml_round(x) == vml_trunc(Plus(x, vml_copysign(vml_ldexp(One, -1), x)))
=============================================================================
