--------------------------- MODULE KernelLibrary ---------------------------
(***************************************************************************)
(* The integer functions and the conversions of the kernel library         *)
(* (lib/kernel/*.cl): arithmetic that must not overflow on the way, on     *)
(* integers of every width, signed and unsigned.                           *)
(*                                                                         *)
(* A vector function applies the scalar one to each component, so one      *)
(* component is modelled.  Every operation is done in the type itself and  *)
(* wraps around (Cast).  C computes in int for the narrow scalar types:    *)
(* as the properties say that the results are exact, that is no difference.*)
(***************************************************************************)
EXTENDS Integers, FiniteSets

CONSTANTS
  Widths,     \* bound: the widths of the types (8 to 64 in the code)
  Precision,  \* bound: the bits of a significand (24 and 53 in the code)
  Exponents   \* bound: the largest exponent of a float

ASSUME WidthsAssumption == \A w \in Widths : w \in Nat /\ \E k \in 1..w : w = 2^k
\* The largest float is so large that adding 2^(Precision - 1) does not change it.
ASSUME PrecisionAssumption ==
  Precision \in Nat \ {0, 1} /\ Exponents \in Nat /\ Exponents >= Precision + 3

VARIABLES fn,     \* the function that is called, or "none"
          type,   \* its gtype
          args,   \* its arguments
          result

vars == <<fn, type, args, result>>

\* sgtype: a width, and (sgtype)-1 < (sgtype)0.
Types == [w : Widths, signed : BOOLEAN]

Least(t) == IF t.signed THEN -(2^(t.w - 1)) ELSE 0
Greatest(t) == IF t.signed THEN 2^(t.w - 1) - 1 ELSE 2^t.w - 1
Values(t) == Least(t)..Greatest(t)

Unsigned(t) == [t EXCEPT !.signed = FALSE]

\* The value of type t with the bits of the integer x.
Cast(t, x) == LET m == x % 2^t.w IN IF m > Greatest(t) THEN m - 2^t.w ELSE m

SignsDiffer(a, b) == (a < 0) # (b < 0)

\* The bits of x that are set.
Bits(t, x) == {i \in 0..(t.w - 1) : ((x % 2^t.w) \div 2^i) % 2 = 1}
OfBits(t, B) == CHOOSE x \in Values(t) : Bits(t, x) = B
-----------------------------------------------------------------------------
\* Mistaken form: the sum is compared with the limit.
add_sat_late(t, a, b) ==
  LET max == Greatest(t)
  IN  IF Cast(t, a + b) > max THEN max ELSE Cast(t, a + b)

add_sat(t, a, b) ==
  LET min == Cast(t, 2^(t.w - 1))
      max == IF t.signed THEN Cast(t, min - 1) ELSE Cast(t, -1)
  IN  IF t.signed /\ SignsDiffer(a, b) THEN Cast(t, a + b)
      ELSE IF ~t.signed \/ a >= 0 THEN IF a > Cast(t, max - b) THEN max ELSE Cast(t, a + b)
      ELSE IF a < Cast(t, min - b) THEN min ELSE Cast(t, a + b)

sub_sat(t, a, b) ==
  LET min == IF t.signed THEN Cast(t, 2^(t.w - 1)) ELSE 0
      max == Cast(t, min - 1)
  IN  IF t.signed /\ ~SignsDiffer(a, b) THEN Cast(t, a - b)
      ELSE IF t.signed /\ a >= 0 THEN IF a > Cast(t, max + b) THEN max ELSE Cast(t, a - b)
      ELSE IF a < Cast(t, min + b) THEN min ELSE Cast(t, a - b)

hadd(t, a, b) == Cast(t, (a \div 2) + (b \div 2) + (a % 2) * (b % 2))

rhadd(t, a, b) ==
  Cast(t, (a \div 2) + (b \div 2) + (IF a % 2 = 1 \/ b % 2 = 1 THEN 1 ELSE 0))

abs(t, a) == Cast(Unsigned(t), IF a >= 0 THEN a ELSE Cast(t, -a))

\* Mistaken form: the one abs_diff.cl has in a comment.
abs_diff_plain(t, a, b) == abs(t, Cast(t, a - b))

abs_diff(t, a, b) ==
  IF t.signed THEN IF SignsDiffer(a, b) THEN Cast(Unsigned(t), abs(t, a) + abs(t, b))
                   ELSE abs(t, Cast(t, a - b))
  ELSE abs(t, IF a > b THEN Cast(t, a - b) ELSE Cast(t, b - a))

\* SHI, SLO, SHI1 and their unsigned forms.
Half(t) == 2^(t.w \div 2)
Hi(t, x) == x \div Half(t)
Lo(t, x) == x % Half(t)
Hi1(t, x) == x \div (Half(t) \div 2)

\* The carry of the middle products into the high half.
Middle(t, x, y) == Hi1(t, hadd(t, x, y))

mul_hi(t, a, b) ==
  LET albl == Cast(Unsigned(t), Lo(t, a) * Lo(t, b))
  IN  Cast(t, Cast(t, Hi(t, a) * Hi(t, b))
              + Middle(t, Cast(t, Hi(t, a) * Lo(t, b)),
                          Cast(t, Cast(t, Lo(t, a) * Hi(t, b)) + Hi(t, albl))))

mad_hi(t, a, b, c) == Cast(t, mul_hi(t, a, b) + c)

mad_sat(t, a, b, c) ==
  LET albl == Cast(Unsigned(t), Lo(t, a) * Lo(t, b))
      alblcl == Cast(Unsigned(t), albl + Lo(t, c))
      ahbl == Cast(t, Hi(t, a) * Lo(t, b))
      albh == Cast(t, Lo(t, a) * Hi(t, b))
      abcl == Cast(t, Cast(t, (ahbl + albh + Hi(t, c)) * Half(t)) + alblcl)
      abch == Cast(t, Cast(t, Hi(t, a) * Hi(t, b))
                      + Middle(t, Cast(t, ahbl + Hi(t, c)), Cast(t, albh + Hi(t, alblcl))))
      fits == IF t.signed THEN abch = (IF abcl >= 0 THEN 0 ELSE -1) ELSE abch = 0
  IN  IF fits THEN abcl ELSE IF abch >= 0 THEN Greatest(t) ELSE Least(t)

mul24(t, a, b) == Cast(t, a * b)
mad24(t, a, b, c) == Cast(t, a * b + c)
-----------------------------------------------------------------------------
\* Mistaken form: the count is not reduced to the width.
rotate_wide(t, a, b) ==
  LET count == b % (2 * t.w)
      left == {i + count : i \in Bits(t, a)} \cap 0..(t.w - 1)
      right == {i - ((-count) % t.w) : i \in Bits(t, a)} \cap 0..(t.w - 1)
  IN  OfBits(t, left \cup right)

\* a << (b & mask) | (unsigned)a >> (-b & mask); the width is a power of two.
rotate(t, a, b) ==
  LET left == {i + (b % t.w) : i \in Bits(t, a)} \cap 0..(t.w - 1)
      right == {i - ((-b) % t.w) : i \in Bits(t, a)} \cap 0..(t.w - 1)
  IN  OfBits(t, left \cup right)

\* A type is widened first, as the char types are (__builtin_clz0uhh); with a wider
\* type, clz of the type itself is the same number.
clz(t, a) ==
  LET wide == [w |-> 2 * t.w, signed |-> FALSE]
      n == Cast(Unsigned(t), a)
      top == {i \in Bits(wide, n) : \A j \in Bits(wide, n) : j <= i}
  IN  (IF n = 0 THEN wide.w ELSE wide.w - 1 - (CHOOSE i \in top : TRUE)) - t.w

popcount(t, a) == Cardinality(Bits(t, a))

bitselect(t, a, b, c) ==
  OfBits(t, (Bits(t, a) \ Bits(t, c)) \cup (Bits(t, c) \cap Bits(t, b)))

\* upsample(a, b): b is unsigned, the result twice as wide.
upsample(t, a, b) ==
  LET long == [t EXCEPT !.w = 2 * @]
      high == {i + t.w : i \in Bits(long, a)} \cap 0..(long.w - 1)
  IN  OfBits(long, high \cup Bits(long, b))
-----------------------------------------------------------------------------
(* Conversions.  A float is an integer, counted in quarters: the multiples *)
(* of a power of two with Precision significant bits.                      *)

Quarters(x) == 4 * x

Significands == 0..(2^Precision - 1)
Floats == {s * m * 2^e : s \in {-1, 1}, m \in Significands, e \in 0..Exponents}

\* The cast of an integer to float: the nearest one, to even when tied.
Near(q) == {r \in Floats : \A p \in Floats : (IF r > q THEN r - q ELSE q - r)
                                          <= (IF p > q THEN p - q ELSE q - p)}
OddSignificand(r) == \E m \in Significands, e \in 0..Exponents :
                       /\ m % 2 = 1 /\ (r = m * 2^e \/ r = -(m * 2^e))
                       /\ m >= 2^(Precision - 1) \/ e = 0
ToFloat(q) == IF Cardinality(Near(q)) = 1 THEN CHOOSE r \in Near(q) : TRUE
              ELSE CHOOSE r \in Near(q) : ~OddSignificand(r)

Trunc(q) == IF q >= 0 THEN q \div 4 ELSE -((-q) \div 4)

\* rint, ceil and floor, as an instruction or libm has them.
Neighbour(mode, q) ==
  CASE mode = "rtp" -> -((-q) \div 4)
    [] mode = "rtn" -> q \div 4
    [] mode = "rte" -> LET down == q \div 4 IN
                       IF q % 4 < 2 \/ (q % 4 = 2 /\ down % 2 = 0) THEN down ELSE down + 1

\* 2^mantissa_bits: from here on a float is an integer.
Large == Quarters(2^(Precision - 1))

\* vml_rint: a large number is added and taken away.
RintByAdding(q) ==
  LET offset == IF q < 0 THEN -Large ELSE Large
  IN  ToFloat(ToFloat(q + offset) - offset)

\* vml_antitrunc: the next integer away from zero, up to Large - 1.
Antitrunc(q) ==
  LET a == IF q < 0 THEN -q ELSE q
      r == IF a > Large - Quarters(1) THEN a ELSE Quarters(Neighbour("rtp", a))
  IN  IF q < 0 THEN -r ELSE r

\* Mistaken form: the nearest is found by adding a half.
RoundedHalfUp(mode, vml, q) ==
  IF mode = "rte" THEN Quarters((q + 2) \div 4)
  ELSE IF mode = "rtz" THEN q ELSE Quarters(Neighbour(mode, q))

\* The float the mode makes of a float before the cast: rint, ceil or floor of
\* it, from vecmathlib where vml says so (SSE2, NEON), or nothing for _rtz.
RoundedTo(mode, vml, q) ==
  CASE mode = "rtz" -> q
    [] mode # "rtz" /\ ~vml -> Quarters(Neighbour(mode, q))
    [] mode = "rte" /\ vml -> RintByAdding(q)
    [] mode = "rtp" /\ vml -> IF q < 0 THEN Quarters(Trunc(q)) ELSE Antitrunc(q)
    [] mode = "rtn" /\ vml -> IF q < 0 THEN Antitrunc(q) ELSE Quarters(Trunc(q))

\* (t)x for a float x: undefined when the value does not fit.
FromFloat(t, q) == IF Trunc(q) \in Values(t) THEN {Trunc(q)} ELSE Values(t)

\* convert_<t>(u x), and with a rounding mode: the float is rounded first.
convert(t, x) == Cast(t, x)

convert_float_to(t, mode, vml, q) == FromFloat(t, RoundedTo(mode, vml, q))

\* convert_<t>_sat(u x).
Max2(a, b) == IF a >= b THEN a ELSE b
Min2(a, b) == IF a <= b THEN a ELSE b

convert_sat(t, u, x) ==
  LET low == IF u.signed /\ (~t.signed \/ t.w < u.w) THEN Max2(x, Cast(u, Least(t))) ELSE x
      high == IF t.w < u.w \/ (t.w = u.w /\ t.signed /\ ~u.signed)
              THEN Min2(low, Cast(u, Greatest(t))) ELSE low
  IN  convert(t, high)

\* convert_<t>_sat of a float, after the rounding.
convert_float_sat(t, mode, vml, q) ==
  LET x == RoundedTo(mode, vml, q)
      chosen(y) == IF x > ToFloat(Quarters(Greatest(t))) THEN Greatest(t)
                   ELSE IF x < ToFloat(Quarters(Least(t))) THEN Least(t) ELSE y
  IN  {chosen(y) : y \in FromFloat(t, x)}

\* convert_float_<mode>(t x).  y is read before it has a value.
nextafter(r, up) ==
  IF up THEN CHOOSE n \in {p \in Floats : p > r} : \A p \in Floats : p > r => n <= p
  ELSE CHOOSE n \in {p \in Floats : p < r} : \A p \in Floats : p < r => n >= p

convert_to_float(t, mode, x) ==
  LET r == ToFloat(Quarters(x))
      moved(y) == CASE mode = "rte" -> r
                    [] mode = "rtp" -> IF y < x THEN nextafter(r, TRUE) ELSE r
                    [] mode = "rtn" -> IF y > x THEN nextafter(r, FALSE) ELSE r
                    [] mode = "rtz" -> IF abs(t, y) > abs(t, x) /\ r # 0
                                       THEN nextafter(r, r < 0) ELSE r
  IN  {moved(y) : y \in Values(t)}
-----------------------------------------------------------------------------
(* A kernel calls a function and gets its result.                          *)

Modes == {"rte", "rtz", "rtp", "rtn"}
None == 0

Init == fn = "none" /\ type = None /\ args = <<>> /\ result = None

Call(f, t, a, possible) == fn' = f /\ type' = t /\ args' = a /\ result' \in possible

Unary(t, a) ==
  \/ Call("abs", t, <<a>>, {abs(t, a)})
  \/ Call("clz", t, <<a>>, {clz(t, a)})
  \/ Call("popcount", t, <<a>>, {popcount(t, a)})

Binary(t, a, b) ==
  \/ Call("add_sat", t, <<a, b>>, {add_sat(t, a, b)})
  \/ Call("sub_sat", t, <<a, b>>, {sub_sat(t, a, b)})
  \/ Call("hadd", t, <<a, b>>, {hadd(t, a, b)})
  \/ Call("rhadd", t, <<a, b>>, {rhadd(t, a, b)})
  \/ Call("abs_diff", t, <<a, b>>, {abs_diff(t, a, b)})
  \/ Call("mul_hi", t, <<a, b>>, {mul_hi(t, a, b)})
  \/ Call("mul24", t, <<a, b>>, {mul24(t, a, b)})
  \/ Call("rotate", t, <<a, b>>, {rotate(t, a, b)})
  \/ Call("upsample", t, <<a, Cast(Unsigned(t), b)>>, {upsample(t, a, Cast(Unsigned(t), b))})

Ternary(t, a, b, c) ==
  \/ Call("mad_sat", t, <<a, b, c>>, {mad_sat(t, a, b, c)})
  \/ Call("mad_hi", t, <<a, b, c>>, {mad_hi(t, a, b, c)})
  \/ Call("mad24", t, <<a, b, c>>, {mad24(t, a, b, c)})
  \/ Call("bitselect", t, <<a, b, c>>, {bitselect(t, a, b, c)})

Conversion(t, u, x) == Call("convert_sat", t, <<x>>, {convert_sat(t, u, x)})

FloatConversion(t, mode, vml, q) ==
  \/ Call("convert_float_to", t, <<mode, vml, q>>, convert_float_to(t, mode, vml, q))
  \/ Call("convert_float_sat", t, <<mode, vml, q>>, convert_float_sat(t, mode, vml, q))

ToFloatConversion(t, mode, x) ==
  Call("convert_to_float", t, <<mode, x>>, convert_to_float(t, mode, x))

Return == fn # "none" /\ fn' = "none" /\ type' = None /\ args' = <<>> /\ result' = None

Next ==
  \/ /\ fn = "none"
     /\ \/ \E t \in Types : \E a \in Values(t) :
             \/ Unary(t, a)
             \/ \E b \in Values(t) : Binary(t, a, b) \/ \E c \in Values(t) : Ternary(t, a, b, c)
        \/ \E t, u \in Types : \E x \in Values(u) : Conversion(t, u, x)
        \/ \E t \in Types, mode \in Modes, vml \in BOOLEAN, q \in Floats :
             FloatConversion(t, mode, vml, q)
        \/ \E t \in Types, mode \in Modes : \E x \in Values(t) : ToFloatConversion(t, mode, x)
  \/ Return

Spec == Init /\ [][Next]_vars
-----------------------------------------------------------------------------
Clamp(t, x) == IF x < Least(t) THEN Least(t) ELSE IF x > Greatest(t) THEN Greatest(t) ELSE x

\* Is the greatest value of the type, as a float, still of the type?  It is not
\* for int and long as float, and for long as double.
FloatHasGreatest(t) == ToFloat(Quarters(Greatest(t))) = Quarters(Greatest(t))

\* A saturating function returns the exact result, or the end of the type it is
\* beyond: no sum, product or comparison on the way to it has wrapped around.
\* The one exception is a float equal to (float)MAX where that is beyond MAX:
\* the cast of it is undefined, and x > (float)MAX does not catch it.
Saturates ==
  CASE fn = "add_sat" -> result = Clamp(type, args[1] + args[2])
    [] fn = "sub_sat" -> result = Clamp(type, args[1] - args[2])
    [] fn = "mad_sat" -> result = Clamp(type, args[1] * args[2] + args[3])
    [] fn = "convert_sat" -> result = Clamp(type, args[1])
    [] fn = "convert_float_sat" ->
         LET rounded == RoundedTo(args[1], args[2], args[3])
         IN  \/ result = Clamp(type, Trunc(rounded))
             \/ ~FloatHasGreatest(type) /\ rounded = ToFloat(Quarters(Greatest(type)))
    [] OTHER -> TRUE

\* Averages, differences and the high half of a product, which do not fit the
\* type on the way, are exact.  The functions on bits count and move every bit,
\* for negative values, shift counts beyond the width and a count of zero too.
Exact ==
  CASE fn = "hadd" -> result = (args[1] + args[2]) \div 2
    [] fn = "rhadd" -> result = (args[1] + args[2] + 1) \div 2
    [] fn = "abs" -> result = Max2(args[1], -args[1])
    [] fn = "abs_diff" -> result = Max2(args[1] - args[2], args[2] - args[1])
    [] fn = "mul_hi" -> result = (args[1] * args[2]) \div 2^type.w
    [] fn = "mad_hi" -> result = Cast(type, (args[1] * args[2]) \div 2^type.w + args[3])
    [] fn = "rotate" ->
         \A i \in 0..(type.w - 1) : i \in Bits(type, result)
                                 <=> (i - args[2]) % type.w \in Bits(type, args[1])
    [] fn = "clz" -> LET n == Cast(Unsigned(type), args[1])
                     IN  n * 2^result < 2^type.w /\ (n > 0 => 2 * n * 2^result >= 2^type.w)
                         /\ result <= type.w
    [] fn = "popcount" -> result + Cardinality(Bits(type, -1 - args[1])) = type.w
    [] fn = "bitselect" -> \A i \in 0..(type.w - 1) :
         i \in Bits(type, result)
           <=> i \in Bits(type, IF i \in Bits(type, args[3]) THEN args[2] ELSE args[1])
    [] fn = "upsample" -> result = args[1] * 2^type.w + args[2]
    [] OTHER -> TRUE

\* The floats vecmathlib rounds to another integer.  Behind Large, rint adds up
\* to a float without room for the last bit: 5 becomes 4 with two mantissa bits.
\* ceil and floor leave a float just below Large as it is, for the cast to cut.
Misrounded(mode, vml, q) ==
  /\ vml
  /\ \/ mode = "rte" /\ (q >= Large \/ -q >= Large)
     \/ mode = "rtp" /\ Large - Quarters(1) < q /\ q < Large
     \/ mode = "rtn" /\ Large - Quarters(1) < -q /\ -q < Large

\* A conversion with a rounding mode returns the neighbour the mode asks for, but
\* for the floats of Misrounded; an integer becomes the nearest float.  (The other
\* modes to float are not stated: they use a variable that has no value.)
Rounds ==
  CASE /\ fn = "convert_float_to" /\ ~Misrounded(args[1], args[2], args[3])
       /\ Trunc(RoundedTo(args[1], args[2], args[3])) \in Values(type) ->
         LET x == args[3]
             y == Quarters(result)
         IN  /\ y - x < 4 /\ x - y < 4
             /\ args[1] = "rtp" => y >= x
             /\ args[1] = "rtn" => y <= x
             /\ args[1] = "rtz" => (x >= 0 => y \in 0..x) /\ (x <= 0 => y \in x..0)
             /\ args[1] = "rte" => y - x <= 2 /\ x - y <= 2
                                   /\ (y - x \in {2, -2} => result % 2 = 0)
    [] fn = "convert_to_float" /\ args[1] = "rte" ->
         \A r \in Floats : Max2(result - Quarters(args[2]), Quarters(args[2]) - result)
                        <= Max2(r - Quarters(args[2]), Quarters(args[2]) - r)
    [] OTHER -> TRUE
=============================================================================
