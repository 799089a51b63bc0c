-------------------------- MODULE VectorTemplates --------------------------
(***************************************************************************)
(* The families of overloads that templates.h defines from one scalar      *)
(* function or one expression: the integer functions of KernelLibrary, the *)
(* relational functions and the functions that take a scalar for a whole   *)
(* vector, on vectors of 2, 3, 4, 8 and 16 components.                     *)
(*                                                                         *)
(* As in VectorMath the arguments are a sequence with a tuple for each     *)
(* component; a scalar argument is read from the first tuple.              *)
(***************************************************************************)
EXTENDS VectorMath
-----------------------------------------------------------------------------
(* One component.                                                          *)

\* max_i.cl, min_i.cl and clamp_int.cl; the others are those of KernelLibrary.
IntegerScalar(f, t, a) ==
  CASE f = "abs" -> abs(t, a[1])
    [] f = "clz" -> clz(t, a[1])
    [] f = "popcount" -> popcount(t, a[1])
    [] f = "add_sat" -> add_sat(t, a[1], a[2])
    [] f = "sub_sat" -> sub_sat(t, a[1], a[2])
    [] f = "hadd" -> hadd(t, a[1], a[2])
    [] f = "rhadd" -> rhadd(t, a[1], a[2])
    [] f = "mul_hi" -> mul_hi(t, a[1], a[2])
    [] f = "rotate" -> rotate(t, a[1], a[2])
    [] f = "max" -> IF a[1] >= a[2] THEN a[1] ELSE a[2]
    [] f = "min" -> IF a[1] <= a[2] THEN a[1] ELSE a[2]
    [] f = "abs_diff" -> abs_diff(t, a[1], a[2])
    [] f = "mad_hi" -> mad_hi(t, a[1], a[2], a[3])
    [] f = "mad_sat" -> mad_sat(t, a[1], a[2], a[3])
    [] f = "bitselect" -> bitselect(t, a[1], a[2], a[3])
    [] f = "clamp" -> Min2(Max2(a[1], a[2]), a[3])
    [] f = "mul24" -> mul24(t, a[1], a[2])
    [] f = "mad24" -> mad24(t, a[1], a[2], a[3])

\* The expressions of isequal.cl to isunordered.cl.
Relation(f, a, b) ==
  CASE f = "isequal" -> Equal(a, b)
    [] f = "isnotequal" -> ~Equal(a, b)
    [] f = "isgreater" -> Less(b, a)
    [] f = "isgreaterequal" -> Less(b, a) \/ Equal(a, b)
    [] f = "isless" -> Less(a, b)
    [] f = "islessequal" -> Less(a, b) \/ Equal(a, b)
    [] f = "islessgreater" -> Less(a, b) \/ Less(b, a)
    [] f = "isordered" -> Equal(a, a) /\ Equal(b, b)
    [] f = "isunordered" -> IsNaN(a) \/ IsNaN(b)

\* max.cl, min.cl, fmax.cl, fmin.cl and clamp.cl on bits, the last three with the
\* library's fmax and fmin, libm's (nan = "other") or an instruction's; of the
\* others a component only shows what was applied to what.
FloatScalar(nan, f, a) ==
  CASE f = "max" -> IF Relation("isgreaterequal", a[1], a[2]) THEN a[1] ELSE a[2]
    [] f = "min" -> IF Relation("islessequal", a[1], a[2]) THEN a[1] ELSE a[2]
    [] f = "fmax" -> InstructionMax(nan, a[1], a[2])
    [] f = "fmin" -> InstructionMin(nan, a[1], a[2])
    [] f = "clamp" -> InstructionMin(nan, InstructionMax(nan, a[1], a[2]), a[3])
    [] f \in {"mix", "smoothstep", "step"} -> <<f>> \o a
-----------------------------------------------------------------------------
(* Integers: gtype, sgtype and ugtype.                                     *)

\* (gtype)(f(a.lo), f(a.hi)), down to the compiler's function.
RECURSIVE Halves(_, _, _, _)
Halves(f, t, w, xs) ==
  LET low == TemplateLow(w)
  IN  IF w = 1 THEN <<IntegerScalar(f, t, xs[1])>>
      ELSE Halves(f, t, low, SubSeq(xs, 1, low)) \o Halves(f, t, w - low, SubSeq(xs, low + 1, w))

\* The expression, whose operators work on each component.
Each(f, t, w, xs) == [i \in 1..w |-> IntegerScalar(f, t, xs[i])]

DEFINE_BUILTIN_G_G(f, t, w, xs) == Halves(f, t, w, xs)
DEFINE_BUILTIN_UG_G(f, t, w, xs) == Halves(f, t, w, xs)
DEFINE_EXPR_G_GG(f, t, w, xs) == Each(f, t, w, xs)
DEFINE_EXPR_G_GGG(f, t, w, xs) == Each(f, t, w, xs)
DEFINE_EXPR_UG_GG(f, t, w, xs) == Each(f, t, w, xs)
DEFINE_EXPR_J_JJ(f, t, w, xs) == Each(f, t, w, xs)
DEFINE_EXPR_J_JJJ(f, t, w, xs) == Each(f, t, w, xs)

\* sgtype b (and c): the same for all components.
DEFINE_EXPR_G_GS(f, t, w, xs) ==
  LET b == xs[1][2] IN Each(f, t, w, [i \in 1..w |-> <<xs[i][1], b>>])
DEFINE_EXPR_G_GSS(f, t, w, xs) ==
  LET b == xs[1][2]
      c == xs[1][3]
  IN  Each(f, t, w, [i \in 1..w |-> <<xs[i][1], b, c>>])
-----------------------------------------------------------------------------
(* Floats: vtype, stype and jtype.                                         *)

\* Mistaken form: the truth value of a scalar in a vector.
DEFINE_EXPR_J_VV_scalar(f, w, xs) ==
  [i \in 1..w |-> IF Relation(f, xs[i][1], xs[i][2]) THEN 1 ELSE 0]

\* A comparison is 1 for scalars and -1 in a vector.
DEFINE_EXPR_J_VV(f, w, xs) ==
  [i \in 1..w |-> IF Relation(f, xs[i][1], xs[i][2]) THEN (IF w = 1 THEN 1 ELSE -1) ELSE 0]

DEFINE_EXPR_V_VS(nan, f, w, xs) ==
  LET b == xs[1][2] IN [i \in 1..w |-> FloatScalar(nan, f, <<xs[i][1], b>>)]
DEFINE_EXPR_V_SV(nan, f, w, xs) ==
  LET a == xs[1][1] IN [i \in 1..w |-> FloatScalar(nan, f, <<a, xs[i][2]>>)]
DEFINE_EXPR_V_VVS(nan, f, w, xs) ==
  LET c == xs[1][3] IN [i \in 1..w |-> FloatScalar(nan, f, <<xs[i][1], xs[i][2], c>>)]
DEFINE_EXPR_V_VSS(nan, f, w, xs) ==
  LET b == xs[1][2]
      c == xs[1][3]
  IN  [i \in 1..w |-> FloatScalar(nan, f, <<xs[i][1], b, c>>)]
DEFINE_EXPR_V_SSV(nan, f, w, xs) ==
  LET a == xs[1][1]
      b == xs[1][2]
  IN  [i \in 1..w |-> FloatScalar(nan, f, <<a, b, xs[i][3]>>)]
-----------------------------------------------------------------------------
(* A kernel calls a function on vectors of integers or floats.             *)

Relational == {"isequal", "isnotequal", "isgreater", "isgreaterequal", "isless", "islessequal",
               "islessgreater", "isordered", "isunordered"}

\* The functions of one argument, of two and of three.
Functions1 == {"abs", "clz", "popcount"}
Functions2 == {"add_sat", "sub_sat", "hadd", "rhadd", "mul_hi", "rotate", "max", "min",
               "abs_diff", "mul24"}
Functions3 == {"mad_hi", "mad_sat", "bitselect", "clamp", "mad24"}

\* Do all arguments but the first one have to be vectors?
Forms(f) == IF f \in {"max", "min", "clamp"} THEN {"vectors", "scalars"} ELSE {"vectors"}

IntegerVector(f, form, t, w, xs) ==
  CASE f = "abs" -> DEFINE_BUILTIN_UG_G(f, t, w, xs)
    [] f \in {"clz", "popcount"} -> DEFINE_BUILTIN_G_G(f, t, w, xs)
    [] f = "abs_diff" -> DEFINE_EXPR_UG_GG(f, t, w, xs)
    [] f = "mul24" -> DEFINE_EXPR_J_JJ(f, t, w, xs)
    [] f = "mad24" -> DEFINE_EXPR_J_JJJ(f, t, w, xs)
    [] f \in Functions2 \ {"abs_diff", "mul24"} ->
         IF form = "scalars" THEN DEFINE_EXPR_G_GS(f, t, w, xs) ELSE DEFINE_EXPR_G_GG(f, t, w, xs)
    [] f \in Functions3 \ {"mad24"} ->
         IF form = "scalars" THEN DEFINE_EXPR_G_GSS(f, t, w, xs) ELSE DEFINE_EXPR_G_GGG(f, t, w, xs)

\* Values of type t that follow one another, from s, in steps of d.
IntegerFrom(t, s, d, i) == Least(t) + ((s + d * (i - 1)) % 2^t.w)

IntegerVectorCall(f, form, t, w) ==
  \E s, u \in 0..(2^t.w - 1) :
    LET step == IF form = "scalars" THEN 0 ELSE 1
        b(i) == IntegerFrom(t, u, 3 * step, i)
        c(i) == IntegerFrom(t, s + 2 * u, 5 * step, i)
        lane(i) == <<IntegerFrom(t, s, 1, i)>>
                   \o (IF f \in Functions1 THEN <<>>
                       ELSE IF f \in Functions2 THEN <<b(i)>> ELSE <<b(i), c(i)>>)
        xs == [i \in 1..w |-> lane(i)]
    IN  Call("integers", [op |-> f, gtype |-> t, w |-> w], xs, {IntegerVector(f, form, t, w, xs)})

FloatFn(f) == CASE f \in Relational -> "J_VV"
                [] f \in {"max", "min", "fmax", "fmin"} -> "V_VS"
                [] f = "step" -> "V_SV"
                [] f = "mix" -> "V_VVS"
                [] f = "clamp" -> "V_VSS"
                [] f = "smoothstep" -> "V_SSV"

FloatVector(nan, f, w, xs) ==
  CASE FloatFn(f) = "J_VV" -> DEFINE_EXPR_J_VV(f, w, xs)
    [] FloatFn(f) = "V_VS" -> DEFINE_EXPR_V_VS(nan, f, w, xs)
    [] FloatFn(f) = "V_SV" -> DEFINE_EXPR_V_SV(nan, f, w, xs)
    [] FloatFn(f) = "V_VVS" -> DEFINE_EXPR_V_VVS(nan, f, w, xs)
    [] FloatFn(f) = "V_VSS" -> DEFINE_EXPR_V_VSS(nan, f, w, xs)
    [] FloatFn(f) = "V_SSV" -> DEFINE_EXPR_V_SSV(nan, f, w, xs)

\* The arguments that are scalars, as positions.
ScalarsOf(f) == CASE FloatFn(f) = "J_VV" -> {}
                  [] FloatFn(f) = "V_VS" -> {2}
                  [] FloatFn(f) = "V_SV" -> {1}
                  [] FloatFn(f) = "V_VVS" -> {3}
                  [] FloatFn(f) = "V_VSS" -> {2, 3}
                  [] FloatFn(f) = "V_SSV" -> {1, 2}

FloatVectorCall(f, w) ==
  \E s \in Starts(w), u, v \in Seconds, nan \in {"other", "second", "nan"} :
    LET step(k) == IF k \in ScalarsOf(f) THEN 0 ELSE 1
        xs == [i \in 1..w |-> <<From(s, step(1), i), From(u, 5 * step(2), i),
                                From(v, 3 * step(3), i)>>]
    IN  /\ FloatFn(f) \in {"J_VV", "V_VS", "V_SV"} => v = 0
        /\ f \notin {"fmax", "fmin", "clamp"} => nan = "other"
        /\ Call("floats", [op |-> f, w |-> w, nan |-> nan], xs, {FloatVector(nan, f, w, xs)})

TemplatesNext ==
  \/ VectorNext
  \/ /\ Declared
     /\ \/ /\ type > 1
           /\ \/ \E f \in Functions1 \cup Functions2 \cup Functions3, t \in Types :
                   \E form \in Forms(f) : IntegerVectorCall(f, form, t, type)
              \/ \E f \in {"max", "min", "fmax", "fmin", "step", "mix", "clamp", "smoothstep"} :
                   FloatVectorCall(f, type)
        \/ \E f \in Relational : FloatVectorCall(f, type)

TemplatesSpec == Init /\ [][TemplatesNext]_vars
-----------------------------------------------------------------------------
\* What a relation says of two floats, one of which may be a NaN.
Holds(f, a, b) ==
  LET ordered == ~IsNaN(a) /\ ~IsNaN(b)
      by == CASE f \in {"isequal", "isnotequal"} -> Value(a) = Value(b)
              [] f \in {"isgreater", "islessequal"} -> Value(a) > Value(b)
              [] f \in {"isless", "isgreaterequal"} -> Value(a) < Value(b)
              [] f = "islessgreater" -> Value(a) # Value(b)
              [] f \in {"isordered", "isunordered"} -> TRUE
  IN  CASE f \in {"isnotequal", "isunordered"} -> ~(ordered /\ by)
        [] f \in {"islessequal", "isgreaterequal"} -> ordered /\ ~by
        [] OTHER -> ordered /\ by

\* The bounds of clamp are kept when they are numbers in order; an instruction may
\* return the NaN it was given.
Clamped(nan, r, a) ==
  LET le(x, y) == Less(x, y) \/ Equal(x, y)
      lost == nan = "nan" /\ IsNaN(a[1])
  IN  le(a[2], a[3]) /\ ~lost => /\ le(a[2], r) /\ le(r, a[3])
                                 /\ le(a[2], a[1]) /\ le(a[1], a[3]) => Equal(r, a[1])

\* What a component of an integer function is, as a number.
IntegerMeaning(f, t, a) ==
  CASE f = "abs" -> Max2(a[1], -a[1])
    [] f = "add_sat" -> Clamp(t, a[1] + a[2])
    [] f = "sub_sat" -> Clamp(t, a[1] - a[2])
    [] f = "mad_sat" -> Clamp(t, a[1] * a[2] + a[3])
    [] f = "hadd" -> (a[1] + a[2]) \div 2
    [] f = "rhadd" -> (a[1] + a[2] + 1) \div 2
    [] f = "mul_hi" -> (a[1] * a[2]) \div 2^t.w
    [] f = "mad_hi" -> Cast(t, (a[1] * a[2]) \div 2^t.w + a[3])
    [] f = "abs_diff" -> Max2(a[1] - a[2], a[2] - a[1])
    [] f = "popcount" -> t.w - Cardinality(Bits(t, -1 - a[1]))
    [] f \in {"clz", "rotate", "bitselect", "max", "min", "clamp", "mul24", "mad24"} ->
         IntegerScalar(f, t, a)

TemplatesLanewise ==
  CASE fn = "integers" ->
         \A i \in 1..type.w : result[i] = IntegerMeaning(type.op, type.gtype, args[i])
    [] fn = "floats" ->
         \A i \in 1..type.w :
           IF type.op \in Relational
           THEN result[i] = (IF Holds(type.op, args[i][1], args[i][2])
                             THEN (IF type.w = 1 THEN 1 ELSE -1) ELSE 0)
           ELSE IF type.op = "clamp" THEN Clamped(type.nan, result[i], args[i])
           ELSE IF type.op \in {"fmax", "fmin"}
           THEN \/ BeyondInstruction(type.nan, type.op, args[i])
                \/ SameNumber(result[i], Native(type.op, args[i]))
           ELSE result[i] = FloatScalar(type.nan, type.op,
                                        IF FloatFn(type.op) \in {"V_VS", "V_SV"}
                                        THEN SubSeq(args[i], 1, 2) ELSE args[i])
    [] OTHER -> TRUE

\* On every target, for every width and precision, each component of the result is
\* the function of the components of the arguments at its place: no padding, no
\* neighbour and no half of a pair gets into it, a scalar argument reaches all
\* components, and a truth value is 1 for a scalar and -1 in a vector, however the
\* vector was cut or widened.  A comparison with a NaN is false, but for isnotequal
\* and isunordered, clamp keeps its bounds, and fmax and fmin of a number and a NaN
\* are the number.  The exceptions are those of Beyond, BeyondInstruction and
\* WrongExponent.
Lanewise == FloatLanewise /\ TemplatesLanewise
=============================================================================
