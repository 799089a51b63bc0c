----------------------------- MODULE VectorMath -----------------------------
(***************************************************************************)
(* The floating-point functions of the kernel library on vectors: how a    *)
(* function of 1, 2, 3, 4, 8 or 16 components reaches the vectors the      *)
(* processor has (lib/kernel/vecmathlib/pocl/*.cc), and, for a library     *)
(* without vecmathlib, the compiler's scalar functions (templates.h).      *)
(*                                                                         *)
(* The arguments are a sequence with a tuple for each component, the value *)
(* of every argument there; a 3-vector has a fourth one, that nobody set.  *)
(* The functions FloatMath takes apart are computed on bits; of the others *)
(* (sin, exp, ...) a component only shows what was applied to what.        *)
(***************************************************************************)
EXTENDS KernelLibrary, FloatMath, Sequences

VectorWidths == {1, 2, 3, 4, 8, 16}
Precisions == {"float", "double"}
Predicates == {"isfinite", "isinf", "isnan", "isnormal", "signbit"}

\* sizeof(float3) == sizeof(float4)
Storage(w) == IF w = 3 THEN 4 ELSE w
-----------------------------------------------------------------------------
(* One component, as the compiler or libm computes it.                     *)

Towards(v, q) == IF v < 0 THEN -((-v) \div q) * q ELSE (v \div q) * q
Integral(f, v) ==
  CASE f = "trunc" -> Towards(v, Unit)
    [] f = "floor" -> (v \div Unit) * Unit
    [] f = "ceil" -> -((-v) \div Unit) * Unit
    [] f = "round" -> Towards(IF v < 0 THEN v - Unit \div 2 ELSE v + Unit \div 2, Unit)
    [] f = "rint" -> LET down == v \div Unit
                         rest == v % Unit
                     IN  (IF 2 * rest < Unit \/ (2 * rest = Unit /\ down % 2 = 0)
                          THEN down ELSE down + 1) * Unit

\* ilogb of a number below the normal ones is that of its highest bit.
Log2(m) == CHOOSE k \in 0..mantissa_bits : 2^k <= m /\ m < 2^(k + 1)

Rounded(f, x) ==
  IF IsNaN(x) \/ IsInf(x) THEN x ELSE WithSign(Magnitude(Number(Integral(f, Value(x)))), Sign(x))

Native(f, a) ==
  CASE f = "isfinite" -> ~IsNaN(a[1]) /\ ~IsInf(a[1])
    [] f = "isinf" -> IsInf(a[1])
    [] f = "isnan" -> IsNaN(a[1])
    [] f = "isnormal" -> a[1] \in Patterns /\ ValueOf(Magnitude(a[1])) >= 2^mantissa_bits
                         /\ ~IsNaN(a[1]) /\ ~IsInf(a[1])
    [] f = "signbit" -> a[1] >= signbit_mask
    [] f = "fabs" -> IF a[1] >= signbit_mask THEN a[1] - signbit_mask ELSE a[1]
    [] f = "copysign" -> WithSign(Magnitude(a[1]), Sign(a[2]))
    [] f \in {"ceil", "floor", "rint", "round", "trunc"} -> Rounded(f, a[1])
    [] f = "fmax" -> IF IsNaN(a[1]) \/ Less(a[1], a[2]) THEN a[2] ELSE a[1]
    [] f = "fmin" -> IF IsNaN(a[1]) \/ Less(a[2], a[1]) THEN a[2] ELSE a[1]
    [] f = "fdim" -> IF IsNaN(a[1]) \/ IsNaN(a[2]) THEN NaN
                     ELSE IF Less(a[2], a[1]) THEN Minus(a[1], a[2]) ELSE 0
    [] f = "ilogb_" -> IF IsNaN(a[1]) \/ Magnitude(a[1]) = 0 THEN int_min
                       ELSE IF IsInf(a[1]) THEN int_max
                       ELSE IF Exponent(a[1]) = 0
                            THEN Log2(Magnitude(a[1])) - mantissa_bits + 1 - exponent_offset
                       ELSE Exponent(a[1]) - exponent_offset
    [] f \in {"ldexp_", "ldexp_scalar"} ->
         IF IsNaN(a[1]) \/ IsInf(a[1]) THEN a[1]
         ELSE LET m == ValueOf(Magnitude(a[1])) IN
              WithSign(IF a[2] >= 0 THEN Nearest(m * 2^a[2])
                       ELSE NearestQuotient(m, 2^(-a[2])), Sign(a[1]))
    [] OTHER -> <<f>> \o a
-----------------------------------------------------------------------------
(* vecmathlib's vector types: which functions of each call mathfuncs (vml),*)
(* of those FloatMath has, and which an instruction or libm.  The maximum  *)
(* and the minimum an instruction returns when one argument is a NaN (nan):*)
(* the second argument with SSE and AVX, the NaN with NEON and AltiVec, the*)
(* other one, as libm does, with VSX.                                      *)

\* x.fmax(y) and x.fmin(y) as an instruction.
InstructionMax(nan, x, y) ==
  CASE nan = "other" -> Native("fmax", <<x, y>>)
    [] nan = "second" -> IF Less(y, x) THEN x ELSE y
    [] nan = "nan" -> IF IsNaN(x) \/ IsNaN(y) THEN NaN ELSE Native("fmax", <<x, y>>)

InstructionMin(nan, x, y) ==
  CASE nan = "other" -> Native("fmin", <<x, y>>)
    [] nan = "second" -> IF Less(x, y) THEN x ELSE y
    [] nan = "nan" -> IF IsNaN(x) \/ IsNaN(y) THEN NaN ELSE Native("fmin", <<x, y>>)

Vml1 == {"fdim", "round"}
Vml4 == {"copysign", "fabs", "fdim", "ilogb_", "isfinite", "isinf", "isnormal", "ldexp_", "round"}
PowerPC == (Vml4 \ {"fabs"}) \cup {"isnan", "signbit"}
Neon == (PowerPC \ {"copysign"}) \cup {"ceil", "floor", "rint", "trunc"}

Without(target, macro, fs) == IF macro \in target THEN {} ELSE fs

vec_sse_float1(target) == [prec |-> "float", width |-> 1, nan |-> "second",
                           vml |-> Vml1 \cup Without(target, "SSE4_1", {"rint", "trunc"})]
vec_sse_double1(target) == [prec |-> "double", width |-> 1, nan |-> "second",
                            vml |-> Vml1 \cup Without(target, "SSE4_1", {"rint", "trunc"})]
vec_sse_float4(target) ==
  [prec |-> "float", width |-> 4, nan |-> "second",
   vml |-> Vml4 \cup Without(target, "SSE4_1", {"ceil", "floor", "rint", "trunc"})]
vec_sse_double2(target) ==
  [prec |-> "double", width |-> 2, nan |-> "second",
   vml |-> Vml4 \cup Without(target, "SSE4_1", {"ceil", "floor", "rint", "trunc"})]
vec_avx_float8 == [prec |-> "float", width |-> 8, nan |-> "second", vml |-> Vml4]
vec_avx_double4 == [prec |-> "double", width |-> 4, nan |-> "second", vml |-> Vml4]
vec_neon_float2 == [prec |-> "float", width |-> 2, nan |-> "nan", vml |-> Neon]
vec_neon_float4 == [prec |-> "float", width |-> 4, nan |-> "nan", vml |-> Neon]
vec_altivec_float4 == [prec |-> "float", width |-> 4, nan |-> "nan", vml |-> PowerPC]
vec_vsx_double2 == [prec |-> "double", width |-> 2, nan |-> "other", vml |-> PowerPC]
vec_qpx_double4 ==
  [prec |-> "double", width |-> 4, nan |-> "other",
   vml |-> {"fdim", "fmax", "fmin", "isfinite", "isinf", "isnormal", "rint"}]

\* What vecmathlib.h includes for the macros the compiler defines.
vecmathlib(target) ==
  LET with(macro, vecs) == IF macro \in target THEN vecs ELSE {}
  IN  with("NEON", {vec_neon_float2, vec_neon_float4})
      \cup with("SSE2", {vec_sse_float1(target), vec_sse_float4(target),
                         vec_sse_double1(target), vec_sse_double2(target)})
      \cup with("AVX", {vec_avx_float8, vec_avx_double4})
      \cup with("ALTIVEC", {vec_altivec_float4})
      \cup with("VSX", {vec_vsx_double2})
      \cup with("QPX", {vec_qpx_double4})

Targets == {{}, {"NEON"}, {"SSE2"}, {"SSE2", "SSE4_1"}, {"SSE2", "SSE4_1", "AVX"},
            {"ALTIVEC"}, {"ALTIVEC", "VSX"}, {"QPX"}}

Vectors == [target \in Targets |-> vecmathlib(target)]
Have(target, prec, w) == {v \in Vectors[target] : v.prec = prec /\ v.width = w}

\* A component of v.f(a).
Vml(v, f, a) ==
  CASE f = "copysign" -> vml_copysign(a[1], a[2])
    [] f = "fabs" -> vml_fabs(a[1])
    [] f = "signbit" -> vml_signbit(a[1])
    [] f = "isfinite" -> vml_isfinite(a[1])
    [] f = "isinf" -> vml_isinf(a[1])
    [] f = "isnan" -> vml_isnan(a[1])
    [] f = "isnormal" -> vml_isnormal(a[1])
    [] f = "fmax" -> vml_fmax(a[1], a[2])
    [] f = "fmin" -> vml_fmin(a[1], a[2])
    [] f = "ilogb_" -> vml_ilogb(a[1])
    [] f \in {"ldexp_", "ldexp_scalar"} -> vml_ldexp(a[1], a[2])
    [] f = "trunc" -> vml_trunc(a[1])
    [] f = "ceil" -> vml_ceil(a[1])
    [] f = "floor" -> vml_floor(a[1])
    [] f = "rint" -> vml_rint(a[1])
    [] f = "round" -> vml_round(a[1])
    [] f = "fdim" -> LET d == Minus(a[1], a[2]) IN  \* vml_fdim
                     IF "fmax" \in v.vml THEN vml_fmax(d, 0) ELSE InstructionMax(v.nan, d, 0)

Instruction(v, f, a) ==
  CASE f = "fmax" -> InstructionMax(v.nan, a[1], a[2])
    [] f = "fmin" -> InstructionMin(v.nan, a[1], a[2])
    [] OTHER -> Native(f, a)

UsesVml(v, f) == (IF f = "ldexp_scalar" THEN "ldexp_" ELSE f) \in v.vml
Component(v, f, a) == IF UsesVml(v, f) THEN Vml(v, f, a) ELSE Instruction(v, f, a)

\* convert_int of a boolvec.
convert_int(f, r) == IF f \in Predicates THEN (IF r THEN 1 ELSE 0) ELSE r
-----------------------------------------------------------------------------
(* The functions of vecmathlib/pocl.                                       *)

\* bitcast to a type of n components: the ones xs does not have are 0.
bitcast(xs, n) == xs \o [i \in 1..(n - Len(xs)) |-> [k \in DOMAIN xs[1] |-> 0]]

\* "by calling vecmathlib": true is -1 in a vector and 1 in a scalar.
CallVecmathlib(v, f, w, xs) ==
  [i \in 1..Storage(w) |-> LET r == convert_int(f, Component(v, f, xs[i]))
                           IN  IF f \in Predicates /\ w > 1 THEN -r ELSE r]

\* "by calling libm"
CallLibm(f, xs) == <<convert_int(f, Native(f, xs[1]))>>

\* "by using a larger vector size"
Larger(w) == CASE w = 2 -> 4 [] w = 3 -> 4 [] w = 4 -> 8 [] w = 8 -> 16 [] w = 16 -> 32

\* "by splitting into a smaller vector size"
Smaller(w) == CASE w = 2 -> 1 [] w = 3 -> 2 [] w = 4 -> 2 [] w = 8 -> 4 [] w = 16 -> 8
LowHalf(w, xs) == SubSeq(xs, 1, Smaller(w))

\* The second half of the pair.  A scalar exponent is there only in the first
\* one; and two longs, taken as a pair of int, are the two halves of the first.
HighHalf(prec, f, w, xs) ==
  LET hi == SubSeq(xs, Smaller(w) + 1, Storage(w))
      exponent == IF prec = "double" /\ w = 2 /\ xs[1][2] < 0 THEN -1 ELSE 0
  IN  IF f = "ldexp_scalar" \/ (f = "ldexp_" /\ prec = "double" /\ w = 2)
      THEN [i \in 1..Len(hi) |-> <<hi[i][1], exponent>>] ELSE hi

\* Mistaken form: every split of a predicate changes the sign.
JoinedNegated(f, w, lo, hi) ==
  IF f \in Predicates THEN [i \in 1..Storage(w) |-> -(lo \o hi)[i]] ELSE lo \o hi

\* The two results: those of scalars change sign.
Joined(f, w, lo, hi) ==
  IF f \in Predicates /\ w = 2 THEN <<-lo[1], -hi[1]>> ELSE lo \o hi

\* What a file makes of the overload of w components on a target: the conditions
\* on the vectors the target has, in their order.
Choice(target, prec, w) ==
  CASE Have(target, prec, w) # {} -> "vecmathlib"
    [] Have(target, prec, w) = {} /\ w = 1 -> "libm"
    [] Have(target, prec, w) = {} /\ w > 1 ->
         IF Have(target, prec, Larger(w)) # {} THEN "larger" ELSE "smaller"

Body(prec, name, target, w) == [prec |-> prec, name |-> name, by |-> Choice(target, prec, w)]

\* The overloads each file defines.  The files differ in the name and the types.
acos_float(target, w) == Body("float", "acos", target, w)
acos_double(target, w) == Body("double", "acos", target, w)
acosh_float(target, w) == Body("float", "acosh", target, w)
acosh_double(target, w) == Body("double", "acosh", target, w)
asin_float(target, w) == Body("float", "asin", target, w)
asin_double(target, w) == Body("double", "asin", target, w)
asinh_float(target, w) == Body("float", "asinh", target, w)
asinh_double(target, w) == Body("double", "asinh", target, w)
atan_float(target, w) == Body("float", "atan", target, w)
atan_double(target, w) == Body("double", "atan", target, w)
atanh_float(target, w) == Body("float", "atanh", target, w)
atanh_double(target, w) == Body("double", "atanh", target, w)
cbrt_float(target, w) == Body("float", "cbrt", target, w)
cbrt_double(target, w) == Body("double", "cbrt", target, w)
ceil_float(target, w) == Body("float", "ceil", target, w)
ceil_double(target, w) == Body("double", "ceil", target, w)
cos_float(target, w) == Body("float", "cos", target, w)
cos_double(target, w) == Body("double", "cos", target, w)
cosh_float(target, w) == Body("float", "cosh", target, w)
cosh_double(target, w) == Body("double", "cosh", target, w)
exp_float(target, w) == Body("float", "exp", target, w)
exp_double(target, w) == Body("double", "exp", target, w)
exp10_float(target, w) == Body("float", "exp10", target, w)
exp10_double(target, w) == Body("double", "exp10", target, w)
exp2_float(target, w) == Body("float", "exp2", target, w)
exp2_double(target, w) == Body("double", "exp2", target, w)
expm1_float(target, w) == Body("float", "expm1", target, w)
expm1_double(target, w) == Body("double", "expm1", target, w)
fabs_float(target, w) == Body("float", "fabs", target, w)
fabs_double(target, w) == Body("double", "fabs", target, w)
floor_float(target, w) == Body("float", "floor", target, w)
floor_double(target, w) == Body("double", "floor", target, w)
log_float(target, w) == Body("float", "log", target, w)
log_double(target, w) == Body("double", "log", target, w)
log10_float(target, w) == Body("float", "log10", target, w)
log10_double(target, w) == Body("double", "log10", target, w)
log1p_float(target, w) == Body("float", "log1p", target, w)
log1p_double(target, w) == Body("double", "log1p", target, w)
log2_float(target, w) == Body("float", "log2", target, w)
log2_double(target, w) == Body("double", "log2", target, w)
rint_float(target, w) == Body("float", "rint", target, w)
rint_double(target, w) == Body("double", "rint", target, w)
round_float(target, w) == Body("float", "round", target, w)
round_double(target, w) == Body("double", "round", target, w)
rsqrt_float(target, w) == Body("float", "rsqrt", target, w)
rsqrt_double(target, w) == Body("double", "rsqrt", target, w)
sin_float(target, w) == Body("float", "sin", target, w)
sin_double(target, w) == Body("double", "sin", target, w)
sinh_float(target, w) == Body("float", "sinh", target, w)
sinh_double(target, w) == Body("double", "sinh", target, w)
sqrt_float(target, w) == Body("float", "sqrt", target, w)
sqrt_double(target, w) == Body("double", "sqrt", target, w)
tan_float(target, w) == Body("float", "tan", target, w)
tan_double(target, w) == Body("double", "tan", target, w)
tanh_float(target, w) == Body("float", "tanh", target, w)
tanh_double(target, w) == Body("double", "tanh", target, w)
trunc_float(target, w) == Body("float", "trunc", target, w)
trunc_double(target, w) == Body("double", "trunc", target, w)
isfinite_float(target, w) == Body("float", "isfinite", target, w)
isfinite_double(target, w) == Body("double", "isfinite", target, w)
isinf_float(target, w) == Body("float", "isinf", target, w)
isinf_double(target, w) == Body("double", "isinf", target, w)
isnan_float(target, w) == Body("float", "isnan", target, w)
isnan_double(target, w) == Body("double", "isnan", target, w)
isnormal_float(target, w) == Body("float", "isnormal", target, w)
isnormal_double(target, w) == Body("double", "isnormal", target, w)
signbit_float(target, w) == Body("float", "signbit", target, w)
signbit_double(target, w) == Body("double", "signbit", target, w)
ilogb_float(target, w) == Body("float", "ilogb_", target, w)
ilogb_double(target, w) == Body("double", "ilogb_", target, w)
copysign_float(target, w) == Body("float", "copysign", target, w)
copysign_double(target, w) == Body("double", "copysign", target, w)
fdim_float(target, w) == Body("float", "fdim", target, w)
fdim_double(target, w) == Body("double", "fdim", target, w)
fmax_float(target, w) == Body("float", "fmax", target, w)
fmax_double(target, w) == Body("double", "fmax", target, w)
fmin_float(target, w) == Body("float", "fmin", target, w)
fmin_double(target, w) == Body("double", "fmin", target, w)
fmod_float(target, w) == Body("float", "fmod", target, w)
fmod_double(target, w) == Body("double", "fmod", target, w)
hypot_float(target, w) == Body("float", "hypot", target, w)
hypot_double(target, w) == Body("double", "hypot", target, w)
pow_float(target, w) == Body("float", "pow", target, w)
pow_double(target, w) == Body("double", "pow", target, w)
remainder_float(target, w) == Body("float", "remainder", target, w)
remainder_double(target, w) == Body("double", "remainder", target, w)
fma_float(target, w) == Body("float", "fma", target, w)
fma_double(target, w) == Body("double", "fma", target, w)
ldexp_float(target, w) == Body("float", "ldexp_", target, w)
ldexp_double(target, w) == Body("double", "ldexp_", target, w)
\* ldexp_ with one exponent for all components.
ldexp_scalar_float(target, w) == Body("float", "ldexp_scalar", target, w)
\* ldexp_ with one exponent for all components.
ldexp_scalar_double(target, w) == Body("double", "ldexp_scalar", target, w)
-----------------------------------------------------------------------------
(* templates.h: a vector is split until the compiler's function applies.   *)

\* a.lo and a.hi; a.lo and a.s2 of a 3-vector.
TemplateLow(w) == IF w = 3 THEN 2 ELSE w \div 2

RECURSIVE Templated(_, _, _, _)
Templated(f, family, w, xs) ==
  LET low == TemplateLow(w)
      half(from, to) == Templated(f, family, to - from + 1, SubSeq(xs, from, to))
      changeSign(n) == family = "L_V" /\ n = 1
      lo == half(1, low)
      hi == half(low + 1, w)
  IN  IF w = 1 THEN <<convert_int(f, Native(f, xs[1]))>>
      ELSE (IF changeSign(low) THEN <<-lo[1]>> ELSE lo)
           \o (IF changeSign(w - low) THEN <<-hi[1]>> ELSE hi)

DEFINE_BUILTIN_V_V(f, w, xs) == Templated(f, "V_V", w, xs)
DEFINE_BUILTIN_V_VV(f, w, xs) == Templated(f, "V_VV", w, xs)
DEFINE_BUILTIN_V_VVV(f, w, xs) == Templated(f, "V_VVV", w, xs)
DEFINE_BUILTIN_V_VJ(f, w, xs) == Templated(f, "V_VJ", w, xs)
DEFINE_BUILTIN_V_VI(f, w, xs) == Templated(f, "V_VI", w, xs)
DEFINE_BUILTIN_K_V(f, w, xs) == Templated(f, "K_V", w, xs)
DEFINE_BUILTIN_L_V(f, w, xs) == Templated(f, "L_V", w, xs)
-----------------------------------------------------------------------------
(* A kernel calls a function on vectors.                                   *)

BitUnaries == Predicates \cup {"ceil", "fabs", "floor", "ilogb_", "rint", "round", "trunc"}
BitBinaries == {"copysign", "fdim", "fmax", "fmin"}
OpaqueUnaries == {"acos", "acosh", "asin", "asinh", "atan", "atanh", "cbrt", "cos", "cosh",
                  "exp", "exp10", "exp2", "expm1", "log", "log10", "log1p", "log2", "rsqrt",
                  "sin", "sinh", "sqrt", "tan", "tanh"}
OpaqueBinaries == {"fmod", "hypot", "pow", "remainder"}
VectorFns == BitUnaries \cup BitBinaries \cup OpaqueUnaries \cup OpaqueBinaries
             \cup {"fma", "ldexp_", "ldexp_scalar"}

\* The overload the compiler chooses, with its name in the model.
_cl_float(f, target, w) ==
  CASE f = "acos" -> acos_float(target, w)
    [] f = "acosh" -> acosh_float(target, w)
    [] f = "asin" -> asin_float(target, w)
    [] f = "asinh" -> asinh_float(target, w)
    [] f = "atan" -> atan_float(target, w)
    [] f = "atanh" -> atanh_float(target, w)
    [] f = "cbrt" -> cbrt_float(target, w)
    [] f = "ceil" -> ceil_float(target, w)
    [] f = "cos" -> cos_float(target, w)
    [] f = "cosh" -> cosh_float(target, w)
    [] f = "exp" -> exp_float(target, w)
    [] f = "exp10" -> exp10_float(target, w)
    [] f = "exp2" -> exp2_float(target, w)
    [] f = "expm1" -> expm1_float(target, w)
    [] f = "fabs" -> fabs_float(target, w)
    [] f = "floor" -> floor_float(target, w)
    [] f = "log" -> log_float(target, w)
    [] f = "log10" -> log10_float(target, w)
    [] f = "log1p" -> log1p_float(target, w)
    [] f = "log2" -> log2_float(target, w)
    [] f = "rint" -> rint_float(target, w)
    [] f = "round" -> round_float(target, w)
    [] f = "rsqrt" -> rsqrt_float(target, w)
    [] f = "sin" -> sin_float(target, w)
    [] f = "sinh" -> sinh_float(target, w)
    [] f = "sqrt" -> sqrt_float(target, w)
    [] f = "tan" -> tan_float(target, w)
    [] f = "tanh" -> tanh_float(target, w)
    [] f = "trunc" -> trunc_float(target, w)
    [] f = "isfinite" -> isfinite_float(target, w)
    [] f = "isinf" -> isinf_float(target, w)
    [] f = "isnan" -> isnan_float(target, w)
    [] f = "isnormal" -> isnormal_float(target, w)
    [] f = "signbit" -> signbit_float(target, w)
    [] f = "ilogb_" -> ilogb_float(target, w)
    [] f = "copysign" -> copysign_float(target, w)
    [] f = "fdim" -> fdim_float(target, w)
    [] f = "fmax" -> fmax_float(target, w)
    [] f = "fmin" -> fmin_float(target, w)
    [] f = "fmod" -> fmod_float(target, w)
    [] f = "hypot" -> hypot_float(target, w)
    [] f = "pow" -> pow_float(target, w)
    [] f = "remainder" -> remainder_float(target, w)
    [] f = "fma" -> fma_float(target, w)
    [] f = "ldexp_" -> ldexp_float(target, w)
    [] f = "ldexp_scalar" -> ldexp_scalar_float(target, w)

_cl_double(f, target, w) ==
  CASE f = "acos" -> acos_double(target, w)
    [] f = "acosh" -> acosh_double(target, w)
    [] f = "asin" -> asin_double(target, w)
    [] f = "asinh" -> asinh_double(target, w)
    [] f = "atan" -> atan_double(target, w)
    [] f = "atanh" -> atanh_double(target, w)
    [] f = "cbrt" -> cbrt_double(target, w)
    [] f = "ceil" -> ceil_double(target, w)
    [] f = "cos" -> cos_double(target, w)
    [] f = "cosh" -> cosh_double(target, w)
    [] f = "exp" -> exp_double(target, w)
    [] f = "exp10" -> exp10_double(target, w)
    [] f = "exp2" -> exp2_double(target, w)
    [] f = "expm1" -> expm1_double(target, w)
    [] f = "fabs" -> fabs_double(target, w)
    [] f = "floor" -> floor_double(target, w)
    [] f = "log" -> log_double(target, w)
    [] f = "log10" -> log10_double(target, w)
    [] f = "log1p" -> log1p_double(target, w)
    [] f = "log2" -> log2_double(target, w)
    [] f = "rint" -> rint_double(target, w)
    [] f = "round" -> round_double(target, w)
    [] f = "rsqrt" -> rsqrt_double(target, w)
    [] f = "sin" -> sin_double(target, w)
    [] f = "sinh" -> sinh_double(target, w)
    [] f = "sqrt" -> sqrt_double(target, w)
    [] f = "tan" -> tan_double(target, w)
    [] f = "tanh" -> tanh_double(target, w)
    [] f = "trunc" -> trunc_double(target, w)
    [] f = "isfinite" -> isfinite_double(target, w)
    [] f = "isinf" -> isinf_double(target, w)
    [] f = "isnan" -> isnan_double(target, w)
    [] f = "isnormal" -> isnormal_double(target, w)
    [] f = "signbit" -> signbit_double(target, w)
    [] f = "ilogb_" -> ilogb_double(target, w)
    [] f = "copysign" -> copysign_double(target, w)
    [] f = "fdim" -> fdim_double(target, w)
    [] f = "fmax" -> fmax_double(target, w)
    [] f = "fmin" -> fmin_double(target, w)
    [] f = "fmod" -> fmod_double(target, w)
    [] f = "hypot" -> hypot_double(target, w)
    [] f = "pow" -> pow_double(target, w)
    [] f = "remainder" -> remainder_double(target, w)
    [] f = "fma" -> fma_double(target, w)
    [] f = "ldexp_" -> ldexp_double(target, w)
    [] f = "ldexp_scalar" -> ldexp_scalar_double(target, w)

Overload(prec, f, target, w) ==
  IF prec = "float" THEN _cl_float(f, target, w) ELSE _cl_double(f, target, w)

\* The call of an overload, which may call another one of the same function.
RECURSIVE Lifted(_, _, _, _, _)
Lifted(target, prec, f, w, xs) ==
  LET o == Overload(prec, f, target, w) IN
  CASE o.by = "vecmathlib" ->
         CallVecmathlib(CHOOSE v \in Have(target, o.prec, w) : TRUE, o.name, w, xs)
    [] o.by = "libm" -> CallLibm(o.name, xs)
    [] o.by = "larger" ->
         SubSeq(Lifted(target, prec, f, Larger(w), bitcast(xs, Larger(w))), 1, Storage(w))
    [] o.by = "smaller" ->
         Joined(o.name, w, Lifted(target, prec, f, Smaller(w), LowHalf(w, xs)),
                           Lifted(target, prec, f, Smaller(w), HighHalf(prec, f, w, xs)))

\* The same without vecmathlib.
TemplateOverload(f, w, xs) ==
  CASE f \in Predicates -> DEFINE_BUILTIN_L_V(f, w, xs)
    [] f = "ilogb_" -> DEFINE_BUILTIN_K_V(f, w, xs)
    [] f \in (BitUnaries \cup OpaqueUnaries) \ (Predicates \cup {"ilogb_"}) ->
         DEFINE_BUILTIN_V_V(f, w, xs)
    [] f \in BitBinaries \cup OpaqueBinaries -> DEFINE_BUILTIN_V_VV(f, w, xs)
    [] f = "fma" -> DEFINE_BUILTIN_V_VVV(f, w, xs)
    [] f = "ldexp_" -> DEFINE_BUILTIN_V_VJ(f, w, xs)
    [] f = "ldexp_scalar" -> DEFINE_BUILTIN_V_VI(f, w, xs)

\* All patterns, w at a time.
Starts(w) == {s \in Patterns : s % w = 0}
\* bound: the patterns the second argument starts with.
Seconds == {s \in Patterns : s % 13 = 0}
\* bound: the exponents of ldexp.
Shifts == -2..3

\* Bit patterns that follow one another, from s, in steps of d.
From(s, d, i) == (s + d * (i - 1)) % 2^bits

Vector(w, lane(_)) == [i \in 1..Storage(w) |-> lane(i)]

Arguments(f, w) ==
  CASE f \in BitUnaries -> {Vector(w, LAMBDA i : <<From(s, 1, i)>>) : s \in Starts(w)}
    [] f \in OpaqueUnaries -> {Vector(w, LAMBDA i : <<i>>)}
    [] f \in BitBinaries ->
         {Vector(w, LAMBDA i : <<From(s, 1, i), From(t, 5, i)>>) : s \in Starts(w), t \in Seconds}
    [] f \in OpaqueBinaries -> {Vector(w, LAMBDA i : <<i, 20 + i>>)}
    [] f = "fma" -> {Vector(w, LAMBDA i : <<i, 20 + i, 40 + i>>)}
    [] f = "ldexp_" ->
         {Vector(w, LAMBDA i : <<From(s, 1, i), ((n + i) % 5) - 1>>) : s \in Starts(w), n \in 0..4}
    [] f = "ldexp_scalar" ->
         {Vector(w, LAMBDA i : <<From(s, 1, i), n>>) : s \in Starts(w), n \in Shifts}

VectorCall(f, target, prec, w) ==
  \E xs \in Arguments(f, w) :
    Call(f, [target |-> target, prec |-> prec, w |-> w], xs, {Lifted(target, prec, f, w, xs)})

TemplateCall(f, w) ==
  \E xs \in Arguments(f, w) :
    Call(f, [target |-> {"templates"}, prec |-> "float", w |-> w], xs, {TemplateOverload(f, w, xs)})

\* A kernel declares vectors of some width, and then calls functions on them.
Declared == fn = "none" /\ type # None
Declare ==
  /\ fn = "none" /\ type = None
  /\ type' \in VectorWidths
  /\ UNCHANGED <<fn, args, result>>

VectorNext ==
  \/ ~Declared /\ Next
  \/ Declare
  \/ /\ Declared
     /\ \E f \in VectorFns :
          \/ \E target \in Targets, prec \in Precisions : VectorCall(f, target, prec, type)
          \/ TemplateCall(f, type)

VectorSpec == Init /\ [][VectorNext]_vars
-----------------------------------------------------------------------------
\* Numbers the bit tricks of vecmathlib are not meant for, or get wrong:
\* an integer whose last bit does not survive the added number (rint, round),
\* the number below 1/2 (round), the numbers between 2^mantissa_bits - 1 and
\* 2^mantissa_bits (ceil, floor), a NaN, a number that is not normal (ilogb,
\* ldexp), and an exponent that leaves its range (ldexp).
BeyondVml(v, f, a) ==
  LET m == ValueOf(Magnitude(a[1]))
      large == 2^mantissa_bits * Unit
      oddLarge == m >= large /\ m < 2 * large /\ (m \div Unit) % 2 = 1
  IN  /\ UsesVml(v, f)
      /\ CASE f = "rint" -> m >= large /\ ~IsInf(a[1])
           [] f = "round" -> oddLarge \/ IsNaN(a[1]) \/ Magnitude(a[1]) = Nearest(Unit \div 2) - 1
           [] f = "trunc" -> IsNaN(a[1])
           [] f \in {"ceil", "floor"} -> IsNaN(a[1]) \/ (m > large - Unit /\ m < large)
           [] f \in {"fmax", "fmin"} -> IsNaN(a[1]) /\ ~IsNaN(a[2])
           [] f = "fdim" -> IF "fmax" \in v.vml \/ v.nan = "nan"
                            THEN IsInf(a[1]) /\ a[1] = a[2] ELSE IsNaN(a[1]) \/ IsNaN(a[2])
           [] f = "ilogb_" -> Exponent(a[1]) = 0
           [] f \in {"ldexp_", "ldexp_scalar"} ->
                \/ Exponent(a[1]) \in {0, exponent_max}
                \/ Exponent(a[1]) + a[2] \notin 1..(exponent_max - 1)
           [] OTHER -> FALSE

\* fmax and fmin of a number and a NaN, where the instruction loses the number.
BeyondInstruction(nan, f, a) ==
  /\ f \in {"fmax", "fmin"} /\ IsNaN(a[1]) # IsNaN(a[2])
  /\ nan = "nan" \/ (nan = "second" /\ IsNaN(a[2]))

\* The exceptions of the vectors the call may reach; libm has none.
Beyond(f, a) ==
  /\ type.target \in Targets
  /\ \E v \in Vectors[type.target] :
       /\ v.prec = type.prec /\ (type.w = 1 => v.width = 1)
       /\ BeyondVml(v, f, a) \/ (~UsesVml(v, f) /\ BeyondInstruction(v.nan, f, a))

\* Is component i of ldexp computed with an exponent that is not its own?  So
\* are those of a second half, when a vector with a scalar exponent is split, and
\* the second ones when doubles are split down to scalars.
WrongExponent(i) ==
  LET split == /\ type.target # {"templates"} /\ type.w > 1
               /\ Have(type.target, type.prec, type.w) = {}
               /\ Have(type.target, type.prec, Larger(type.w)) = {}
  IN  /\ fn \in {"ldexp_", "ldexp_scalar"} /\ split
      /\ \/ fn = "ldexp_scalar" /\ i > 1
         \/ /\ type.prec = "double" /\ i % 2 = 0
            /\ \A v \in Vectors[type.target] : v.prec = "float"

\* The same number: a zero may have the other sign.
SameNumber(x, y) == Equal(x, y) \/ (IsNaN(x) /\ IsNaN(y))

\* On every target, for every width and precision, each component of the result is
\* the function of the components of the arguments at its place: no padding, no
\* neighbour and no half of a pair gets into it, and a predicate is true as 1
\* for a scalar and as -1 in a vector, however the vector was cut or widened.
\* The exceptions are those of Beyond and WrongExponent.
FloatLanewise ==
  fn \in VectorFns =>
    \A i \in 1..type.w :
      LET a == args[i]
          r == convert_int(fn, Native(fn, a))
      IN  \/ Beyond(fn, a)
          \/ WrongExponent(i)
          \/ IF fn \in Predicates THEN result[i] = (IF type.w > 1 THEN -r ELSE r)
             ELSE IF fn \in BitUnaries \cup BitBinaries
                     /\ fn \notin {"fabs", "copysign", "ilogb_"} THEN SameNumber(result[i], r)
             ELSE result[i] = r
=============================================================================
