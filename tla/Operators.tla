----------------------------- MODULE Operators ------------------------------
(***************************************************************************)
(* The operators of the language on values (quickjs.c: JS_ToPrimitiveFree, *)
(* JS_ToNumberHintFree, js_*_slow, js_strict_eq2, and the fast paths of    *)
(* OP_add .. OP_strict_neq in JS_CallInternal).                            *)
(*                                                                         *)
(* A value is a record [t, q, s, id].  t is its tag.  q is its number: an  *)
(* int (of IntBits bits) is <<v, 1>>, a double is an exact fraction        *)
(* <<num, den>> in lowest terms, with <<0, -1>> for -0, <<1, 0>> and       *)
(* <<-1, 0>> for the infinities and <<0, 0>> for NaN; rounding to 53 bits  *)
(* is left out.  s is the text of a string, a sequence of pieces; id names *)
(* an object or a symbol.  A conversion of an object calls script code, so *)
(* every operator returns [v, log]: the value (tag "exception" when it     *)
(* throws) and the calls that were made.                                   *)
(* Operator overloading and the math mode are never enabled by the binding.*)
(***************************************************************************)
EXTENDS Integers, Sequences, SequencesExt, Bitwise

CONSTANTS IntBits,     \* bits of an int (32)
          Convert      \* object -> [toPrimitive, valueOf, toString |-> value, tag "none" when there is no such method]

IntMax == 2 ^ (IntBits - 1) - 1
IntMin == -(2 ^ (IntBits - 1))
Wrap(n) == ((n - IntMin) % 2 ^ IntBits) + IntMin

-----------------------------------------------------------------------------
(* Doubles. *)

NaN == <<0, 0>>
Zero == <<0, 1>>
NegZero == <<0, -1>>
Inf == <<1, 0>>

Abs(n) == IF n < 0 THEN -n ELSE n
IsNaN(x) == x = NaN
IsZero(x) == x[1] = 0 /\ x[2] # 0
IsInf(x) == x[1] # 0 /\ x[2] = 0
Finite(x) == x[2] # 0
Negative(x) == x[1] < 0 \/ x = NegZero

RECURSIVE Gcd(_, _)
Gcd(a, b) == IF b = 0 THEN a ELSE Gcd(b, a % b)

\* The fraction n / d, d > 0.
Frac(n, d) == LET g == Gcd(Abs(n), d) IN <<n \div g, d \div g>>
Signed(neg, x) ==
    IF IsNaN(x) THEN x ELSE IF x[1] = 0 THEN IF neg THEN NegZero ELSE Zero
    ELSE <<IF neg THEN -Abs(x[1]) ELSE Abs(x[1]), x[2]>>
FNeg(x) == IF IsNaN(x) THEN x ELSE Signed(~Negative(x), x)
Trunc(x) == IF x[1] < 0 THEN -(Abs(x[1]) \div x[2]) ELSE x[1] \div Abs(x[2])

FAdd(x, y) ==
    IF IsNaN(x) \/ IsNaN(y) \/ (IsInf(x) /\ IsInf(y) /\ x # y) THEN NaN
    ELSE IF IsInf(x) THEN x ELSE IF IsInf(y) THEN y
    ELSE IF IsZero(x) /\ IsZero(y) THEN IF x = NegZero /\ y = NegZero THEN NegZero ELSE Zero
    ELSE IF IsZero(x) THEN y ELSE IF IsZero(y) THEN x
    ELSE Frac(x[1] * y[2] + y[1] * x[2], x[2] * y[2])

FMul(x, y) ==
    LET neg == Negative(x) # Negative(y)
    IN  IF IsNaN(x) \/ IsNaN(y) \/ (IsInf(x) /\ IsZero(y)) \/ (IsZero(x) /\ IsInf(y)) THEN NaN
        ELSE IF IsInf(x) \/ IsInf(y) THEN Signed(neg, Inf)
        ELSE IF IsZero(x) \/ IsZero(y) THEN Signed(neg, Zero)
        ELSE Frac(x[1] * y[1], x[2] * y[2])

FInverse(y) == IF IsZero(y) THEN Signed(Negative(y), Inf) ELSE IF IsInf(y) THEN Signed(Negative(y), Zero)
               ELSE IF IsNaN(y) THEN NaN ELSE Signed(Negative(y), <<y[2], Abs(y[1])>>)
FDiv(x, y) == FMul(x, FInverse(y))

fmod(x, y) ==
    IF IsNaN(x) \/ IsNaN(y) \/ IsInf(x) \/ IsZero(y) THEN NaN
    ELSE IF IsInf(y) \/ IsZero(x) THEN x
    ELSE LET n == Trunc(FDiv(x, y))
         IN  Signed(Negative(x), FAdd(x, FMul(<<-n, 1>>, y)))

\* C's pow, for an exponent that is an integer or not finite.
RECURSIVE Power(_, _)
Power(x, n) == IF n = 0 THEN <<1, 1>> ELSE FMul(x, Power(x, n - 1))
pow(x, y) ==
    IF IsZero(y) THEN <<1, 1>>
    ELSE IF IsNaN(x) \/ IsNaN(y) THEN NaN
    ELSE IF IsInf(y) THEN
        IF x[2] # 0 /\ Abs(x[1]) = Abs(x[2]) THEN <<1, 1>>
        ELSE IF (x[2] = 0 \/ Abs(x[1]) > x[2]) = (y = Inf) THEN Inf ELSE Zero
    ELSE IF y[1] < 0 THEN FInverse(Power(x, -y[1])) ELSE Power(x, y[1])

js_pow(x, y) == IF ~Finite(y) /\ Finite(x) /\ Abs(x[1]) = Abs(x[2]) THEN NaN ELSE pow(x, y)

FLess(x, y) ==
    IF IsNaN(x) \/ IsNaN(y) THEN FALSE
    ELSE IF IsInf(x) \/ IsInf(y) THEN x # y /\ (x = <<-1, 0>> \/ y = Inf)
    ELSE x[1] * Abs(y[2]) < y[1] * Abs(x[2])
FEqual(x, y) == ~IsNaN(x) /\ (x = y \/ (IsZero(x) /\ IsZero(y)))

-----------------------------------------------------------------------------
(* Values. *)

Value(t, q) == [t |-> t, q |-> q, s |-> <<>>, id |-> 0]
Float(q) == Value("float", q)
Int_(v) == Value("int", <<v, 1>>)
Big(v) == Value("bigint", <<v, 1>>)
Bool(b) == Value("bool", IF b THEN <<1, 1>> ELSE Zero)
Undefined == Value("undefined", Zero)
Null == Value("null", Zero)
Text(s) == [t |-> "string", q |-> Zero, s |-> s, id |-> 0]
Object(i) == [t |-> "object", q |-> Zero, s |-> <<>>, id |-> i]
Throw(why) == [t |-> "exception", q |-> Zero, s |-> <<<<why, Zero>>>>, id |-> 0]
None == Value("none", Zero)

Fits(n) == n \in IntMin..IntMax
JS_NewInt64(n) == IF Fits(n) THEN Int_(n) ELSE Float(<<n, 1>>)
JS_NewFloat64(q) == IF q[2] = 1 /\ Fits(q[1]) THEN Int_(q[1]) ELSE Float(q)
JS_NewUint32(n) == IF n <= IntMax THEN Int_(n) ELSE Float(<<n, 1>>)

\* What a computation has come to, and how it goes on unless it has thrown.
Done(v, log) == [v |-> v, log |-> log]
Failed(r) == r.v.t = "exception"

\* A piece of text is a word or the text of a number: <<"num", q>>.
NumberText(q) == <<"num", IF q = NegZero THEN Zero ELSE q>>
NumberOf(s) ==
    IF s = <<>> THEN Zero ELSE IF Len(s) = 1 /\ s[1][1] = "num" THEN s[1][2] ELSE NaN
JS_StringToBigInt(v) ==
    LET q == NumberOf(v.s) IN IF Abs(q[2]) = 1 THEN Big(q[1]) ELSE Float(NaN)

JS_ToString(v) ==
    CASE v.t = "string" -> v
      [] v.t \in {"int", "float", "bigint"} -> Text(<<NumberText(v.q)>>)
      [] v.t = "bool" -> Text(<<<<IF v.q = Zero THEN "false" ELSE "true", Zero>>>>)
      [] v.t = "symbol" -> Throw("TypeError")
      [] OTHER -> Text(<<<<v.t, Zero>>>>)

JS_ConcatString(a, b) ==
    LET x == JS_ToString(a)
        y == JS_ToString(b)
    IN  IF x.t = "exception" THEN x ELSE IF y.t = "exception" THEN y ELSE Text(x.s \o y.s)

\* The order of texts: words after numbers, numbers (of one digit) by value.
Rank(p) == IF p[1] = "num" THEN p[2][1] ELSE 100
js_string_less(s, r) ==
    LET n == IF Len(s) < Len(r) THEN Len(s) ELSE Len(r)
    IN  \/ \E i \in 1..n : Rank(s[i]) < Rank(r[i]) /\ \A k \in 1..(i - 1) : s[k] = r[k]
        \/ Len(s) < Len(r) /\ \A k \in 1..n : s[k] = r[k]
-----------------------------------------------------------------------------
(* Conversions of objects and values. *)

Methods(hint) == IF hint = "string" THEN <<"toString", "valueOf">> ELSE <<"valueOf", "toString">>

\* Calls the methods in turn until one gives a primitive value.
JS_ToPrimitiveFree(v, hint, log) ==
    LET o == Convert[v.id]
        exotic == o["toPrimitive"]
        called == Append(log, <<v.id, "toPrimitive", hint>>)
        m == Methods(hint)
        Call(i) == o[m[i]]
        Logged(l, i) == IF Call(i).t = "none" THEN l ELSE Append(l, <<v.id, m[i], "">>)
        l1 == Logged(log, 1)
        l2 == Logged(l1, 2)
    IN  IF v.t # "object" THEN Done(v, log)
        ELSE IF exotic.t # "none" THEN
            Done(IF exotic.t = "object" THEN Throw("TypeError") ELSE exotic, called)
        ELSE IF Call(1).t \notin {"none", "object"} THEN Done(Call(1), l1)
        ELSE IF Call(2).t \notin {"none", "object"} THEN Done(Call(2), l2)
        ELSE Done(Throw("TypeError"), l2)

\* The number of a primitive value, a bigint as it is.
ToNumericPrimitive(v) ==
    CASE v.t \in {"int", "float", "bigint", "exception"} -> v
      [] v.t \in {"bool", "null"} -> Int_(v.q[1])
      [] v.t = "undefined" -> Float(NaN)
      [] v.t = "string" -> JS_NewFloat64(NumberOf(v.s))
      [] v.t = "symbol" -> Throw("TypeError")

JS_ToNumericFree(v, log) ==
    LET p == JS_ToPrimitiveFree(v, "number", log) IN Done(ToNumericPrimitive(p.v), p.log)

\* To an int, modulo 2^IntBits.
JS_ToInt32Free(v) ==
    IF v.t # "float" THEN v.q[1]
    ELSE IF ~Finite(v.q) THEN 0
    ELSE IF Abs(Trunc(v.q)) <= IntMax THEN Trunc(v.q)
    ELSE Wrap(IF v.q[1] < 0 THEN -(Abs(Trunc(v.q)) % 2 ^ IntBits) ELSE Trunc(v.q) % 2 ^ IntBits)
JS_ToUint32Free(v) == JS_ToInt32Free(v) % 2 ^ IntBits

JS_ToBoolFree(v) ==
    CASE v.t \in {"int", "bool", "null", "undefined", "bigint"} -> v.q[1] # 0
      [] v.t = "float" -> ~IsNaN(v.q) /\ ~IsZero(v.q)
      [] v.t = "string" -> v.s # <<>>
      [] OTHER -> TRUE

-----------------------------------------------------------------------------
(* Arithmetic. *)

\* Truncating division and remainder of big integers.
BigQuot(a, b) == IF (a < 0) = (b < 0) THEN Abs(a) \div Abs(b) ELSE -(Abs(a) \div Abs(b))
Shifted(a, n) == IF n >= 0 THEN a * 2 ^ n ELSE a \div 2 ^ (-n)
\* & | ^ on integers of any sign, in two's complement.
Bits(op, a, b, w) ==
    LET x == a % 2 ^ w
        y == b % 2 ^ w
        r == IF op = "and" THEN x & y ELSE IF op = "or" THEN x | y ELSE x ^^ y
    IN  IF r >= 2 ^ (w - 1) THEN r - 2 ^ w ELSE r
BigBits == 12

js_binary_arith_bigint(op, x, y) ==
    LET a == x.q[1]
        b == y.q[1]
    IN  IF x.t # "bigint" \/ y.t # "bigint" THEN Throw("TypeError")
        ELSE CASE op = "add" -> Big(a + b)
               [] op = "sub" -> Big(a - b)
               [] op = "mul" -> Big(a * b)
               [] op = "div" -> IF b = 0 THEN Throw("RangeError") ELSE Big(BigQuot(a, b))
               [] op = "mod" -> IF b = 0 THEN Throw("RangeError") ELSE Big(a - b * BigQuot(a, b))
               [] op = "pow" -> IF b < 0 THEN Throw("RangeError") ELSE Big(Power(<<a, 1>>, b)[1])
               [] op = "shl" -> Big(Shifted(a, b))
               [] op = "sar" -> Big(Shifted(a, -b))
               [] OTHER -> Big(Bits(op, a, b, BigBits))

js_unary_arith_bigint(op, x) ==
    LET a == x.q[1]
    IN  CASE op = "plus" -> Throw("TypeError")
          [] op = "inc" -> Big(a + 1)
          [] op = "dec" -> Big(a - 1)
          [] op = "neg" -> Big(-a)
          [] op = "not" -> Big(-(a + 1))

FloatOp(op, x, y) ==
    CASE op = "add" -> FAdd(x, y)
      [] op = "sub" -> FAdd(x, FNeg(y))
      [] op = "mul" -> FMul(x, y)
      [] op = "div" -> FDiv(x, y)
      [] op = "mod" -> fmod(x, y)
      [] op = "pow" -> js_pow(x, y)

\* Both are ints: the result in 64 bits.
IntOp(op, a, b) ==
    CASE op = "add" -> JS_NewInt64(a + b)
      [] op = "sub" -> JS_NewInt64(a - b)
      [] op = "mul" -> IF a * b = 0 /\ (a < 0 \/ b < 0) THEN Float(NegZero) ELSE JS_NewInt64(a * b)
      [] op = "div" -> Float(FDiv(<<a, 1>>, <<b, 1>>))
      [] op = "mod" -> IF a < 0 \/ b <= 0 THEN JS_NewFloat64(fmod(<<a, 1>>, <<b, 1>>)) ELSE JS_NewInt64(a % b)
      [] op = "pow" -> JS_NewFloat64(js_pow(<<a, 1>>, <<b, 1>>))

\* Both operands are converted, the first one first, and op is applied.
Both(x, y, log, Op(_, _)) ==
    LET a == JS_ToNumericFree(x, log)
        b == JS_ToNumericFree(y, a.log)
    IN  IF Failed(a) THEN a ELSE IF Failed(b) THEN b ELSE Done(Op(a.v, b.v), b.log)

Arith(op, a, b) ==
    IF a.t = "int" /\ b.t = "int" THEN IntOp(op, a.q[1], b.q[1])
    ELSE IF "bigint" \in {a.t, b.t} THEN js_binary_arith_bigint(op, a, b)
    ELSE Float(FloatOp(op, a.q, b.q))

js_binary_arith_slow(op, x, y, log) == Both(x, y, log, LAMBDA a, b : Arith(op, a, b))

js_add_slow(x, y, log) ==
    LET a == JS_ToPrimitiveFree(x, "default", log)
        b == JS_ToPrimitiveFree(y, "default", a.log)
    IN  IF Failed(a) THEN a ELSE IF Failed(b) THEN b
        ELSE IF "string" \in {a.v.t, b.v.t} THEN Done(JS_ConcatString(a.v, b.v), b.log)
        ELSE js_binary_arith_slow("add", a.v, b.v, b.log)

js_unary_arith_slow(op, x, log) ==
    LET a == JS_ToNumericFree(x, log)
        v == a.v.q[1]
    IN  IF Failed(a) THEN a
        ELSE Done(CASE a.v.t = "int" /\ op = "neg" -> IF v = 0 THEN Float(NegZero) ELSE JS_NewInt64(-v)
                    [] a.v.t = "int" -> JS_NewInt64(v + (CASE op = "inc" -> 1 [] op = "dec" -> -1 [] OTHER -> 0))
                    [] a.v.t = "bigint" -> js_unary_arith_bigint(op, a.v)
                    [] OTHER -> Float(CASE op = "neg" -> FNeg(a.v.q) [] op = "inc" -> FAdd(a.v.q, <<1, 1>>)
                                        [] op = "dec" -> FAdd(a.v.q, <<-1, 1>>) [] OTHER -> a.v.q), a.log)

js_not_slow(x, log) ==
    LET a == JS_ToNumericFree(x, log)
    IN  IF Failed(a) THEN a
        ELSE Done(IF a.v.t = "bigint" THEN js_unary_arith_bigint("not", a.v) ELSE Int_(-1 - JS_ToInt32Free(a.v)), a.log)

\* The shift counts only its low bits.
Count(n) == n % IntBits
Logic(op, a, b) ==
    CASE op = "shl" -> Wrap(a * 2 ^ Count(b))
      [] op = "sar" -> a \div 2 ^ Count(b)
      [] OTHER -> Bits(op, a, b, IntBits)

js_binary_logic_slow(op, x, y, log) ==
    Both(x, y, log, LAMBDA a, b : IF "bigint" \in {a.t, b.t} THEN js_binary_arith_bigint(op, a, b)
                                  ELSE Int_(Logic(op, JS_ToInt32Free(a), JS_ToInt32Free(b))))

js_shr_slow(x, y, log) ==
    Both(x, y, log, LAMBDA a, b : IF "bigint" \in {a.t, b.t} THEN Throw("TypeError")
                                  ELSE JS_NewUint32(JS_ToUint32Free(a) \div 2 ^ Count(JS_ToUint32Free(b))))

-----------------------------------------------------------------------------
(* Comparisons. *)

Numeric == {"int", "float", "bigint"}

\* The mode is "strict", "same value" or "same value zero".
NumberTest(x, y, mode) ==
    CASE mode = "strict" -> FEqual(x, y)
      [] IsNaN(x) \/ IsNaN(y) -> IsNaN(x) = IsNaN(y)
      [] mode = "zero" -> FEqual(x, y)
      [] OTHER -> x = y

js_strict_eq2(x, y, mode) ==
    CASE x.t \in {"int", "float"} -> y.t \in {"int", "float"} /\ NumberTest(x.q, y.q, mode)
      [] x.t # y.t -> FALSE
      [] x.t \in {"bool", "bigint"} -> x.q[1] = y.q[1]
      [] x.t = "string" -> x.s = y.s
      [] x.t \in {"object", "symbol"} -> x.id = y.id
      [] OTHER -> TRUE

js_strict_eq(x, y) == js_strict_eq2(x, y, "strict")
js_same_value(x, y) == js_strict_eq2(x, y, "same")
js_same_value_zero(x, y) == js_strict_eq2(x, y, "zero")

Compare(op, less, equal, greater) ==
    CASE op = "lt" -> less [] op = "lte" -> less \/ equal [] op = "gt" -> greater [] op = "gte" -> greater \/ equal

FCompare(op, x, y) == Compare(op, FLess(x, y), FEqual(x, y), FLess(y, x))

js_relational_slow(op, x, y, log) ==
    LET a == JS_ToPrimitiveFree(x, "number", log)
        b == JS_ToPrimitiveFree(y, "number", a.log)
        u == IF a.v.t = "string" THEN JS_StringToBigInt(a.v) ELSE a.v
        v == IF b.v.t = "string" THEN JS_StringToBigInt(b.v) ELSE b.v
        m == ToNumericPrimitive(a.v)
        n == ToNumericPrimitive(b.v)
    IN  IF Failed(a) THEN a ELSE IF Failed(b) THEN b
        ELSE Done(IF a.v.t = "string" /\ b.v.t = "string" THEN
                      Bool(Compare(op, js_string_less(a.v.s, b.v.s), a.v.s = b.v.s, js_string_less(b.v.s, a.v.s)))
                  ELSE IF {a.v.t, b.v.t} = {"string", "bigint"} THEN
                      Bool(u.t = "bigint" /\ v.t = "bigint" /\ FCompare(op, u.q, v.q))
                  ELSE IF m.t = "exception" THEN m ELSE IF n.t = "exception" THEN n
                  ELSE Bool(FCompare(op, m.q, n.q)), b.log)

\* An object is compared with a primitive value of these.
Convertible == Numeric \cup {"string", "symbol"}

\* Goes on with a converted operand until the kinds can be compared.
RECURSIVE js_eq_slow(_, _, _)
js_eq_slow(x, y, log) ==
    LET T == {x.t, y.t}
        big(v) == IF v.t = "string" THEN JS_StringToBigInt(v) ELSE v
        a == JS_ToPrimitiveFree(x, "default", log)
        b == JS_ToPrimitiveFree(y, "default", a.log)
    IN  IF T \subseteq Numeric THEN Done(Bool(FEqual(x.q, y.q)), log)
        ELSE IF x.t = y.t THEN Done(Bool(js_strict_eq(x, y)), log)
        ELSE IF T = {"null", "undefined"} THEN Done(Bool(TRUE), log)
        ELSE IF "string" \in T /\ T \cap Numeric # {} THEN
            IF "bigint" \in T THEN
                Done(Bool(big(x).t = "bigint" /\ big(y).t = "bigint" /\ js_strict_eq(big(x), big(y))), log)
            ELSE Done(Bool(js_strict_eq(ToNumericPrimitive(x), ToNumericPrimitive(y))), log)
        ELSE IF x.t = "bool" THEN js_eq_slow(Int_(x.q[1]), y, log)
        ELSE IF y.t = "bool" THEN js_eq_slow(x, Int_(y.q[1]), log)
        ELSE IF "object" \in T /\ T \cap Convertible # {} THEN
            IF Failed(a) THEN a ELSE IF Failed(b) THEN b ELSE js_eq_slow(a.v, b.v, b.log)
        ELSE Done(Bool(FALSE), log)

-----------------------------------------------------------------------------
(* The instructions, with their fast paths for ints and floats. *)

BothInt(x, y) == x.t = "int" /\ y.t = "int"
BothFloat(x, y) == x.t = "float" /\ y.t = "float"

op_add(x, y, log) ==
    IF BothInt(x, y) /\ Fits(x.q[1] + y.q[1]) THEN Done(Int_(x.q[1] + y.q[1]), log)
    ELSE IF BothFloat(x, y) THEN Done(Float(FAdd(x.q, y.q)), log)
    ELSE js_add_slow(x, y, log)

op_sub(x, y, log) ==
    IF BothInt(x, y) /\ Fits(x.q[1] - y.q[1]) THEN Done(Int_(x.q[1] - y.q[1]), log)
    ELSE IF BothFloat(x, y) THEN Done(Float(FAdd(x.q, FNeg(y.q))), log)
    ELSE js_binary_arith_slow("sub", x, y, log)

\* Forgets that a product of ints can be -0.
op_mul_Int(x, y, log) ==
    IF BothInt(x, y) THEN Done(JS_NewInt64(x.q[1] * y.q[1]), log)
    ELSE IF BothFloat(x, y) THEN Done(Float(FMul(x.q, y.q)), log)
    ELSE js_binary_arith_slow("mul", x, y, log)

op_mul(x, y, log) ==
    LET r == x.q[1] * y.q[1]
    IN  IF BothInt(x, y) THEN
            Done(IF ~Fits(r) THEN Float(<<r, 1>>)
                 ELSE IF r = 0 /\ (x.q[1] < 0 \/ y.q[1] < 0) THEN Float(NegZero) ELSE Int_(r), log)
        ELSE IF BothFloat(x, y) THEN Done(Float(FMul(x.q, y.q)), log)
        ELSE js_binary_arith_slow("mul", x, y, log)

op_div(x, y, log) ==
    IF BothInt(x, y) THEN Done(JS_NewFloat64(FDiv(x.q, y.q)), log) ELSE js_binary_arith_slow("div", x, y, log)

op_mod(x, y, log) ==
    IF BothInt(x, y) /\ x.q[1] >= 0 /\ y.q[1] > 0 THEN Done(Int_(x.q[1] % y.q[1]), log)
    ELSE js_binary_arith_slow("mod", x, y, log)

op_plus(x, log) == IF x.t \in {"int", "float"} THEN Done(x, log) ELSE js_unary_arith_slow("plus", x, log)

op_neg(x, log) ==
    LET v == x.q[1]
    IN  IF x.t = "int" THEN Done(IF v = 0 THEN Float(NegZero) ELSE IF v = IntMin THEN Float(<<-v, 1>>) ELSE Int_(-v), log)
        ELSE IF x.t = "float" THEN Done(Float(FNeg(x.q)), log)
        ELSE js_unary_arith_slow("neg", x, log)

\* ++ and -- on the stack or, with their own instructions, on a local variable.
op_inc(op, x, log) ==
    LET limit == IF op = "inc" THEN IntMax ELSE IntMin
    IN  IF x.t = "int" /\ x.q[1] # limit THEN Done(Int_(x.q[1] + (IF op = "inc" THEN 1 ELSE -1)), log)
        ELSE js_unary_arith_slow(op, x, log)

op_not(x, log) == IF x.t = "int" THEN Done(Int_(-1 - x.q[1]), log) ELSE js_not_slow(x, log)

op_logic(op, x, y, log) ==
    IF BothInt(x, y) THEN Done(Int_(Logic(op, x.q[1], y.q[1])), log) ELSE js_binary_logic_slow(op, x, y, log)

op_shr(x, y, log) ==
    IF BothInt(x, y) THEN Done(JS_NewUint32((x.q[1] % 2 ^ IntBits) \div 2 ^ Count(y.q[1])), log)
    ELSE js_shr_slow(x, y, log)

OP_CMP(op, x, y, log) ==
    IF op \in {"lt", "lte", "gt", "gte"} THEN
        IF BothInt(x, y) THEN Done(Bool(Compare(op, x.q[1] < y.q[1], x.q[1] = y.q[1], x.q[1] > y.q[1])), log)
        ELSE js_relational_slow(op, x, y, log)
    ELSE IF BothInt(x, y) THEN Done(Bool(x.q[1] = y.q[1]), log)
    ELSE IF op = "eq" THEN js_eq_slow(x, y, log)
    ELSE Done(Bool(js_strict_eq(x, y)), log)

Binary(op, x, y, log) ==
    CASE op = "add" -> op_add(x, y, log) [] op = "sub" -> op_sub(x, y, log) [] op = "mul" -> op_mul(x, y, log)
      [] op = "div" -> op_div(x, y, log) [] op = "mod" -> op_mod(x, y, log)
      [] op = "pow" -> js_binary_arith_slow(op, x, y, log) [] op = "shr" -> op_shr(x, y, log)
      [] op \in {"shl", "sar", "and", "or", "xor"} -> op_logic(op, x, y, log)
      [] OTHER -> OP_CMP(op, x, y, log)

Unary(op, x, log) ==
    CASE op = "plus" -> op_plus(x, log) [] op = "neg" -> op_neg(x, log) [] op = "not" -> op_not(x, log)
      [] OTHER -> op_inc(op, x, log)

\* x += y for a local variable x, whose value script code of y's conversion may
\* set to new (None when it leaves it alone).
op_add_loc(x, y, new) ==
    LET p == JS_ToPrimitiveFree(y, "default", <<>>)
        now == IF p.log # <<>> /\ new.t # "none" THEN new ELSE x
    IN  IF x.t = "string" THEN IF Failed(p) THEN p ELSE Done(JS_ConcatString(now, p.v), p.log)
        ELSE op_add(x, y, <<>>)

-----------------------------------------------------------------------------
(* What the code is to guarantee: the operators are those of ECMAScript, where *)
(* a number is a number whatever its tag.                                      *)

Relational == {"lt", "lte", "gt", "gte"}
Mean(v) == IF v.t \in {"int", "float"} THEN Float(v.q) ELSE v

\* A number as an int: its integer part modulo 2^IntBits.
ToInt(q) == IF Finite(q) THEN Wrap(Trunc(q)) ELSE 0

OnNumbers(op, x, y) ==
    LET n == ToInt(y) % IntBits
    IN  CASE op \in Relational -> Bool(FCompare(op, x, y))
          [] op = "shr" -> Float(<<(ToInt(x) % 2 ^ IntBits) \div 2 ^ n, 1>>)
          [] op = "shl" -> Float(<<Wrap(ToInt(x) * 2 ^ n), 1>>)
          [] op = "sar" -> Float(<<ToInt(x) \div 2 ^ n, 1>>)
          [] op \in {"and", "or", "xor"} -> Float(<<Bits(op, ToInt(x), ToInt(y), IntBits), 1>>)
          [] OTHER -> Float(FloatOp(op, x, y))

\* On primitive values.
OnPrimitives(op, x, y) ==
    LET a == ToNumericPrimitive(x)
        b == ToNumericPrimitive(y)
    IN  IF op = "add" /\ "string" \in {x.t, y.t} THEN JS_ConcatString(x, y)
        ELSE IF op \in Relational /\ x.t = "string" /\ y.t = "string" THEN
            Bool(Compare(op, js_string_less(x.s, y.s), x.s = y.s, js_string_less(y.s, x.s)))
        ELSE IF op \in Relational /\ {x.t, y.t} = {"string", "bigint"} THEN
            \* text that is not an integer compares with none
            Bool(Abs(a.q[2]) = 1 /\ Abs(b.q[2]) = 1 /\ FCompare(op, a.q, b.q))
        ELSE IF a.t = "exception" THEN a ELSE IF b.t = "exception" THEN b
        ELSE IF a.t = "bigint" /\ b.t = "bigint" /\ op \notin Relational \cup {"shr"} THEN js_binary_arith_bigint(op, a, b)
        ELSE IF "bigint" \in {a.t, b.t} /\ op \notin Relational THEN Throw("TypeError")
        ELSE OnNumbers(op, a.q, b.q)

\* A binary operator converts its operands, the left one first, calling their
\* methods once each, and gives ECMAScript's result: no integer fast path
\* overflows or loses a -0, a NaN or an infinity (OP_add .. OP_gte and their slow
\* paths).  + and comparisons convert both operands to primitive values before
\* either becomes a number.
BinaryExact(op, x, y) ==
    LET hint == IF op = "add" THEN "default" ELSE "number"
        a == JS_ToPrimitiveFree(x, hint, <<>>)
        b == JS_ToPrimitiveFree(y, hint, <<>>)
        early == op \notin Relational \cup {"add"} /\ ToNumericPrimitive(a.v).t = "exception"
        r == Binary(op, x, y, <<>>)
        result == IF Failed(a) THEN a.v ELSE IF early THEN ToNumericPrimitive(a.v)
                  ELSE IF Failed(b) THEN b.v ELSE Mean(OnPrimitives(op, a.v, b.v))
    IN  /\ Mean(r.v) = result
        /\ r.log = (IF Failed(a) \/ early THEN a.log ELSE a.log \o b.log)

\* The same of the unary operators (OP_plus .. OP_not).
UnaryExact(op, x) ==
    LET a == JS_ToNumericFree(x, <<>>)
        q == a.v.q
        meant == CASE op = "plus" -> q [] op = "neg" -> FNeg(q) [] op = "inc" -> FAdd(q, <<1, 1>>)
                   [] op = "dec" -> FAdd(q, <<-1, 1>>) [] op = "not" -> <<-1 - ToInt(q), 1>>
        r == Unary(op, x, <<>>)
    IN  /\ r.log = a.log
        /\ Mean(r.v) = (IF Failed(a) THEN a.v ELSE IF a.v.t = "bigint" THEN js_unary_arith_bigint(op, a.v) ELSE Float(meant))

\* The comparisons fit together: the three strict equalities are equivalences
\* (but for NaN), each finer than the next, and only finer than == across kinds;
\* == is symmetric; and it is what < > <= >= leave for numbers and bigints
\* (js_strict_eq2, js_eq_slow, js_relational_slow).
ComparisonsAgree(x, y, z) ==
    LET Eq(a, b) == OP_CMP("eq", a, b, <<>>).v = Bool(TRUE)
        Strict(a, b) == OP_CMP("strict_eq", a, b, <<>>).v = Bool(TRUE)
        Is(op) == OP_CMP(op, x, y, <<>>).v = Bool(TRUE)
        nan == x.t = "float" /\ IsNaN(x.q)
    IN  /\ js_same_value(x, x) /\ js_same_value_zero(x, x) /\ (Strict(x, x) # nan)
        /\ js_same_value(x, y) => js_same_value_zero(x, y)
        /\ js_same_value_zero(x, y) /\ ~nan => Strict(x, y)
        /\ Strict(x, y) => Eq(x, y) /\ Strict(y, x)
        /\ Eq(x, y) = Eq(y, x)
        /\ Mean(x).t = Mean(y).t => Eq(x, y) = Strict(x, y)
        /\ Strict(x, y) /\ Strict(y, z) => Strict(x, z)
        /\ js_same_value(x, y) /\ js_same_value(y, z) => js_same_value(x, z)
        /\ {x.t, y.t} \subseteq Numeric =>
              /\ Eq(x, y) = (Is("lte") /\ Is("gte"))
              /\ Is("lt") = (Is("lte") /\ ~Eq(x, y)) /\ Is("gt") = (Is("gte") /\ ~Eq(x, y))
              /\ (Is("lte") \/ Is("gte")) = (~IsNaN(x.q) /\ ~IsNaN(y.q))

\* The instruction for x += y on a local variable gives what the instructions it
\* replaces give: x is read before y is converted (resolve_labels, OP_add_loc).
AddLocAgrees(x, y, new) == op_add_loc(x, y, new) = op_add(x, y, <<>>)

=============================================================================
