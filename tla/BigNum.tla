-------------------------------- MODULE BigNum ---------------------------------
(* The floating point numbers of libbf.c, binary (bf_t) or decimal (bfdec_t), and    *)
(* what correct rounding means for them.                                             *)
(*                                                                                   *)
(* A number is its sign, exponent, number of limbs and mantissa, the limbs taken     *)
(* together: it stands for m * Radix^(expn - len * LimbDigits), and the upper digit  *)
(* of m is not 0. The special numbers have no limbs and an exponent of their own.    *)
EXTENDS Integers, Sequences, FiniteSets, FiniteSetsExt

CONSTANTS
    Radix,          \* 2 for bf_t, 10 for bfdec_t
    LimbDigits,     \* LIMB_BITS or LIMB_DIGITS
    PrecInf         \* BF_PREC_INF: larger than any precision asked for

EXP_ZERO == -1000
EXP_INF == 1000
EXP_NAN == 1001

Modes == {"RNDN", "RNDZ", "RNDD", "RNDU", "RNDNA", "RNDA", "RNDF"}

Nan == [sign |-> 0, expn |-> EXP_NAN, len |-> 0, m |-> 0]
Zero(sign) == [sign |-> sign, expn |-> EXP_ZERO, len |-> 0, m |-> 0]
Inf(sign) == [sign |-> sign, expn |-> EXP_INF, len |-> 0, m |-> 0]

Limb == Radix ^ LimbDigits
Ceil(a, b) == (a + b - 1) \div b
Xor(a, b) == (a + b) % 2
Least(a, b) == IF a < b THEN a ELSE b
Most(a, b) == IF a > b THEN a ELSE b

\* The digit, and whether there is a digit other than 0, at or below a position.
Digit(r, pos) == IF pos < 0 THEN 0 ELSE (r.m \div Radix ^ pos) % Radix
AnyDigit(r, pos) == pos >= 0 /\ r.m % Radix ^ (pos + 1) # 0

\* Zero limbs below the mantissa are dropped.
RECURSIVE Trim(_)
Trim(r) == IF r.m # 0 /\ r.m % Limb = 0 THEN Trim([r EXCEPT !.m = @ \div Limb, !.len = @ - 1]) ELSE r
\* What rounding keeps of a mantissa.
Keep(r, prec) ==
    LET low == r.len * LimbDigits - prec
    IN  Trim(IF low > 0 THEN [r EXCEPT !.m = @ - (@ % Radix ^ low)] ELSE r)

\* Digits are shifted in until the upper one is not 0; empty limbs are dropped first.
RECURSIVE Shift(_)
Shift(r) ==
    IF r.m < Radix ^ ((r.len - 1) * LimbDigits)
    THEN Shift([r EXCEPT !.len = @ - 1, !.expn = @ - LimbDigits])
    ELSE IF r.m < Radix ^ (r.len * LimbDigits - 1)
    THEN Shift([r EXCEPT !.m = @ * Radix, !.expn = @ - 1])
    ELSE r

bf_cmpu(a, b) ==
    LET len == Most(a.len, b.len)
        x == a.m * Radix ^ ((len - a.len) * LimbDigits)
        y == b.m * Radix ^ ((len - b.len) * LimbDigits)
    IN  IF a.expn # b.expn THEN IF a.expn < b.expn THEN -1 ELSE 1
        ELSE IF x < y THEN -1 ELSE IF x > y THEN 1 ELSE 0

Finite(a) == a.expn < EXP_INF

\* The integer part of a square root (what mp_sqrtrem computes).
RECURSIVE IntSqrt(_)
IntSqrt(x) ==
    LET s == 2 * IntSqrt(x \div 4)
    IN  IF x = 0 THEN 0 ELSE IF (s + 1) * (s + 1) <= x THEN s + 1 ELSE s

-----------------------------------------------------------------------------
(* Correct rounding. A positive number is a fraction <<n, d>>.                       *)

\* The fraction of a finite number, without its sign.
Fraction(a) ==
    LET e == a.expn - a.len * LimbDigits
    IN  IF a.len = 0 THEN <<0, 1>>
        ELSE IF e >= 0 THEN <<a.m * Radix ^ e, 1>> ELSE <<a.m, Radix ^ (-e)>>
Signed(a) == LET f == Fraction(a) IN IF a.sign = 1 THEN <<-f[1], f[2]>> ELSE f
Equal(x, y) == x[1] * y[2] = y[1] * x[2]
Exponents == IF Radix = 2 THEN -16..16 ELSE -4..4
Below(x, e) == IF e >= 0 THEN x[1] < x[2] * Radix ^ e ELSE x[1] * Radix ^ (-e) < x[2]
\* The exponent of a fraction x > 0: Radix^(e-1) <= x < Radix^e.
ExponentOf(x) == CHOOSE e \in Exponents : Below(x, e) /\ ~Below(x, e - 1)

\* The exponent of the last digit that is kept.
LastDigit(x, prec, fl) ==
    LET e == ExponentOf(x)
    IN  IF fl.radpnt THEN -prec
        ELSE IF fl.subnormal /\ e < fl.emin THEN fl.emin - prec ELSE e - prec
\* The two neighbours of x among the multiples of Radix^u.
Scaled(x, u) == IF u >= 0 THEN <<x[1], x[2] * Radix ^ u>> ELSE <<x[1] * Radix ^ (-u), x[2]>>

\* The set of multiples that a rounding mode admits: one, but for faithful rounding.
Admitted(sign, x, u, rnd) ==
    LET s == Scaled(x, u)
        k == s[1] \div s[2]
        rem == 2 * (s[1] % s[2])
        up == IF rem = 0 THEN k ELSE k + 1
        near == IF rem > s[2] \/ (rem = s[2] /\ (rnd = "RNDNA" \/ k % 2 = 1)) THEN k + 1 ELSE k
    IN  CASE rnd \in {"RNDN", "RNDNA"} -> {near}
          [] rnd = "RNDZ" -> {k}
          [] rnd = "RNDA" -> {up}
          [] rnd = "RNDD" -> {IF sign = 1 THEN up ELSE k}
          [] rnd = "RNDU" -> {IF sign = 1 THEN k ELSE up}
          [] rnd = "RNDF" -> {k, up}

\* Overflow goes to infinity unless the mode rounds towards 0 (only bf_t has a
\* largest number to go to instead).
LargestInstead(sign, prec, fl) ==
    /\ Radix = 2 /\ prec # PrecInf
    /\ fl.rnd \in {"RNDZ", "RNDF"} \/ (fl.rnd = "RNDD" /\ sign = 0) \/ (fl.rnd = "RNDU" /\ sign = 1)

\* res = [r, st] is x > 0 with that sign, rounded, and its status says what happened.
\* Underflow is not judged for a precision counted from the radix point, nor inexact
\* for faithful rounding.
Rounded(res, sign, x, prec, fl) ==
    LET r == res.r
        u == LastDigit(x, prec, fl)
        inexact == Scaled(x, u)[1] % Scaled(x, u)[2] # 0
        Meets(k) ==
            LET v == IF u >= 0 THEN <<k * Radix ^ u, 1>> ELSE <<k, Radix ^ (-u)>>
                e == ExponentOf(v)
                st == res.st \ (IF fl.rnd = "RNDF" THEN {"INEXACT"} ELSE {})
                same == IF inexact /\ fl.rnd # "RNDF" THEN {"INEXACT"} ELSE {}
                under == IF fl.rnd = "RNDF" THEN {} ELSE {"INEXACT"}
            IN  IF k = 0 THEN r = Zero(sign) /\ (fl.radpnt \/ "UNDERFLOW" \in res.st)
                ELSE IF e > fl.emax /\ ~fl.radpnt
                THEN /\ "OVERFLOW" \in res.st
                     /\ IF LargestInstead(sign, prec, fl)
                        THEN /\ r.sign = sign /\ r.expn = fl.emax
                             /\ Equal(Fraction(r), <<(2 ^ prec - 1) * 2 ^ Most(0, fl.emax - prec),
                                                     2 ^ Most(0, prec - fl.emax)>>)
                        ELSE r = Inf(sign)
                ELSE IF e < fl.emin /\ ~fl.subnormal /\ ~fl.radpnt
                THEN r = Zero(sign) /\ st = {"UNDERFLOW"} \cup under
                ELSE /\ r.sign = sign /\ r.len > 0
                     /\ Equal(Fraction(r), v)
                     /\ fl.radpnt \/ st = same \cup (IF e < fl.emin /\ inexact THEN {"UNDERFLOW"} ELSE {})
                           \/ fl.rnd = "RNDF"
    IN  IF prec = PrecInf
        THEN r.sign = sign /\ Equal(Fraction(r), x) /\ res.st = {}
        ELSE \E k \in Admitted(sign, x, u, fl.rnd) : Meets(k)

\* Every number the operations return is normal: an upper digit, no empty limb below.
Normal(r) ==
    \/ r.len = 0 /\ r.m = 0 /\ r.expn \in {EXP_ZERO, EXP_INF, EXP_NAN}
    \/ /\ r.len > 0
       /\ r.m \in Radix ^ (r.len * LimbDigits - 1)..Radix ^ (r.len * LimbDigits) - 1
       /\ r.m % Limb # 0
=============================================================================
