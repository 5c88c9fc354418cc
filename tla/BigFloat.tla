-------------------------------- MODULE BigFloat --------------------------------
(* Binary floating point numbers of any precision (bf_t, libbf.c), on which BigInt   *)
(* is built with BF_PREC_INF: rounding, the arithmetic operations, integers, logic   *)
(* and the conversions to machine numbers. An operation returns [r, st], its result *)
(* and the set of status flags. Allocation is assumed to succeed.                    *)
EXTENDS BigNum, SequencesExt

CONSTANTS
    IntBits,            \* 32 or 64: the width of the integers of bf_get_int32/int64
    DoubleExp,          \* 11: the exponent bits of a double
    DoubleFrac          \* 52: its fraction bits

Ok(r) == [r |-> r, st |-> {}]
Invalid == [r |-> Nan, st |-> {"INVALID_OP"}]

\* flags: a rounding mode, what the precision counts, and the exponent range.
Flags(rnd, radpnt, subnormal, exp_bits) ==
    [rnd |-> rnd, radpnt |-> radpnt, subnormal |-> subnormal,
     emin |-> 3 - 2 ^ (exp_bits - 1), emax |-> 2 ^ (exp_bits - 1)]
\* No flag but the mode: the widest range of exponents.
Wide(rnd) == Flags(rnd, FALSE, FALSE, 6)

bf_get_rnd_add(r, prec, rnd) ==
    LET top == r.len * LimbDigits - 1
        bit0 == rnd = "RNDF" \/ AnyDigit(r, top - Most(0, prec + 1))
        bit1 == Digit(r, top - prec) = 1
        inexact == bit0 \/ bit1
    IN  [inexact |-> inexact,
         add |-> CASE rnd = "RNDZ" -> FALSE
                   [] rnd = "RNDN" -> bit1 /\ (bit0 \/ Digit(r, top - (prec - 1)) = 1)
                   [] rnd = "RNDD" -> r.sign = 1 /\ inexact
                   [] rnd = "RNDU" -> r.sign = 0 /\ inexact
                   [] rnd = "RNDA" -> inexact
                   [] rnd \in {"RNDNA", "RNDF"} -> bit1]

bf_set_overflow(sign, prec, fl) ==
    [r |-> IF prec = PrecInf \/ fl.rnd \in {"RNDN", "RNDNA", "RNDA"}
              \/ (fl.rnd = "RNDD" /\ sign = 1) \/ (fl.rnd = "RNDU" /\ sign = 0)
           THEN Inf(sign)
           ELSE LET l == Ceil(prec, LimbDigits)
                IN  [sign |-> sign, expn |-> fl.emax, len |-> l,
                     m |-> Limb ^ l - 2 ^ (l * LimbDigits - prec)],
     st |-> {"OVERFLOW", "INEXACT"}]

\* The precision that is left for a number: fewer bits when it is subnormal.
Precision(r, prec1, fl) ==
    IF fl.radpnt THEN IF prec1 = PrecInf THEN prec1 ELSE r.expn + prec1
    ELSE IF r.expn < fl.emin /\ fl.subnormal THEN prec1 - (fl.emin - r.expn)
    ELSE prec1

\* r is not 0 and its upper bit is set. Faulty variant: a carry out of the mantissa
\* leaves the exponent as it is.
__bf_round_Carry(r, prec1, fl) ==
    LET prec == Precision(r, prec1, fl)
        a == bf_get_rnd_add(r, prec, fl.rnd)
        m1 == r.m + 2 ^ (r.len * LimbDigits - prec)
        up == IF ~a.add THEN r ELSE [r EXCEPT !.m = IF m1 >= Limb ^ r.len THEN m1 \div 2 ELSE m1]
    IN  IF prec <= 0 THEN [r |-> Zero(r.sign), st |-> {"UNDERFLOW", "INEXACT"}]
        ELSE [r |-> Keep(up, prec), st |-> IF a.inexact THEN {"INEXACT"} ELSE {}]
__bf_round(r, prec1, fl) ==
    LET prec == Precision(r, prec1, fl)
        a == bf_get_rnd_add(r, prec, fl.rnd)
        inexact == IF a.inexact THEN {"INEXACT"} ELSE {}
        m1 == r.m + 2 ^ (r.len * LimbDigits - prec)
        up == IF ~a.add THEN r
              ELSE IF m1 >= Limb ^ r.len THEN [r EXCEPT !.m = m1 \div 2, !.expn = @ + 1]
              ELSE [r EXCEPT !.m = m1]
        underflow == [r |-> Zero(r.sign), st |-> {"UNDERFLOW", "INEXACT"}]
    IN  IF prec <= 0
        THEN IF a.add
             THEN [r |-> [r EXCEPT !.len = 1, !.m = Limb \div 2, !.expn = @ + 1 - prec],
                   st |-> {"UNDERFLOW", "INEXACT"}]
             ELSE underflow
        ELSE IF up.expn < fl.emin /\ ~fl.subnormal THEN underflow
        ELSE IF up.expn > fl.emax THEN bf_set_overflow(r.sign, prec1, fl)
        ELSE [r |-> Keep(up, prec),
              st |-> inexact \cup (IF up.expn < fl.emin /\ a.inexact THEN {"UNDERFLOW"} ELSE {})]

bf_round(r, prec, fl) == IF r.len = 0 THEN Ok(r) ELSE __bf_round(r, prec, fl)
bf_normalize_and_round(r, prec, fl) ==
    IF r.m = 0 THEN Ok(Zero(r.sign)) ELSE __bf_round(Shift(r), prec, fl)
bf_rint(r, rnd) == bf_round(r, 0, [Wide(rnd) EXCEPT !.radpnt = TRUE])

bf_set_ui(a) ==
    IF a = 0 THEN Zero(0) ELSE Shift([sign |-> 0, expn |-> LimbDigits, len |-> 1, m |-> a])
bf_set_si(a) == IF a < 0 THEN [bf_set_ui(-a) EXCEPT !.sign = 1] ELSE bf_set_ui(a)

\* -0 < 0, NaN is equal to itself and above everything; and the usual comparison,
\* where 2 is unordered.
bf_cmp_full(a, b) ==
    IF a.expn = EXP_NAN \/ b.expn = EXP_NAN
    THEN IF a.expn = b.expn THEN 0 ELSE IF a.expn = EXP_NAN THEN 1 ELSE -1
    ELSE IF a.sign # b.sign THEN 1 - 2 * a.sign
    ELSE IF a.sign = 1 THEN -bf_cmpu(a, b) ELSE bf_cmpu(a, b)
bf_cmp(a, b) ==
    IF a.expn = EXP_NAN \/ b.expn = EXP_NAN THEN 2
    ELSE IF a.sign # b.sign
    THEN IF a.expn = EXP_ZERO /\ b.expn = EXP_ZERO THEN 0 ELSE 1 - 2 * a.sign
    ELSE IF a.sign = 1 THEN -bf_cmpu(a, b) ELSE bf_cmpu(a, b)

-----------------------------------------------------------------------------
(* Addition. Only the limbs that the precision needs are computed; what lies below  *)
(* them leaves one sticky bit.                                                       *)

\* The bit i places below the upper bit.
BitFromTop(a, i) == Digit(a, a.len * LimbDigits - 1 - i)
\* a > b, with exponents that differ by at most 1: the leading bits that a - b loses.
count_cancelled_bits(a, b) ==
    LET d == a.expn - b.expn
        B2(i) == IF i < d THEN 0 ELSE BitFromTop(b, i - d)
        p == CHOOSE i \in 0..99 : BitFromTop(a, i) # B2(i) /\ \A j \in 0..i - 1 : BitFromTop(a, j) = B2(j)
    IN  CHOOSE n \in p + 1..99 :
            /\ \A j \in p + 1..n - 1 : BitFromTop(a, j) = 0 /\ B2(j) = 1
            /\ ~(BitFromTop(a, n) = 0 /\ B2(n) = 1)

\* r with the limbs above low, and a sticky bit for the ones below.
Sticky(r, low) ==
    LET m == r.m \div Limb ^ low
    IN  [r EXCEPT !.len = @ - low,
                  !.m = IF r.m % Limb ^ low # 0 /\ m % 2 = 0 THEN m + 1 ELSE m]

\* The finite case, |a| >= |b|. Faulty variant: no room is made for cancelled bits.
AddFinite_NoRoom(a, b, sign, is_sub, prec, fl) ==
    LET d == a.expn - b.expn
        tot_len == Most(a.len, b.len + Ceil(d, LimbDigits))
        r_len == Least(Ceil(prec + 2, LimbDigits), tot_len)
        x == a.m * Limb ^ (tot_len - a.len)
        y == b.m * 2 ^ ((tot_len - b.len) * LimbDigits - d)
        sum == IF is_sub THEN x - y ELSE x + y
        r == [sign |-> sign, expn |-> a.expn, len |-> tot_len, m |-> sum]
        carry == IF sum >= Limb ^ tot_len THEN 1 ELSE 0
    IN  bf_normalize_and_round(
            [Sticky(r, tot_len - r_len) EXCEPT !.len = @ + carry, !.expn = @ + carry * LimbDigits], prec, fl)
AddFinite(a, b, sign, is_sub, prec, fl) ==
    LET d == a.expn - b.expn
        cancelled == IF ~is_sub THEN 0 ELSE IF d <= 1 THEN count_cancelled_bits(a, b) ELSE 1
        tot_len == Most(a.len, b.len + Ceil(d, LimbDigits))
        r_len == Least(Ceil(cancelled + prec + 2, LimbDigits), tot_len)
        x == a.m * Limb ^ (tot_len - a.len)
        y == b.m * 2 ^ ((tot_len - b.len) * LimbDigits - d)
        sum == IF is_sub THEN x - y ELSE x + y
        r == [sign |-> sign, expn |-> a.expn, len |-> tot_len, m |-> sum]
        carry == IF sum >= Limb ^ tot_len THEN 1 ELSE 0
    IN  bf_normalize_and_round(
            [Sticky(r, tot_len - r_len) EXCEPT !.len = @ + carry, !.expn = @ + carry * LimbDigits], prec, fl)

bf_add_internal(a1, b1, prec, fl, b_neg) ==
    LET b_sign == Xor(b1.sign, b_neg)
        is_sub == a1.sign # b_sign
        cmp == bf_cmpu(a1, b1)
        a == IF cmp < 0 THEN b1 ELSE a1
        b == IF cmp < 0 THEN a1 ELSE b1
        sign == IF cmp < 0 THEN b_sign ELSE a1.sign
    IN  IF cmp = 0 /\ is_sub /\ Finite(a) THEN Ok(Zero(IF fl.rnd = "RNDD" THEN 1 ELSE 0))
        ELSE IF a.len # 0 /\ b.len # 0 THEN AddFinite(a, b, sign, is_sub, prec, fl)
        ELSE IF a.expn = EXP_NAN THEN Ok(Nan)
        ELSE IF a.expn = EXP_INF
        THEN IF b.expn = EXP_INF /\ is_sub THEN Invalid ELSE Ok(Inf(sign))
        ELSE IF a.len = 0 THEN Ok(Zero(sign))
        ELSE bf_normalize_and_round([a EXCEPT !.sign = sign], prec, fl)
bf_add(a, b, prec, fl) == bf_add_internal(a, b, prec, fl, 0)
bf_sub(a, b, prec, fl) == bf_add_internal(a, b, prec, fl, 1)
bf_add_si(a, b, prec, fl) == bf_add(a, bf_set_si(b), prec, fl)

-----------------------------------------------------------------------------
(* Multiplication, division and square root.                                         *)

\* The upper n limbs.
UpperLimbs(a, n) == [a EXCEPT !.m = @ \div Limb ^ (a.len - n), !.len = n]

bf_mul(a, b, prec, fl) ==
    LET sign == Xor(a.sign, b.sign)
        cut == IF fl.rnd = "RNDF" THEN Ceil(prec + 2, LimbDigits) ELSE Most(a.len, b.len)
        x == UpperLimbs(a, Least(a.len, cut))
        y == UpperLimbs(b, Least(b.len, cut))
    IN  IF a.len # 0 /\ b.len # 0
        THEN bf_normalize_and_round([sign |-> sign, expn |-> a.expn + b.expn, len |-> x.len + y.len,
                                     m |-> x.m * y.m], prec, fl)
        ELSE IF EXP_NAN \in {a.expn, b.expn} THEN Ok(Nan)
        ELSE IF EXP_INF \in {a.expn, b.expn}
        THEN IF EXP_ZERO \in {a.expn, b.expn} THEN Invalid ELSE Ok(Inf(sign))
        ELSE Ok(Zero(sign))

bf_mul_2exp(r, e, prec, fl) ==
    IF r.len = 0 THEN Ok(r) ELSE __bf_round([r EXCEPT !.expn = @ + e], prec, fl)

\* The exponent of the last bit that is set.
bf_get_exp_min(a) ==
    IF a.len = 0 THEN 0
    ELSE a.expn - a.len * LimbDigits + Min({i \in 0..a.len * LimbDigits : Digit(a, i) = 1})

DivFinite(a, b, prec, fl) ==
    LET n == Most(a.len, Ceil(prec + 2, LimbDigits))
        x == a.m * Limb ^ (n + b.len - a.len)
        q == x \div b.m
    IN  bf_normalize_and_round([sign |-> Xor(a.sign, b.sign), expn |-> a.expn - b.expn + LimbDigits,
                                len |-> n + 1,
                                m |-> IF x % b.m # 0 /\ q % 2 = 0 THEN q + 1 ELSE q], prec, fl)
bf_div(a, b, prec, fl) ==
    LET sign == Xor(a.sign, b.sign)
    IN  IF EXP_NAN \in {a.expn, b.expn} THEN Ok(Nan)
        ELSE IF a.expn = EXP_INF THEN IF b.expn = EXP_INF THEN Invalid ELSE Ok(Inf(sign))
        ELSE IF b.expn = EXP_INF THEN Ok(Zero(sign))
        ELSE IF a.expn = EXP_ZERO THEN IF b.expn = EXP_ZERO THEN Invalid ELSE Ok(Zero(sign))
        ELSE IF b.expn = EXP_ZERO THEN [r |-> Inf(sign), st |-> {"DIVIDE_ZERO"}]
        ELSE DivFinite(a, b, prec, fl)

\* <<quotient, remainder>> of a >= 0 by b > 0, the quotient an integer.
bf_tdivremu(a, b) ==
    IF bf_cmpu(a, b) < 0 THEN <<bf_set_ui(0), a>>
    ELSE LET q == bf_rint(bf_div(a, b, Most(a.expn - b.expn + 1, 2), Wide("RNDZ")).r, "RNDZ").r
         IN  <<q, bf_sub(a, bf_mul(q, b, PrecInf, Wide("RNDZ")).r, PrecInf, Wide("RNDZ")).r>>

\* The bit of an integer at a position from the radix point.
IntBit(a, i) == IF a.len = 0 THEN 0 ELSE Digit(a, a.len * LimbDigits - a.expn + i)

\* [q, r, st]: the quotient is rounded to an integer by mode ("EUCLIDIAN" too) and the
\* remainder to prec.
RoundUpQuotient(mode, q, r, b) ==
    LET c == bf_cmpu(r, [b EXCEPT !.expn = @ - 1])
    IN  mode \in {"RNDN", "RNDNA"}
        /\ (c > 0 \/ (c = 0 /\ (mode = "RNDNA" \/ IntBit(q, 0) = 1)))
bf_divrem(a, b, prec, fl, mode) ==
    LET q_sign == Xor(a.sign, b.sign)
        is_ceil == \/ mode = "RNDD" /\ q_sign = 1
                   \/ mode = "RNDU" /\ q_sign = 0
                   \/ mode = "RNDA"
                   \/ mode = "EUCLIDIAN" /\ a.sign = 1
        a1 == [a EXCEPT !.sign = 0]
        b1 == [b EXCEPT !.sign = 0]
        d == bf_tdivremu(a1, b1)
        up == d[2].len # 0 /\ (is_ceil \/ RoundUpQuotient(mode, d[1], d[2], b1))
        q == IF up THEN bf_add_si(d[1], 1, PrecInf, Wide("RNDZ")).r ELSE d[1]
        r == IF up THEN bf_sub(d[2], b1, PrecInf, Wide("RNDZ")).r ELSE d[2]
        res == bf_round([r EXCEPT !.sign = Xor(@, a.sign)], prec, fl)
        first == bf_round(a, prec, fl)
    IN  IF a.len # 0 /\ b.len # 0
        THEN [q |-> [q EXCEPT !.sign = q_sign], r |-> res.r, st |-> res.st]
        ELSE IF EXP_NAN \in {a.expn, b.expn} THEN [q |-> Zero(0), r |-> Nan, st |-> {}]
        ELSE IF a.expn = EXP_INF \/ b.expn = EXP_ZERO
        THEN [q |-> Zero(0), r |-> Nan, st |-> {"INVALID_OP"}]
        ELSE [q |-> Zero(0), r |-> first.r, st |-> first.st]
bf_rem(a, b, prec, fl, mode) == LET d == bf_divrem(a, b, prec, fl, mode) IN [r |-> d.r, st |-> d.st]

\* The mantissa becomes an integer of 2n limbs; an odd exponent shifts it by a bit.
bf_sqrt(a, prec, fl) ==
    LET n == Ceil(2 * (prec + 2), 2 * LimbDigits)
        n1 == Least(2 * n, a.len)
        x == UpperLimbs(a, n1).m * Limb ^ (2 * n - n1)
        x1 == IF a.expn % 2 = 1 THEN x \div 2 ELSE x
        s == IntSqrt(x1)
        rest == (a.expn % 2 = 1 /\ x % 2 = 1) \/ s * s # x1 \/ a.m % Limb ^ (a.len - n1) # 0
    IN  IF a.expn = EXP_NAN THEN Ok(Nan)
        ELSE IF a.expn = EXP_ZERO \/ (a.expn = EXP_INF /\ a.sign = 0) THEN Ok(a)
        ELSE IF a.sign = 1 THEN Invalid
        ELSE bf_round([sign |-> 0, expn |-> (a.expn + 1) \div 2, len |-> n,
                       m |-> IF rest /\ s % 2 = 0 THEN s + 1 ELSE s], prec, fl)

\* [r, rem, st]: the root of an integer, and what is left.
bf_sqrtrem(a) ==
    LET r == bf_rint(bf_sqrt(a, (a.expn + 1) \div 2, Wide("RNDZ")).r, "RNDZ").r
        rem == bf_sub(a, bf_mul(r, r, PrecInf, Wide("RNDZ")).r, PrecInf, Wide("RNDZ")).r
    IN  IF a.len = 0 \/ a.sign = 1
        THEN LET s == bf_sqrt(a, 1, Wide("RNDZ")) IN [r |-> s.r, rem |-> Zero(0), st |-> s.st]
        ELSE [r |-> r, rem |-> rem, st |-> IF rem.len # 0 THEN {"INEXACT"} ELSE {}]

\* Squares and multiplies along the bits of b, from the upper one.
bf_pow_ui(a, b, prec, fl) ==
    LET n == CHOOSE k \in 0..31 : 2 ^ k > b /\ (k = 0 \/ 2 ^ (k - 1) <= b)
        pow[i \in 0..n] ==
            IF i >= n - 1 THEN a
            ELSE LET sq == bf_mul(pow[i + 1], pow[i + 1], prec, fl).r
                 IN  IF (b \div 2 ^ i) % 2 = 1 THEN bf_mul(sq, a, prec, fl).r ELSE sq
    IN  IF b = 0 THEN bf_set_ui(1) ELSE pow[0]

-----------------------------------------------------------------------------
(* Integers: logic in two's complement, and machine integers.                        *)

LogicBit(op, x, y) == CASE op = "OR" -> Most(x, y) [] op = "XOR" -> Xor(x, y) [] op = "AND" -> Least(x, y)

\* A negative number is one more than its complement.
LogicLength(op, a, b, a_sign, b_sign) ==
    IF op = "AND" /\ a_sign * b_sign = 0
    THEN IF a_sign = 0 /\ b_sign = 0 THEN Least(a.expn, b.expn)
         ELSE IF a_sign = 0 THEN a.expn ELSE b.expn
    ELSE Most(a.expn, b.expn)
bf_logic_op(a1, b1, op) ==
    LET a_sign == IF a1.expn <= 0 THEN 0 ELSE a1.sign
        b_sign == IF b1.expn <= 0 THEN 0 ELSE b1.sign
        a == IF a_sign = 1 THEN bf_add_si(a1, 1, PrecInf, Wide("RNDZ")).r ELSE a1
        b == IF b_sign = 1 THEN bf_add_si(b1, 1, PrecInf, Wide("RNDZ")).r ELSE b1
        r_sign == LogicBit(op, a_sign, b_sign)
        l == Ceil(Most(LogicLength(op, a, b, a_sign, b_sign), 1), LimbDigits)
        Bits(i) == Xor(r_sign, LogicBit(op, Xor(IntBit(a, i), a_sign), Xor(IntBit(b, i), b_sign)))
        m == FoldSet(LAMBDA i, sum : sum + Bits(i) * 2 ^ i, 0, 0..l * LimbDigits - 1)
        r == bf_normalize_and_round([sign |-> r_sign, expn |-> l * LimbDigits, len |-> l, m |-> m],
                                    PrecInf, Wide("RNDZ")).r
    IN  IF r_sign = 1 THEN bf_add_si(r, -1, PrecInf, Wide("RNDZ")).r ELSE r

\* The value as a two's complement integer of IntBits bits, truncated towards 0; mod
\* keeps the lower bits of a number that is too large, otherwise it saturates.
IntMax == 2 ^ (IntBits - 1) - 1
Wrapped(v) == LET u == v % 2 ^ IntBits IN IF u > IntMax THEN u - 2 ^ IntBits ELSE u
Truncated(a) == (a.m * 2 ^ Most(0, a.expn - a.len * LimbDigits)) \div 2 ^ Most(0, a.len * LimbDigits - a.expn)
bf_get_int(a, mod) ==
    LET sgn == IF a.sign = 1 THEN -1 ELSE 1
    IN  IF a.expn >= EXP_INF
        THEN [v |-> IF mod THEN 0 ELSE IF a = Inf(1) THEN -IntMax - 1 ELSE IntMax, st |-> {"INVALID_OP"}]
        ELSE IF a.expn <= 0 THEN [v |-> 0, st |-> {}]
        ELSE IF a.expn < IntBits THEN [v |-> sgn * Truncated(a), st |-> {}]
        ELSE IF mod THEN [v |-> Wrapped(sgn * Truncated(a)), st |-> {}]
        ELSE IF a.sign = 0 THEN [v |-> IntMax, st |-> {"INVALID_OP"}]
        ELSE [v |-> -IntMax - 1,
              st |-> IF a.expn = IntBits /\ Truncated(a) = IntMax + 1 THEN {} ELSE {"INVALID_OP"}]
bf_get_uint64(a) ==
    LET max == 2 ^ IntBits - 1
    IN  IF a.expn = EXP_NAN THEN [v |-> max, st |-> {"INVALID_OP"}]
        ELSE IF a.expn <= 0 THEN [v |-> 0, st |-> {}]
        ELSE IF a.sign = 1 THEN [v |-> 0, st |-> {"INVALID_OP"}]
        ELSE IF a.expn <= IntBits THEN [v |-> Truncated(a), st |-> {}]
        ELSE [v |-> max, st |-> {"INVALID_OP"}]

-----------------------------------------------------------------------------
(* Doubles: <<sign, exponent, fraction>> as they are stored. A double has the width  *)
(* of a limb, as in the 64 bit build.                                                *)

Bias == 2 ^ (DoubleExp - 1) - 1
DoubleMax == 2 ^ DoubleExp - 1

bf_get_float64(a, rnd) ==
    LET b == IF Finite(a) THEN bf_round(a, DoubleFrac + 1, Flags(rnd, FALSE, TRUE, DoubleExp)) ELSE Ok(a)
        e == b.r.expn + Bias - 1
    IN  IF a.expn = EXP_NAN THEN [d |-> <<0, DoubleMax, 2 ^ (DoubleFrac - 1)>>, st |-> {}]
        ELSE [st |-> b.st,
              d |-> IF b.r.expn = EXP_INF THEN <<b.r.sign, DoubleMax, 0>>
                    ELSE IF b.r.expn = EXP_ZERO THEN <<b.r.sign, 0, 0>>
                    ELSE IF e <= 0 THEN <<b.r.sign, 0, b.r.m \div 2 ^ (DoubleExp + 1 - e)>>
                    ELSE <<b.r.sign, e, ((b.r.m * 2) % Limb) \div 2 ^ (DoubleExp + 1)>>]
bf_set_float64(d) ==
    LET shift == CHOOSE k \in 0..DoubleFrac : d[3] * 2 ^ k \in 2 ^ (DoubleFrac - 1)..2 ^ DoubleFrac - 1
        Made(m, e) == [sign |-> d[1], expn |-> e - Bias + 1, len |-> 1, m |-> m]
    IN  IF d[2] = DoubleMax THEN IF d[3] # 0 THEN Nan ELSE Inf(d[1])
        ELSE IF d[2] # 0 THEN Made(d[3] * 2 ^ DoubleExp + Limb \div 2, d[2])
        ELSE IF d[3] # 0 THEN Made(d[3] * 2 ^ (DoubleExp + 1 + shift), -shift)
        ELSE Zero(d[1])

-----------------------------------------------------------------------------
(* What the operations promise.                                                      *)

Sum(x, y) == <<x[1] * y[2] + y[1] * x[2], x[2] * y[2]>>
Magnitude(x) == IF x[1] < 0 THEN <<-x[1], x[2]>> ELSE x
SignOf(x) == IF x[1] < 0 THEN 1 ELSE 0
\* A fraction that rounds to prec bits as the square root of x does: the root itself,
\* or a number strictly between two fine steps.
RootOf(x, prec) ==
    LET k == prec + 4
        e == ExponentOf(x)
        y == Scaled(x, 2 * (e \div 2) - 2 * k)
        s == IntSqrt(y[1] \div y[2])
        v == IF s * s * y[2] = y[1] THEN <<2 * s, 2>> ELSE <<2 * s + 1, 2>>
    IN  Scaled(v, k - e \div 2)

\* Sums, differences, products, quotients and square roots are the exact results
\* correctly rounded, with the status of the rounding, and are normal numbers
\* (bf_add_internal, bf_mul, __bf_div, bf_sqrt and __bf_round under them).
ArithmeticRounds(a, b, prec, fl) ==
    LET x == Signed(a)
        y == Signed(b)
        Good(res, z) == /\ Normal(res.r)
                        /\ IF z[1] = 0 THEN res = Ok(Zero(IF fl.rnd = "RNDD" THEN 1 ELSE 0))
                           ELSE Rounded(res, SignOf(z), Magnitude(z), prec, fl)
    IN  /\ Good(bf_add(a, b, prec, fl), Sum(x, y))
        /\ Good(bf_sub(a, b, prec, fl), Sum(x, <<-y[1], y[2]>>))
        /\ Good(bf_mul(a, b, prec, fl), <<x[1] * y[1], x[2] * y[2]>>)
        /\ prec # PrecInf =>
            /\ Good(bf_div(a, b, prec, fl),
                    IF y[1] < 0 THEN <<-x[1] * y[2], -x[2] * y[1]>> ELSE <<x[1] * y[2], x[2] * y[1]>>)
            /\ a.sign = 0 => Good(bf_sqrt(a, prec, fl), RootOf(x, prec))

\* An integer as a normal number of as many limbs as it needs.
Number(v) ==
    IF v = 0 THEN Zero(0)
    ELSE Trim(Shift([sign |-> IF v < 0 THEN 1 ELSE 0, expn |-> 4 * LimbDigits, len |-> 4,
                     m |-> IF v < 0 THEN -v ELSE v]))

\* For integers a and b # 0: the quotient is a / b rounded by the mode, or leaves a
\* remainder >= 0 for "EUCLIDIAN", and nothing is lost (bf_divrem, bf_tdivremu).
DivremExact(a, b, mode) ==
    LET d == bf_divrem(Number(a), Number(b), PrecInf, Wide("RNDZ"), mode)
        q == LET f == Signed(d.q) IN f[1] \div f[2]
        r == LET f == Signed(d.r) IN f[1] \div f[2]
        sign == IF a * b < 0 THEN 1 ELSE 0
        Abs(v) == IF v < 0 THEN -v ELSE v
    IN  /\ Normal(d.q) /\ Normal(d.r)
        /\ q * b + r = a
        /\ IF mode = "EUCLIDIAN" THEN r \in 0..Abs(b) - 1
           ELSE Abs(q) \in Admitted(sign, <<Abs(a), Abs(b)>>, 0, mode)

\* The logical operations are those of two's complement with infinitely many sign
\* bits, and integers survive the way to a machine integer and back (bf_logic_op,
\* bf_get_int32, bf_get_int64).
IntegersExact(a, b) ==
    LET x == Number(a)
        y == Number(b)
        BitOf(v, i) == (v \div 2 ^ i) % 2
        Logic(op) == FoldSet(LAMBDA i, sum : sum + LogicBit(op, BitOf(a, i), BitOf(b, i)) * 2 ^ i,
                             -LogicBit(op, BitOf(a, 9), BitOf(b, 9)) * 2 ^ 9, 0..8)
        Int1(r) == LET f == Signed(r) IN f[1] \div f[2]
        root == bf_sqrtrem(x)
    IN  /\ \A op \in {"OR", "XOR", "AND"} : Int1(bf_logic_op(x, y, op)) = Logic(op)
        /\ bf_get_int(x, TRUE).v = Wrapped(a)
        /\ bf_get_int(x, FALSE) = [v |-> IF a > IntMax THEN IntMax ELSE IF a < -IntMax - 1 THEN -IntMax - 1 ELSE a,
                                   st |-> IF a \in -IntMax - 1..IntMax THEN {} ELSE {"INVALID_OP"}]
        /\ bf_cmp(x, y) = (IF a < b THEN -1 ELSE IF a > b THEN 1 ELSE 0)
        /\ a >= 0 => Int1(root.r) = IntSqrt(a) /\ Int1(root.rem) = a - IntSqrt(a) * IntSqrt(a)
        /\ b \in 0..3 => Int1(bf_pow_ui(x, b, PrecInf, Wide("RNDZ"))) = (IF b = 0 THEN 1 ELSE a ^ b)

\* A double comes back from a bf_t as it went in, and any number becomes the double
\* next to it in the direction of the mode (bf_set_float64, bf_get_float64).
DoublesExact(d, a, rnd) ==
    /\ d[2] # DoubleMax \/ d[3] = 0 => bf_get_float64(bf_set_float64(d), rnd) = [d |-> d, st |-> {}]
    /\ LET g == bf_get_float64(a, rnd)
       IN  Rounded([r |-> Trim(bf_set_float64(g.d)), st |-> g.st], a.sign, Fraction(a), DoubleFrac + 1,
                   Flags(rnd, FALSE, TRUE, DoubleExp))

-----------------------------------------------------------------------------
(* Numbers as text (libbf.c): reading a number in any radix (bf_atof_internal) and   *)
(* writing it (bf_ftoa_internal), with the conversions of integers between radixes   *)
(* by halves and the search for enough precision (Ziv's strategy) in between.        *)
(*                                                                                   *)
(* A text is its sign, its body, a sequence of digits with at most one Dot, the mark *)
(* of an exponent ("", "e" for the radix or "p" for 2) and the exponent. Prefixes,   *)
(* "NaN" and "Infinity" are left out.                                                *)

CONSTANTS
    ZivBits,            \* 16: the extra bits of the first attempt
    ExpMax              \* BF_RAW_EXP_MAX: the exponents a text may have

Dot == -1
Text(sign, body, mark, exp) == [sign |-> sign, body |-> body, mark |-> mark, exp |-> exp]

\* The k with 2^k <= n < 2^(k+1), and the least k with n <= 2^k.
FloorLog2(n) == CHOOSE k \in 0..30 : 2 ^ k <= n /\ n < 2 ^ (k + 1)
ceil_log2(n) == IF n <= 1 THEN 0 ELSE FloorLog2(n - 1) + 1
PowerOf2(radix) == 2 ^ FloorLog2(radix) = radix
RadixBits(radix) == FloorLog2(radix)

\* The digits that fit in a limb, and the radix to their power.
digits_per_limb(radix) == CHOOSE k \in 1..LimbDigits : radix ^ k <= Limb /\ Limb < radix ^ (k + 1)
get_limb_radix(radix) == radix ^ digits_per_limb(radix)

-----------------------------------------------------------------------------
(* Enough precision.                                                                 *)

\* A number that is known up to 2^(expn - k) is far enough from where its rounding to
\* prec bits changes.
bf_can_round(a, prec, rnd, k) ==
    LET At(i) == Digit(a, a.len * LimbDigits - 1 - i)
        bit == Xor(At(prec), IF rnd \in {"RNDN", "RNDNA"} THEN 1 ELSE 0)
    IN  /\ a.expn \notin {EXP_INF, EXP_NAN}
        /\ IF rnd = "RNDF" THEN k >= prec + 1
           ELSE /\ a.expn # EXP_ZERO
                /\ k >= prec + 2
                /\ \E i \in prec + 1..k - 1 : At(i) # bit

bf_pow_ui_ui(a, b, prec, fl) == bf_pow_ui(bf_set_ui(a), b, prec, fl)

\* The status of a power: it is inexact if a product on the way was.
PowInexact(radix, e, prec) ==
    bf_pow_ui_ui(radix, e, prec, Wide("RNDN")) # bf_pow_ui_ui(radix, e, PrecInf, Wide("RNDN"))

\* T * radix^expn with prec bits (up to the number of bits asked for): a product or a
\* quotient by the power.
Scale(T, radix, expn, bits) ==
    LET e == IF expn < 0 THEN -expn ELSE expn
        p == bf_pow_ui_ui(radix, e, bits, Wide("RNDN"))
        r == IF expn < 0 THEN bf_div(T, p, bits, Wide("RNDN")) ELSE bf_mul(T, p, bits, Wide("RNDN"))
    IN  [r |-> r.r, inexact |-> "INEXACT" \in r.st \/ PowInexact(radix, e, bits)]

\* The attempts, each with half as many extra bits more than the one before.
RECURSIVE Ziv(_, _, _, _, _, _, _)
Ziv(T, radix, expn, prec, rnd, places, extra) ==
    LET e == IF expn < 0 THEN -expn ELSE expn
        s == Scale(T, radix, expn, prec + extra + ceil_log2(e) * 2 + 1)
        to == IF places THEN s.r.expn ELSE prec
    IN  IF s.inexact /\ ~bf_can_round(s.r, to, rnd, prec + extra)
        THEN Ziv(T, radix, expn, prec, rnd, places, extra + extra \div 2)
        ELSE s

\* T * radix^expn, rounded.
bf_mul_pow_radix(T, radix, expn, prec, fl) ==
    LET e == IF expn < 0 THEN -expn ELSE expn
        p == bf_pow_ui_ui(radix, e, PrecInf, Wide("RNDN"))
        z == Ziv(T, radix, expn, prec, fl.rnd, FALSE, ZivBits)
        r == bf_round(z.r, prec, fl)
    IN  IF T.len = 0 THEN Ok(T)
        ELSE IF expn = 0 THEN bf_round(T, prec, fl)
        ELSE IF prec = PrecInf
        THEN IF expn < 0 THEN bf_div(T, p, T.len * LimbDigits, Wide("RNDN"))
             ELSE bf_mul(T, p, PrecInf, Wide("RNDN"))
        ELSE [r |-> r.r, st |-> r.st \cup (IF z.inexact THEN {"INEXACT"} ELSE {})]

-----------------------------------------------------------------------------
(* Reading.                                                                          *)

\* The number of digits, in the radix of a limb, of the lower part at a level of the
\* recursion: n0 halved level + 1 times, rounded.
LowerPart(n0, level) == (((n0 * 2) \div 2 ^ (level + 1)) + 1) \div 2
\* The integer of the digits tab, least significant first.
RECURSIVE bf_integer_from_radix_rec(_, _, _, _)
bf_integer_from_radix_rec(tab, level, n0, radixl) ==
    LET n2 == LowerPart(n0, level)
        B == bf_pow_ui_ui(radixl, n2, PrecInf, Wide("RNDZ"))
        hi == bf_integer_from_radix_rec(SubSeq(tab, n2 + 1, Len(tab)), level + 1, n0, radixl)
        lo == bf_integer_from_radix_rec(SubSeq(tab, 1, n2), level + 1, n0, radixl)
    IN  IF Len(tab) = 1 THEN bf_set_ui(tab[1])
        ELSE bf_add(bf_mul(hi, B, PrecInf, Wide("RNDZ")).r, lo, PrecInf, Wide("RNDZ")).r

IntegerOf(ds, radix) == FoldLeft(LAMBDA v, x : v * radix + x, 0, ds)
\* Digits, the first one most significant, in groups of k from the front, the last
\* group padded with zeros. The result has the least significant group first.
Groups(ds, k, radix) ==
    LET n == Ceil(Len(ds), k)
        padded == ds \o [i \in 1..n * k - Len(ds) |-> 0]
    IN  Reverse([i \in 1..n |-> IntegerOf(SubSeq(padded, (i - 1) * k + 1, i * k), radix)])

\* The value of the digits as a limb vector, for a radix that is a power of 2: the
\* bits follow each other from the top.
PackBits(ds, radix) ==
    LET bits == Len(ds) * RadixBits(radix)
        n == Most(1, Ceil(bits, LimbDigits))
    IN  [len |-> n, m |-> IntegerOf(ds, radix) * 2 ^ (n * LimbDigits - bits)]

\* Leading zeros are skipped before digits are counted.
Skipped(ds) ==
    IF \E i \in DOMAIN ds : ds[i] # 0 THEN SelectInSeq(ds, LAMBDA x : x # 0) - 1 ELSE Len(ds)

bf_atof(text, radix, prec, fl) ==
    LET dots == {i \in DOMAIN text.body : text.body[i] = Dot}
        dot == IF dots = {} THEN Len(text.body) + 1 ELSE Min(dots)
        whole == SubSeq(text.body, 1, dot - 1)
        int == SubSeq(whole, Skipped(whole) + 1, Len(whole))
        frac == SelectSeq(SubSeq(text.body, dot + 1, Len(text.body)), LAMBDA x : x # Dot)
        digits == int \o frac
        k == digits_per_limb(radix)
        tab == Groups(digits, k, radix)
        packed == PackBits(digits, radix)
        T == [bf_integer_from_radix_rec(tab, 0, Len(tab), get_limb_radix(radix)) EXCEPT !.sign = text.sign]
        big == (IF text.exp < 0 THEN -text.exp ELSE text.exp) > ExpMax
        expn == text.exp * (IF text.mark = "p" THEN 1 ELSE RadixBits(radix))
    IN  IF {i \in DOMAIN text.body : text.body[i] # Dot} = {} THEN Ok(Nan)
        ELSE IF big /\ text.exp < 0 THEN [r |-> Zero(text.sign), st |-> {"UNDERFLOW", "INEXACT"}]
        ELSE IF big THEN [r |-> Inf(text.sign), st |-> {"OVERFLOW", "INEXACT"}]
        ELSE IF PowerOf2(radix)
        THEN bf_normalize_and_round([sign |-> text.sign, expn |-> expn + Len(int) * RadixBits(radix),
                                     len |-> packed.len, m |-> packed.m], prec, fl)
        ELSE IF digits = <<>> THEN Ok(Zero(text.sign))
        ELSE bf_mul_pow_radix(T, radix, text.exp - (Len(tab) * k - Len(int)), prec, fl)

-----------------------------------------------------------------------------
(* Writing.                                                                          *)

\* a times log2(radix), or divided by it, to an integer. Unless the radix is a power
\* of 2 the result is taken to lie between integers: 0 is rounded up to 1.
LogFloor(a, radix, is_inv) ==
    IF is_inv THEN CHOOSE k \in 0..a : radix ^ k <= 2 ^ a /\ 2 ^ a < radix ^ (k + 1)
    ELSE FloorLog2(radix ^ a)
bf_mul_log2_radix(a1, radix, is_inv, is_ceil1) ==
    LET a == IF a1 < 0 THEN -a1 ELSE a1
        is_ceil == IF a1 < 0 THEN ~is_ceil1 ELSE is_ceil1
        bits == RadixBits(radix)
        v == IF PowerOf2(radix)
             THEN IF is_inv THEN (a + (IF is_ceil THEN bits - 1 ELSE 0)) \div bits ELSE a * bits
             ELSE LogFloor(a, radix, is_inv) + (IF is_ceil THEN 1 ELSE 0)
    IN  IF a1 < 0 THEN -v ELSE v

IntValue(a) == IF a.len = 0 THEN 0 ELSE Truncated(a)

\* [q, r]: the estimate of a quotient by the inverse is put right.
RECURSIVE Adjust(_, _, _)
Adjust(Q, R, B) ==
    IF R.sign = 1 /\ R.len # 0
    THEN Adjust(bf_add_si(Q, -1, PrecInf, Wide("RNDZ")).r, bf_add(R, B, PrecInf, Wide("RNDZ")).r, B)
    ELSE IF bf_cmpu(R, B) >= 0
    THEN Adjust(bf_add_si(Q, 1, PrecInf, Wide("RNDZ")).r, bf_sub(R, B, PrecInf, Wide("RNDZ")).r, B)
    ELSE <<Q, R>>

\* n digits of the integer a in the radix of a limb, least significant first.
RECURSIVE bf_integer_to_radix_rec(_, _, _, _, _)
bf_integer_to_radix_rec(a, n, level, n0, radixl) ==
    LET t == IntValue(a) % Limb ^ 2
        n2 == LowerPart(n0, level)
        n1 == n - n2
        bits == ceil_log2(radixl)
        B == bf_pow_ui_ui(radixl, n2, PrecInf, Wide("RNDZ"))
        B_inv == bf_div(bf_set_ui(1), B, (n2 + 1) * bits + 2, Wide("RNDN")).r
        Q == bf_rint(bf_mul(a, B_inv, n1 * bits, Wide("RNDN")).r, "RNDZ").r
        R == bf_sub(a, bf_mul(Q, B, PrecInf, Wide("RNDZ")).r, PrecInf, Wide("RNDZ")).r
        d == Adjust(Q, R, B)
    IN  IF n = 1 THEN <<IntValue(a) % Limb>>
        ELSE IF n = 2 THEN <<t % radixl, t \div radixl>>
        ELSE bf_integer_to_radix_rec(d[2], n2, level + 1, n0, radixl)
             \o bf_integer_to_radix_rec(d[1], n1, level + 1, n0, radixl)

\* Converted by halves, [r, E]: r has P digits, a = r * radix^(E - P) up to rounding.
\* A result of P + 1 digits is computed again with a larger exponent.
RECURSIVE ConvertFrom(_, _, _, _, _, _)
ConvertFrom(a, radix, P, rnd, E, fixed) ==
    LET z == Ziv(a, radix, P - E, bf_mul_log2_radix(P, radix, FALSE, TRUE), rnd, TRUE, ZivBits)
        r == bf_rint(z.r, rnd).r
        B == bf_pow_ui_ui(radix, P, PrecInf, Wide("RNDZ"))
    IN  IF fixed \/ bf_cmpu(r, B) < 0 THEN [r |-> r, E |-> E]
        ELSE ConvertFrom(a, radix, P, rnd, E + 1, fixed)
bf_convert_to_radix(a, radix, P, rnd, E, fixed) ==
    IF a.len = 0 THEN [r |-> a, E |-> 0]
    ELSE ConvertFrom(a, radix, P, rnd,
                     IF fixed THEN E ELSE 1 + bf_mul_log2_radix(a.expn - 1, radix, TRUE, FALSE), fixed)

\* The digits of a limb, most significant first.
limb_to_a(v, radix, n) == [i \in 1..n |-> (v \div radix ^ (n - i)) % radix]
\* A radix that is a power of 2 reads bits, aligned to the radix point; any other one
\* an integer.
AllDigits(a, radix, n_digits) ==
    LET bits == RadixBits(radix)
        k == digits_per_limb(radix)
        n == Ceil(n_digits, k)
        tab == bf_integer_to_radix_rec(a, n, 0, n, get_limb_radix(radix))
        all == FoldLeft(LAMBDA s, v : s \o limb_to_a(v, radix, k), <<>>, Reverse(tab))
        pos == a.len * LimbDigits + ((-a.expn) % bits)
        Bits(p) == FoldSet(LAMBDA i, sum : sum + Digit(a, p + i) * 2 ^ i, 0, 0..bits - 1)
    IN  IF PowerOf2(radix) THEN [i \in 1..n_digits |-> Bits(pos - i * bits)]
        ELSE SubSeq(all, Len(all) - n_digits + 1, Len(all))
output_digits(a, radix, n_digits, dot_pos) ==
    LET ds == AllDigits(a, radix, n_digits)
    IN  IF dot_pos >= n_digits THEN ds
        ELSE SubSeq(ds, 1, dot_pos) \o <<Dot>> \o SubSeq(ds, dot_pos + 1, n_digits)

Repeat(n) == [i \in 1..n |-> 0]
\* A number with prec digits after the point.
FracText(a, radix, prec, rnd) ==
    LET bits == RadixBits(radix)
        p == bf_round(a, prec * bits, [Wide(rnd) EXCEPT !.radpnt = TRUE]).r
        np == Ceil(p.expn, bits)
        n == 1 + bf_mul_log2_radix(Most(a.expn, 0), radix, TRUE, TRUE)
        c == bf_convert_to_radix([a EXCEPT !.sign = 0], radix, n + prec, rnd, n, TRUE).r
        all == output_digits(c, radix, n + prec, n)
        zeros == {i \in 1..Len(all) - 1 : all[i + 1] # Dot /\ \A j \in 1..i : all[j] = 0}
    IN  IF ~PowerOf2(radix)
        THEN SubSeq(all, (IF zeros = {} THEN 0 ELSE Max(zeros)) + 1, Len(all))
        ELSE IF p.expn = EXP_ZERO THEN <<0>> \o (IF prec > 0 THEN <<Dot>> \o Repeat(prec) ELSE <<>>)
        ELSE IF np > 0 THEN output_digits(p, radix, prec + np, np)
        ELSE <<0, Dot>> \o Repeat(-np)
             \o (IF prec + np > 0 THEN output_digits(p, radix, prec + np, prec + np) ELSE <<>>)

\* The fewest digits that read back as a, found by bisection.
RECURSIVE Fewest(_, _, _, _, _, _)
Fewest(a, radix, prec, fl, lo, hi) ==
    LET n == (lo + hi) \div 2
        c == bf_convert_to_radix(a, radix, n, fl.rnd, 0, FALSE)
        b == bf_mul_pow_radix(c.r, radix, c.E - n, prec, [fl EXCEPT !.rnd = "RNDN"]).r
    IN  IF lo >= hi THEN hi
        ELSE IF bf_cmpu(b, a) = 0 THEN Fewest(a, radix, prec, fl, lo, n)
        ELSE Fewest(a, radix, prec, fl, n + 1, hi)

\* [r, n, n_digits, n_max]: the digits and the exponent of a number, for a format.
FreeDigits(a2, radix, prec, fl, fmt) ==
    LET bits == RadixBits(radix)
        align == (-a2.expn) % bits
        p == IF fmt = "FIXED" THEN bf_round(a2, prec * bits - align, Wide(fl.rnd)).r ELSE a2
        pos == p.len * LimbDigits + align
        all == Ceil(pos, bits)
        ds == AllDigits(p, radix, all)
        used == {i \in 1..all : ds[i] # 0}
        np == IF fmt = "FIXED" THEN prec ELSE IF used = {} THEN 1 ELSE Max(used)
        a == [a2 EXCEPT !.sign = 0]
        most == 1 + bf_mul_log2_radix(prec, radix, TRUE, TRUE)
        nd == IF fmt = "FIXED" THEN prec
              ELSE IF fmt = "FREE" THEN most
              ELSE Fewest(a, radix, prec, fl, 1, most)
        c == bf_convert_to_radix(a, radix, nd, fl.rnd, 0, FALSE)
    IN  IF PowerOf2(radix)
        THEN [r |-> p, n |-> Ceil(p.expn, bits), n_digits |-> np,
              n_max |-> IF fmt = "FIXED" THEN np ELSE np + 4]
        ELSE [r |-> c.r, n |-> c.E, n_digits |-> nd, n_max |-> IF fmt = "FIXED" THEN nd ELSE most + 4]

\* A finite number as text.
bf_ftoa(a2, radix, prec, fl, fmt, force_exp) ==
    LET d == FreeDigits(a2, radix, prec, fl, fmt)
        zero == d.r.expn = EXP_ZERO
        n == IF zero THEN 1 ELSE d.n
        Out(dot) == output_digits(d.r, radix, d.n_digits, dot)
        bin == PowerOf2(radix) /\ radix <= 16
    IN  IF fmt = "FRAC" THEN Text(a2.sign, FracText(a2, radix, prec, fl.rnd), "", 0)
        ELSE IF zero /\ fmt # "FIXED" /\ ~force_exp THEN Text(a2.sign, <<0>>, "", 0)
        ELSE IF force_exp \/ n <= -6 \/ n > d.n_max
        THEN Text(a2.sign, Out(1), IF bin THEN "p" ELSE "e", IF bin THEN (n - 1) * RadixBits(radix) ELSE n - 1)
        ELSE IF n <= 0 THEN Text(a2.sign, <<0, Dot>> \o Repeat(-n) \o Out(d.n_digits), "", 0)
        ELSE IF d.n_digits <= n THEN Text(a2.sign, Out(d.n_digits) \o Repeat(n - d.n_digits), "", 0)
        ELSE Text(a2.sign, Out(n), "", 0)

-----------------------------------------------------------------------------
\* The fraction a text stands for.
ValueOf(text, radix) ==
    LET frac == {i \in DOMAIN text.body : \E j \in 1..i - 1 : text.body[j] = Dot}
        v == IntegerOf(SelectSeq(text.body, LAMBDA x : x # Dot), radix)
        base == IF text.mark = "p" THEN 2 ELSE radix
        Pow(b, n) == IF n = 0 THEN 1 ELSE b ^ n
    IN  <<v * Pow(base, Most(0, text.exp)), Pow(radix, Cardinality(frac)) * Pow(base, Most(0, -text.exp))>>

\* A text reads as the number it stands for, correctly rounded however close it is to
\* where the rounding changes (bf_atof_internal, bf_mul_pow_radix, bf_can_round).
TextReadsExactly(text, radix, prec, fl) ==
    LET res == bf_atof(text, radix, prec, fl)
        x == ValueOf(text, radix)
    IN  IF x[1] = 0 THEN res = Ok(Zero(text.sign)) ELSE Rounded(res, text.sign, x, prec, fl)

\* Integers of any size are written exactly and read back (bf_integer_to_radix_rec,
\* bf_integer_from_radix_rec, output_digits): what BigInt's toString and BigInt() do.
IntegersAsText(v, radix) ==
    LET text == bf_ftoa(Number(v), radix, 0, Wide("RNDZ"), "FRAC", FALSE)
    IN  /\ ValueOf(text, radix) = <<IF v < 0 THEN -v ELSE v, 1>>
        /\ text.body[1] # 0 \/ text.body = <<0>>
        /\ bf_atof(text, radix, PrecInf, Wide("RNDZ")) = Ok(Number(v))

\* A number is written with the digits that were asked for, correctly rounded; the
\* digits of the free formats read back as the number (bf_convert_to_radix, Fewest).
NumbersAsText(a, radix, prec, fl) ==
    LET x == Fraction(a)
        free == bf_ftoa(a, radix, prec, fl, "FREE", FALSE)
        min == bf_ftoa(a, radix, prec, fl, "FREE_MIN", FALSE)
        frac == bf_ftoa(a, radix, 1, fl, "FRAC", FALSE)
        places == ValueOf(frac, radix)
        s == <<x[1] * radix, x[2]>>
    IN  /\ bf_atof(min, radix, prec, [fl EXCEPT !.rnd = "RNDN"]).r = a
        /\ fl.rnd = "RNDN" => bf_atof(free, radix, prec, fl).r = a
        /\ places[2] = radix /\ places[1] \in Admitted(a.sign, s, 0, fl.rnd)
=============================================================================
