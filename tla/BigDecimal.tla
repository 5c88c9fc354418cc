------------------------------- MODULE BigDecimal ------------------------------
(* Decimal floating point numbers of any precision (bfdec_t, libbf.c). They differ   *)
(* from the binary ones in more than the radix: a sum is computed to its last digit  *)
(* before it is rounded, an overflow goes to infinity in every mode, and a quotient  *)
(* of infinite precision is refused unless it is exact.                              *)
EXTENDS BigNum

CONSTANTS
    IntMax,             \* INT32_MAX
    IntDigits           \* its decimal digits, 10; at most LimbDigits

Ok(r) == [r |-> r, st |-> {}]
Invalid == [r |-> Nan, st |-> {"INVALID_OP"}]
Flags(rnd, radpnt, emin, emax) ==
    [rnd |-> rnd, radpnt |-> radpnt, subnormal |-> FALSE, emin |-> emin, emax |-> emax]
Wide(rnd) == Flags(rnd, FALSE, -30, 30)

bfdec_get_rnd_add(r, prec, rnd) ==
    LET top == r.len * LimbDigits - 1
        digit0 == rnd = "RNDF" \/ AnyDigit(r, top - Most(0, prec + 1))
        digit1 == IF top - prec >= r.len * LimbDigits THEN 0 ELSE Digit(r, top - prec)
        inexact == digit0 \/ digit1 # 0
    IN  [inexact |-> inexact,
         add |-> CASE rnd = "RNDZ" -> FALSE
                   [] rnd = "RNDN" -> \/ digit1 > 5
                                      \/ digit1 = 5 /\ (digit0 \/ Digit(r, top - (prec - 1)) % 2 = 1)
                   [] rnd = "RNDD" -> r.sign = 1 /\ inexact
                   [] rnd = "RNDU" -> r.sign = 0 /\ inexact
                   [] rnd = "RNDA" -> inexact
                   [] rnd \in {"RNDNA", "RNDF"} -> digit1 >= 5]

\* r is not 0 and its upper digit is not 0.
__bfdec_round(r, prec1, fl) ==
    LET prec == IF fl.radpnt /\ prec1 # PrecInf THEN r.expn + prec1 ELSE prec1
        a == bfdec_get_rnd_add(r, prec, fl.rnd)
        m1 == r.m + 10 ^ (r.len * LimbDigits - prec)
        up == IF ~a.add THEN r
              ELSE IF m1 >= Limb ^ r.len THEN [r EXCEPT !.m = m1 \div 10, !.expn = @ + 1]
              ELSE [r EXCEPT !.m = m1]
        underflow == [r |-> Zero(r.sign), st |-> {"UNDERFLOW", "INEXACT"}]
    IN  IF prec <= 0
        THEN IF a.add
             THEN [r |-> [r EXCEPT !.len = 1, !.m = Limb \div 10, !.expn = @ + 1 - prec],
                   st |-> {"UNDERFLOW", "INEXACT"}]
             ELSE underflow
        ELSE IF up.expn < fl.emin THEN underflow
        ELSE IF up.expn > fl.emax THEN [r |-> Inf(r.sign), st |-> {"OVERFLOW", "INEXACT"}]
        ELSE [r |-> Keep(up, prec), st |-> IF a.inexact THEN {"INEXACT"} ELSE {}]

bfdec_round(r, prec, fl) == IF r.len = 0 THEN Ok(r) ELSE __bfdec_round(r, prec, fl)
bfdec_normalize_and_round(r, prec, fl) ==
    IF r.m = 0 THEN Ok(Zero(r.sign)) ELSE __bfdec_round(Shift(r), prec, fl)
bfdec_rint(r, rnd) == bfdec_round(r, 0, [Wide(rnd) EXCEPT !.radpnt = TRUE])

bfdec_set_ui(v) ==
    LET n == IF v >= Limb THEN 2 ELSE 1
    IN  bfdec_normalize_and_round([sign |-> 0, expn |-> n * LimbDigits, len |-> n, m |-> v],
                                  PrecInf, Wide("RNDN")).r
bfdec_set_si(v) == IF v < 0 THEN [bfdec_set_ui(-v) EXCEPT !.sign = 1] ELSE bfdec_set_ui(v)

AddFinite(a, b, sign, is_sub, prec, fl) ==
    LET d == a.expn - b.expn
        r_len == Most(a.len, b.len + Ceil(d, LimbDigits))
        x == a.m * Limb ^ (r_len - a.len)
        y == b.m * 10 ^ ((r_len - b.len) * LimbDigits - d)
        sum == IF is_sub THEN x - y ELSE x + y
        carry == IF sum >= Limb ^ r_len THEN 1 ELSE 0
    IN  bfdec_normalize_and_round([sign |-> sign, expn |-> a.expn + carry * LimbDigits,
                                   len |-> r_len + carry, m |-> sum], prec, fl)
bfdec_add_internal(a1, b1, prec, fl, b_neg) ==
    LET b_sign == Xor(b1.sign, b_neg)
        is_sub == a1.sign # b_sign
        cmp == bf_cmpu(a1, b1)
        a == IF cmp < 0 THEN b1 ELSE a1
        b == IF cmp < 0 THEN a1 ELSE b1
        sign == IF cmp < 0 THEN b_sign ELSE a1.sign
    IN  IF cmp = 0 /\ is_sub /\ Finite(a) THEN Ok(Zero(IF fl.rnd = "RNDD" THEN 1 ELSE 0))
        ELSE IF a.len # 0 /\ b.len # 0 THEN AddFinite(a, b, sign, is_sub, prec, fl)
        ELSE IF a.expn = EXP_NAN THEN Ok(Nan)
        ELSE IF a.expn = EXP_INF
        THEN IF b.expn = EXP_INF /\ is_sub THEN Invalid ELSE Ok(Inf(sign))
        ELSE bfdec_normalize_and_round([a EXCEPT !.sign = sign], prec, fl)
bfdec_add(a, b, prec, fl) == bfdec_add_internal(a, b, prec, fl, 0)
bfdec_sub(a, b, prec, fl) == bfdec_add_internal(a, b, prec, fl, 1)

bfdec_mul(a, b, prec, fl) ==
    LET sign == Xor(a.sign, b.sign)
    IN  IF a.len # 0 /\ b.len # 0
        THEN bfdec_normalize_and_round([sign |-> sign, expn |-> a.expn + b.expn, len |-> a.len + b.len,
                                        m |-> a.m * b.m], prec, fl)
        ELSE IF EXP_NAN \in {a.expn, b.expn} THEN Ok(Nan)
        ELSE IF EXP_INF \in {a.expn, b.expn}
        THEN IF EXP_ZERO \in {a.expn, b.expn} THEN Invalid ELSE Ok(Inf(sign))
        ELSE Ok(Zero(sign))

\* The limbs of a quotient: two digits beyond the precision decide its rounding.
QuotientLimbs(a, b, prec, fl) ==
    IF prec = PrecInf THEN b.len + 1
    ELSE IF fl.radpnt THEN Ceil(Most(a.expn - b.expn, 0) + 2 + prec + 2, LimbDigits)
    ELSE Ceil(prec + 2, LimbDigits)
\* A remainder makes the last limb odd.
DivFinite(a, b, prec, fl) ==
    LET n == Most(a.len, QuotientLimbs(a, b, prec, fl))
        x == a.m * Limb ^ (n + b.len - a.len)
        q == x \div b.m
        rest == x % b.m # 0
    IN  IF rest /\ prec = PrecInf THEN Invalid
        ELSE bfdec_normalize_and_round([sign |-> Xor(a.sign, b.sign), expn |-> a.expn - b.expn + LimbDigits,
                                        len |-> n + 1, m |-> IF rest /\ q % 2 = 0 THEN q + 1 ELSE q],
                                       prec, fl)
bfdec_div(a, b, prec, fl) ==
    LET sign == Xor(a.sign, b.sign)
    IN  IF EXP_NAN \in {a.expn, b.expn} THEN Ok(Nan)
        ELSE IF a.expn = EXP_INF THEN IF b.expn = EXP_INF THEN Invalid ELSE Ok(Inf(sign))
        ELSE IF b.expn = EXP_INF THEN Ok(Zero(sign))
        ELSE IF a.expn = EXP_ZERO THEN IF b.expn = EXP_ZERO THEN Invalid ELSE Ok(Zero(sign))
        ELSE IF b.expn = EXP_ZERO THEN [r |-> Inf(sign), st |-> {"DIVIDE_ZERO"}]
        ELSE DivFinite(a, b, prec, fl)

bfdec_tdivremu(a, b) ==
    IF bf_cmpu(a, b) < 0 THEN <<bfdec_set_ui(0), a>>
    ELSE LET q == bfdec_div(a, b, 0, [Wide("RNDZ") EXCEPT !.radpnt = TRUE]).r
         IN  <<q, bfdec_sub(a, bfdec_mul(q, b, PrecInf, Wide("RNDZ")).r, PrecInf, Wide("RNDZ")).r>>

\* Whether a rounded quotient goes up: twice the remainder is compared with the
\* divisor.
RoundUpQuotient(mode, q, r, b) ==
    LET c == bf_cmpu(bfdec_mul(r, bfdec_set_si(2), PrecInf, Wide("RNDZ")).r, b)
        odd == q.len # 0 /\ Digit(q, q.len * LimbDigits - q.expn) % 2 = 1
    IN  mode \in {"RNDN", "RNDNA"} /\ (c > 0 \/ (c = 0 /\ (mode = "RNDNA" \/ odd)))
bfdec_divrem(a, b, prec, fl, mode) ==
    LET q_sign == Xor(a.sign, b.sign)
        is_ceil == \/ mode = "RNDD" /\ q_sign = 1
                   \/ mode = "RNDU" /\ q_sign = 0
                   \/ mode = "RNDA"
                   \/ mode = "EUCLIDIAN" /\ a.sign = 1
        a1 == [a EXCEPT !.sign = 0]
        b1 == [b EXCEPT !.sign = 0]
        d == bfdec_tdivremu(a1, b1)
        up == d[2].len # 0 /\ (is_ceil \/ RoundUpQuotient(mode, d[1], d[2], b1))
        q == IF up THEN bfdec_add(d[1], bfdec_set_si(1), PrecInf, Wide("RNDZ")).r ELSE d[1]
        r == IF up THEN bfdec_sub(d[2], b1, PrecInf, Wide("RNDZ")).r ELSE d[2]
        res == bfdec_round([r EXCEPT !.sign = Xor(@, a.sign)], prec, fl)
        first == bfdec_round(a, prec, fl)
    IN  IF a.len # 0 /\ b.len # 0
        THEN [q |-> [q EXCEPT !.sign = q_sign], r |-> res.r, st |-> res.st]
        ELSE IF EXP_NAN \in {a.expn, b.expn} THEN [q |-> Zero(0), r |-> Nan, st |-> {}]
        ELSE IF a.expn = EXP_INF \/ b.expn = EXP_ZERO
        THEN [q |-> Zero(0), r |-> Nan, st |-> {"INVALID_OP"}]
        ELSE [q |-> Zero(0), r |-> first.r, st |-> first.st]

\* The root of a mantissa of 2n limbs. The factor 4^k that normalises it is taken out
\* of the root again and leaves the integer part as it is.
bfdec_sqrt(a, prec, fl) ==
    LET prec1 == IF fl.radpnt THEN Most((a.expn + 1) \div 2 + prec, 1) ELSE prec
        n == Ceil(2 * (prec1 + 2), 2 * LimbDigits)
        n1 == Least(2 * n, a.len)
        low == a.m % Limb ^ (a.len - n1)
        x == (a.m \div Limb ^ (a.len - n1)) * Limb ^ (2 * n - n1)
        x1 == IF a.expn % 2 = 1 THEN x \div 10 ELSE x
        s == IntSqrt(x1)
        rest == (a.expn % 2 = 1 /\ x % 10 # 0) \/ s * s # x1 \/ low # 0
    IN  IF a.expn = EXP_NAN THEN Ok(Nan)
        ELSE IF a.len = 0 /\ a # Inf(1) THEN Ok(a)
        ELSE IF a.sign = 1 \/ prec = PrecInf THEN Invalid
        ELSE bfdec_round([sign |-> 0, expn |-> (a.expn + 1) \div 2, len |-> n,
                          m |-> IF rest /\ s % 2 = 0 THEN s + 1 ELSE s], prec, fl)

bfdec_pow_ui(a, b) ==
    LET n == CHOOSE k \in 0..31 : 2 ^ k > b /\ (k = 0 \/ 2 ^ (k - 1) <= b)
        Times(x, y) == bfdec_mul(x, y, PrecInf, Wide("RNDZ")).r
        pow[i \in 0..n] ==
            IF i >= n - 1 THEN a
            ELSE LET sq == Times(pow[i + 1], pow[i + 1])
                 IN  IF (b \div 2 ^ i) % 2 = 1 THEN Times(sq, a) ELSE sq
    IN  IF b = 0 THEN bfdec_set_ui(1) ELSE pow[0]

\* Truncated towards 0; only the upper limb is read.
bfdec_get_int32(a) ==
    LET upper == (a.m \div Limb ^ (a.len - 1)) \div 10 ^ (LimbDigits - a.expn)
        v_max == IntMax + a.sign
        Sign(v) == IF a.sign = 1 THEN -v ELSE v
    IN  IF a.expn = EXP_NAN THEN [v |-> IntMax, st |-> {}]
        ELSE IF a.expn = EXP_INF THEN [v |-> Sign(v_max), st |-> {}]
        ELSE IF a.expn <= 0 THEN [v |-> 0, st |-> {}]
        ELSE IF a.expn > IntDigits THEN [v |-> Sign(v_max), st |-> {"OVERFLOW"}]
        ELSE IF a.expn = IntDigits /\ upper > v_max THEN [v |-> Sign(v_max), st |-> {"OVERFLOW"}]
        ELSE [v |-> Sign(upper), st |-> {}]

-----------------------------------------------------------------------------
Sum(x, y) == <<x[1] * y[2] + y[1] * x[2], x[2] * y[2]>>
Magnitude(x) == IF x[1] < 0 THEN <<-x[1], x[2]>> ELSE x
SignOf(x) == IF x[1] < 0 THEN 1 ELSE 0
Number(v) ==
    IF v = 0 THEN Zero(0)
    ELSE Trim(Shift([sign |-> IF v < 0 THEN 1 ELSE 0, expn |-> 4 * LimbDigits, len |-> 4,
                     m |-> IF v < 0 THEN -v ELSE v]))
IntOf(r) == LET f == Signed(r) IN f[1] \div f[2]

\* Sums, differences, products, quotients and roots of decimals are the exact results
\* correctly rounded, with the status of the rounding (bfdec_add_internal, bfdec_mul,
\* __bfdec_div and __bfdec_round under them).
DecimalRounds(a, b, prec, fl) ==
    LET x == Signed(a)
        y == Signed(b)
        Good(res, z) == /\ Normal(res.r)
                        /\ IF z[1] = 0 THEN res = Ok(Zero(IF fl.rnd = "RNDD" THEN 1 ELSE 0))
                           ELSE Rounded(res, SignOf(z), Magnitude(z), prec, fl)
    IN  /\ Good(bfdec_add(a, b, prec, fl), Sum(x, y))
        /\ Good(bfdec_sub(a, b, prec, fl), Sum(x, <<-y[1], y[2]>>))
        /\ Good(bfdec_mul(a, b, prec, fl), <<x[1] * y[1], x[2] * y[2]>>)
        /\ LET z == IF y[1] < 0 THEN <<-x[1] * y[2], -x[2] * y[1]>> ELSE <<x[1] * y[2], x[2] * y[1]>>
               q == bfdec_div(a, b, prec, fl)
           IN  \/ prec = PrecInf /\ q = Invalid
               \/ Good(q, z)
\* For integers: nothing is lost in a division, whose quotient is rounded by the mode,
\* the root is the largest integer below, and powers and conversions are those of the
\* integers (bfdec_divrem, bfdec_sqrt, bfdec_pow_ui, bfdec_get_int32).
DecimalIntegers(a, b, mode) ==
    LET d == bfdec_divrem(Number(a), Number(b), PrecInf, Wide("RNDZ"), mode)
        q == IntOf(d.q)
        r == IntOf(d.r)
        Abs(v) == IF v < 0 THEN -v ELSE v
        radix == [Wide("RNDZ") EXCEPT !.radpnt = TRUE]
        root == bfdec_sqrt(Number(a), 0, radix)
        g == bfdec_get_int32(Number(a))
    IN  /\ Normal(d.q) /\ Normal(d.r) /\ q * b + r = a
        /\ IF mode = "EUCLIDIAN" THEN r \in 0..Abs(b) - 1
           ELSE Abs(q) \in Admitted(IF a * b < 0 THEN 1 ELSE 0, <<Abs(a), Abs(b)>>, 0, mode)
        /\ a >= 0 => IntOf(root.r) = IntSqrt(a)
        /\ \A n \in 0..2 : IntOf(bfdec_pow_ui(Number(b), n)) = (IF n = 0 THEN 1 ELSE b ^ n)
        /\ g = [v |-> IF a > IntMax THEN IntMax ELSE IF a < -IntMax - 1 THEN -IntMax - 1 ELSE a,
                st |-> IF a \in -IntMax - 1..IntMax THEN {} ELSE {"OVERFLOW"}]
=============================================================================
