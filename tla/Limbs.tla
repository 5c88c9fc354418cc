-------------------------------- MODULE Limbs --------------------------------
(* The arithmetic on vectors of limbs in libbf.c that BigInt rests on: mp_add to     *)
(* mp_sqrtrem. A vector is a sequence of limbs, the least significant first; the    *)
(* limb has LimbBits bits (64 in the build), and a limb operation wraps.            *)
EXTENDS Integers, Sequences, SequencesExt

CONSTANTS
    LimbBits,           \* LIMB_BITS
    UdivThreshold,      \* UDIV1NORM_THRESHOLD
    LargeThreshold      \* DIVNORM_LARGE_THRESHOLD

B == 2 ^ LimbBits
Wrap(x) == x % B
Bit(b) == IF b THEN 1 ELSE 0
Zeros(n) == [i \in 1..n |-> 0]

\* The number that a vector stands for (not part of the code).
Value(t) == FoldLeft(LAMBDA v, x : v * B + x, 0, Reverse(t))
\* The limbs from place i on are replaced by v.
Splice(t, i, v) == SubSeq(t, 1, i) \o v \o SubSeq(t, i + Len(v) + 1, Len(t))

\* A loop over the limbs: step gives the new limb and the carry to the next one.
Chain(n, carry, step(_, _)) ==
    FoldLeft(LAMBDA acc, i : LET s == step(i, acc.carry)
                             IN  [tab |-> Append(acc.tab, s[1]), carry |-> s[2]],
             [tab |-> <<>>, carry |-> carry], [i \in 1..n |-> i])

mp_add(a, b, carry) ==
    Chain(Len(a), carry,
          LAMBDA i, k : LET u == Wrap(a[i] + b[i])
                            v == Wrap(u + k)
                        IN  <<v, Bit(v < k \/ u < a[i])>>)
mp_sub(a, b, carry) ==
    Chain(Len(a), carry,
          LAMBDA i, k : LET u == Wrap(a[i] - b[i])
                            v == Wrap(u - k)
                        IN  <<v, Bit(v > u \/ u > a[i])>>)
mp_neg(b, carry) == mp_sub(Zeros(Len(b)), b, carry)
mp_add_ui(t, b) ==
    Chain(Len(t), b, LAMBDA i, k : LET v == Wrap(t[i] + k) IN <<v, Bit(v < k)>>)
mp_sub_ui(t, b) ==
    Chain(Len(t), b, LAMBDA i, k : LET v == Wrap(t[i] - k) IN <<v, Bit(v > t[i])>>)

\* Shifts to the right by 1..LimbBits - 1 bits; carry is the bits shifted out.
mp_shr(t, shift, high) ==
    [tab |-> [i \in DOMAIN t |-> LET l == IF i = Len(t) THEN high ELSE t[i + 1]
                                 IN  (t[i] \div 2 ^ shift) + Wrap(l * 2 ^ (LimbBits - shift))],
     carry |-> t[1] % 2 ^ shift]

mp_mul1(a, b, l) ==
    Chain(Len(a), l, LAMBDA i, k : LET t == a[i] * b + k IN <<t % B, t \div B>>)
mp_add_mul1(r, a, b) ==
    Chain(Len(a), 0, LAMBDA i, k : LET t == a[i] * b + k + r[i] IN <<t % B, t \div B>>)
\* The double limb t wraps, and the borrow is the negated upper limb.
mp_sub_mul1(r, a, b) ==
    Chain(Len(a), 0, LAMBDA i, k : LET t == (r[i] - a[i] * b - k) % (B * B)
                                   IN  <<t % B, Wrap(-(t \div B))>>)

mp_mul_basecase(a, b) ==
    FoldLeft(LAMBDA r, i : LET s == mp_add_mul1(SubSeq(r, i, i + Len(a) - 1), a, b[i])
                           IN  Splice(r, i - 1, Append(s.tab, s.carry)),
             Zeros(Len(a) + Len(b)), [i \in 1..Len(b) |-> i])

-----------------------------------------------------------------------------
(* Division.                                                                         *)

udiv1norm_init(d) == ((B - d - 1) * B + B - 1) \div d

\* <<quotient, remainder>> of a1 * B + a0 by d, with a1 < d and d >= B / 2. n1m is the
\* sign of a0 spread over a limb; ah is 0 or -1.
udiv1norm(a1, a0, d, d_inv) ==
    LET neg == a0 >= B \div 2
        n_adj == Wrap(a0 + IF neg THEN d ELSE 0)
        a1n == Wrap(a1 + IF neg THEN 1 ELSE 0)
        q0 == Wrap((((d_inv * a1n + n_adj) % (B * B)) \div B) + a1)
        a == (a1 * B + a0 - q0 * d - d) % (B * B)
        ah == a \div B
    IN  <<Wrap(q0 + 1 + ah), Wrap(a + (IF ah = B - 1 THEN d ELSE 0))>>

Div2(n, a1, a0, b) ==
    IF n >= UdivThreshold THEN udiv1norm(a1, a0, b, udiv1norm_init(b))
    ELSE <<(a1 * B + a0) \div b, (a1 * B + a0) % b>>

\* <<quotient, remainder>> of a vector by a limb >= B / 2.
mp_div1norm(a, b, r) ==
    LET s == Chain(Len(a), r, LAMBDA i, k : Div2(Len(a), k, a[Len(a) + 1 - i], b))
    IN  <<Reverse(s.tab), s.carry>>

mp_cmp(a, b) ==
    IF a = b THEN 0
    ELSE LET i == CHOOSE i \in DOMAIN a : a[i] # b[i] /\ \A j \in i + 1..Len(a) : a[j] = b[j]
         IN  IF a[i] < b[i] THEN -1 ELSE 1

\* The loop that corrects a quotient limb that was too large: b is added back until
\* the upper limb wraps round to 0.
RECURSIVE AddBack(_, _, _, _)
AddBack(w, top, b, q) ==
    LET s == mp_add(w, b, 0)
        t == Wrap(top + s.carry)
    IN  IF s.carry # 0 /\ t = 0 THEN <<s.tab, t, Wrap(q - 1)>>
        ELSE AddBack(s.tab, t, b, Wrap(q - 1))

\* One limb of the quotient, i limbs from the bottom. Faulty variant: the estimate is
\* trusted.
QuotientLimb_Trusts(d, i, b, n) ==
    LET nb == Len(b)
        b1 == b[nb]
        q == IF d.a[i + nb + 1] >= b1 THEN B - 1
             ELSE Div2(n, d.a[i + nb + 1], d.a[i + nb], b1)[1]
        s == mp_sub_mul1(SubSeq(d.a, i + 1, i + nb), b, q)
        top == Wrap(d.a[i + nb + 1] - s.carry)
    IN  [a |-> Splice(d.a, i, Append(s.tab, top)), q |-> [d.q EXCEPT ![i + 1] = q]]
QuotientLimb(d, i, b, n) ==
    LET nb == Len(b)
        b1 == b[nb]
        q == IF d.a[i + nb + 1] >= b1 THEN B - 1
             ELSE Div2(n, d.a[i + nb + 1], d.a[i + nb], b1)[1]
        s == mp_sub_mul1(SubSeq(d.a, i + 1, i + nb), b, q)
        top == Wrap(d.a[i + nb + 1] - s.carry)
        fix == IF top > d.a[i + nb + 1] THEN AddBack(s.tab, top, b, q) ELSE <<s.tab, top, q>>
    IN  [a |-> Splice(d.a, i, Append(fix[1], fix[2])), q |-> [d.q EXCEPT ![i + 1] = fix[3]]]

RECURSIVE mp_recip(_), mp_divnorm(_, _), mp_divnorm_large(_, _)

\* [q, r] with Len(a) - Len(b) + 1 and Len(b) limbs. The upper limb of b is >= B / 2.
mp_divnorm(a, b) ==
    LET nb == Len(b)
        n == Len(a) - nb
        upper == SubSeq(a, n + 1, Len(a))
        q0 == Bit(mp_cmp(upper, b) >= 0)
        d0 == [a |-> IF q0 = 1 THEN Splice(a, n, mp_sub(upper, b, 0).tab) ELSE a,
               q |-> Append(Zeros(n), q0)]
        d == FoldLeft(LAMBDA acc, k : QuotientLimb(acc, n - k, b, n), d0, [k \in 1..n |-> k])
    IN  IF nb = 1
        THEN LET s == mp_div1norm(a, b[1], 0) IN [q |-> s[1], r |-> <<s[2]>>]
        ELSE IF n >= LargeThreshold /\ nb >= LargeThreshold THEN mp_divnorm_large(a, b)
        ELSE [q |-> d.q, r |-> SubSeq(d.a, 1, nb)]

-----------------------------------------------------------------------------
(* The subquadratic division, by an approximate inverse.                             *)

\* Newton's step corrects an upper half that is too large.
RECURSIVE LowerHalf(_, _, _)
LowerHalf(x, t, a) ==
    LET n == Len(a)
        s == mp_sub(SubSeq(t, 1, n), a, 0)
    IN  IF t[Len(t)] = 0 THEN <<x, t>>
        ELSE LowerHalf(mp_sub_ui(x, 1).tab,
                       s.tab \o mp_sub_ui(SubSeq(t, n + 1, Len(t)), s.carry).tab, a)

mp_recip(a) ==
    LET n == Len(a)
    IN  IF n <= 2
        THEN LET d == mp_divnorm(Append(Zeros(2 * n), 1), a)
                 q == SubSeq(d.q, 1, n + 1)
             IN  IF \A i \in 1..n : d.r[i] = 0 THEN mp_sub_ui(q, 1).tab ELSE q
        ELSE LET l == (n - 1) \div 2
                 h == n - l
                 xh == mp_recip(SubSeq(a, l + 1, n))
                 lo == LowerHalf(xh, mp_mul_basecase(a, xh), a)
                 neg == mp_neg(lo[2], 0).tab
                 t == [neg EXCEPT ![n + h + 1] = Wrap(@ + 1)]
                 u == mp_mul_basecase(SubSeq(t, l + 1, n + h + 1), lo[1])
                 up == SubSeq(lo[1], 1, h)
             IN  SubSeq(u, 2 * h - l + 1, 2 * h)
                   \o mp_add(up, SubSeq(u, 2 * h + 1, 3 * h), 0).tab \o <<lo[1][h + 1]>>

\* The quotient is too small by a few units.
RECURSIVE SubBack(_, _, _)
SubBack(a, b, q) ==
    LET nb == Len(b)
        s == mp_sub(SubSeq(a, 1, nb), b, 0)
    IN  IF a[nb + 1] = 0 /\ mp_cmp(SubSeq(a, 1, nb), b) < 0 THEN [q |-> q, r |-> SubSeq(a, 1, nb)]
        ELSE SubBack(Append(s.tab, Wrap(a[nb + 1] - s.carry)), b, mp_add_ui(q, 1).tab)

mp_divnorm_large(a, b) ==
    LET na == Len(a)
        nb == Len(b)
        nq == na - nb
        n == IF nq < nb THEN nq + 1 ELSE nq
        cut == mp_add_ui(SubSeq(b, nb - n + 1, nb), 1)
        inv == IF n >= nb THEN mp_recip(Zeros(n - nb) \o b)
               ELSE IF cut.carry # 0 THEN Append(Zeros(n), 1) ELSE mp_recip(cut.tab)
        t == mp_mul_basecase(inv, SubSeq(a, na - n, na))
        q == SubSeq(t, 2 * (n + 1) - nq, 2 * (n + 1))
        qb == mp_mul_basecase(q, b)
    IN  SubBack(mp_sub(SubSeq(a, 1, nb + 1), SubSeq(qb, 1, nb + 1), 0).tab, b, q)

-----------------------------------------------------------------------------
(* Square roots, for limbs whose width is 4 times a power of 2.                      *)

\* <<root, remainder>> of a number of w bits one of whose two upper bits is set. The
\* table gives the root of the upper 16 of 64 bits (here 4 of 16), and each iteration
\* doubles the number of bits.
RECURSIVE SqrtBits(_, _)
SqrtBits(a, w) ==
    LET tab == (<<2, 2, 3>>)[a \div 4]
        up == SqrtBits(a \div 2 ^ (w \div 2), w \div 2)
        e == 2 ^ (w \div 4)
        num == up[2] * e + ((a \div e) % e)
        q == num \div (2 * up[1])
        s == up[1] * e + q
        r == (num % (2 * up[1])) * e + (a % e) - q * q
    IN  IF w = 4
        THEN IF a - tab * tab > 2 * tab THEN <<tab + 1, a - tab * tab - (2 * tab + 1)>>
             ELSE <<tab, a - tab * tab>>
        ELSE IF r < 0 THEN <<s - 1, r + 2 * (s - 1) + 1>> ELSE <<s, r>>
mp_sqrtrem1(a) == SqrtBits(a, LimbBits)

clz(a) == CHOOSE k \in 0..LimbBits : a * 2 ^ k < B /\ (k = LimbBits \/ a * 2 ^ k >= B \div 2)

bf_isqrt(a) ==
    IF a = 0 THEN 0
    ELSE LET k == 2 * (clz(a) \div 2) IN mp_sqrtrem1(a * 2 ^ k)[1] \div 2 ^ (k \div 2)

\* [s, r, rh] of two limbs: the remainder has a limb and a bit.
mp_sqrtrem2(t) ==
    LET one == mp_sqrtrem1(t[2])
        e == 2 ^ (LimbBits \div 2)
        num == one[2] * e + (t[1] \div e)
        q == num \div (2 * one[1])
        s == Wrap(one[1] * e + q)
        r == ((num % (2 * one[1])) * e + (t[1] % e) - (IF q >= e THEN B ELSE q * q)) % (B * B)
        neg == r >= (B * B) \div 2
        s1 == IF neg THEN Wrap(s - 1) ELSE s
        r1 == IF neg THEN (r + 2 * s1 + 1) % (B * B) ELSE r
    IN  [s |-> <<s1>>, r |-> <<r1 % B>>, rh |-> r1 \div B]

\* The root of 2n limbs: the root of the upper half, a division by it, and one
\* correction. Faulty variant: the square of a quotient B^l is not subtracted.
RECURSIVE mp_sqrtrem_rec(_)
LowSquare(low, q, qh, l) == IF qh = 1 THEN [tab |-> low, carry |-> qh]
                             ELSE mp_sub(low, mp_mul_basecase(q, q), 0)
mp_sqrtrem_rec(a) ==
    LET n == Len(a) \div 2
        l == n \div 2
        h == n - l
        up == mp_sqrtrem_rec(SubSeq(a, 2 * l + 1, 2 * n))
        r1 == IF up.rh # 0 THEN mp_sub(up.r, up.s, 0).tab ELSE up.r
        d == mp_divnorm(SubSeq(a, l + 1, 2 * l) \o r1, up.s)
        qh2 == up.rh + d.q[l + 1]
        half == mp_shr(SubSeq(d.q, 1, l), 1, qh2 % 2)
        qh == qh2 \div 2
        u == IF half.carry # 0 THEN mp_add(d.r, up.s, 0) ELSE [tab |-> d.r, carry |-> 0]
        s == half.tab \o mp_add_ui(up.s, qh).tab
        r == SubSeq(a, 1, l) \o u.tab
        sq == LowSquare(SubSeq(r, 1, 2 * l), half.tab, qh, l)
        rest == mp_sub_ui(SubSeq(r, 2 * l + 1, n), sq.carry)
        rem == sq.tab \o rest.tab
        rh == u.carry - rest.carry
        s1 == mp_sub_ui(s, 1).tab
        back == mp_add_mul1(rem, s1, 2)
        one == mp_add_ui(back.tab, 1)
    IN  IF n = 1 THEN mp_sqrtrem2(a)
        ELSE IF rh < 0 THEN [s |-> s1, r |-> one.tab, rh |-> rh + back.carry + one.carry]
        ELSE [s |-> s, r |-> rem, rh |-> rh]

-----------------------------------------------------------------------------
(* What the operations promise, in numbers.                                          *)

\* Sums, differences and products of vectors are those of the numbers, up to the
\* carry that is returned (mp_add, mp_sub, mp_neg, mp_mul_basecase and their loops).
ArithmeticExact(a, b) ==
    LET top == B ^ Len(a)
    IN  /\ \A k \in {0, 1} :
            /\ LET s == mp_add(a, b, k) IN Value(s.tab) + s.carry * top = Value(a) + Value(b) + k
            /\ LET s == mp_sub(a, b, k) IN Value(s.tab) - s.carry * top = Value(a) - Value(b) - k
            /\ LET s == mp_neg(b, k) IN Value(s.tab) - s.carry * top = -Value(b) - k
        /\ LET s == mp_add_ui(a, b[1]) IN Value(s.tab) + s.carry * top = Value(a) + b[1]
        /\ LET s == mp_sub_ui(a, b[1]) IN Value(s.tab) - s.carry * top = Value(a) - b[1]
        /\ LET s == mp_mul1(a, b[1], b[2]) IN Value(s.tab) + s.carry * top = Value(a) * b[1] + b[2]
        /\ LET s == mp_sub_mul1(a, b, a[1]) IN Value(s.tab) - s.carry * top = Value(a) - Value(b) * a[1]
        /\ \A shift \in 1..LimbBits - 1 :
            LET s == mp_shr(a, shift, 0)
            IN  Value(s.tab) * 2 ^ shift + s.carry = Value(a)
        /\ Value(mp_mul_basecase(a, b)) = Value(a) * Value(b)

\* Both divisions give the quotient and a remainder below the divisor, and the
\* correcting loops end (mp_divnorm, mp_divnorm_large).
Divides(d, a, b) == Value(d.q) * Value(b) + Value(d.r) = Value(a) /\ Value(d.r) < Value(b)
DivisionExact(a, b) ==
    /\ Divides(mp_divnorm(a, b), a, b)
    /\ Len(a) > Len(b) => Divides(mp_divnorm_large(a, b), a, b)

\* The approximate inverse is below the exact one by at most a unit (mp_recip).
ReciprocalClose(a) ==
    LET r == mp_recip(a)
        top == B ^ (2 * Len(a))
    IN  Len(r) = Len(a) + 1 /\ Value(r) * Value(a) < top /\ top <= Value(r) * Value(a) + 2 * Value(a)

\* The root is the integer part of the square root and the remainder what is left
\* (mp_sqrtrem and the table driven start of it).
SquareRootExact(a) ==
    LET q == mp_sqrtrem_rec(a)
        s == Value(q.s)
        r == Value(q.r) + q.rh * B ^ Len(q.r)
    IN  s * s + r = Value(a) /\ r \in 0..2 * s

-----------------------------------------------------------------------------
(* The arithmetic on vectors of decimal limbs in libbf.c (mp_add_dec to              *)
(* mp_sqrtrem_dec). A limb holds a number below DecBase, a power of 10 that is above *)
(* half of what the limb's LimbBits bits hold (10^19 of 2^64 in the build).          *)

CONSTANT DecBase        \* BF_DEC_BASE

DecValue(t) == FoldLeft(LAMBDA v, x : v * DecBase + x, 0, Reverse(t))

\* The sum is taken less the base; it did wrap exactly if it is above the operand.
mp_add_dec(a, b, carry) ==
    Chain(Len(a), carry,
          LAMBDA i, k : LET s == Wrap(a[i] + b[i] + k - DecBase)
                        IN  IF s <= a[i] THEN <<s, 1>> ELSE <<Wrap(s + DecBase), 0>>)
\* The loop ends at the first limb without a carry.
mp_add_ui_dec(t, b) ==
    LET s == Chain(Len(t), <<b, TRUE>>,
                   LAMBDA i, k : LET v == Wrap(t[i] + k[1] - DecBase)
                                 IN  IF ~k[2] THEN <<t[i], k>>
                                     ELSE IF v <= t[i] THEN <<v, <<1, TRUE>>>>
                                     ELSE <<Wrap(v + DecBase), <<0, FALSE>>>>)
    IN  [tab |-> s.tab, carry |-> s.carry[1]]
mp_sub_dec(a, b, carry) ==
    Chain(Len(a), carry,
          LAMBDA i, k : LET s == Wrap(a[i] - b[i] - k)
                        IN  IF s > a[i] THEN <<Wrap(s + DecBase), 1>> ELSE <<s, 0>>)
mp_sub_ui_dec(t, b) ==
    Chain(Len(t), b, LAMBDA i, k : LET v == Wrap(t[i] - k)
                                   IN  IF v > t[i] THEN <<Wrap(v + DecBase), 1>> ELSE <<v, 0>>)

\* Two limbs are divided by the base (divdq_base).
mp_mul1_dec(a, b, l) ==
    Chain(Len(a), l, LAMBDA i, k : LET t == a[i] * b + k IN <<t % DecBase, t \div DecBase>>)
mp_add_mul1_dec(r, a, b) ==
    Chain(Len(a), 0, LAMBDA i, k : LET t == a[i] * b + k + r[i] IN <<t % DecBase, t \div DecBase>>)
mp_sub_mul1_dec(r, a, b) ==
    Chain(Len(a), 0,
          LAMBDA i, k : LET t == a[i] * b + k
                            s == Wrap(r[i] - (t % DecBase))
                        IN  IF s > r[i] THEN <<Wrap(s + DecBase), (t \div DecBase) + 1>>
                            ELSE <<s, t \div DecBase>>)
mp_mul_basecase_dec(a, b) ==
    FoldLeft(LAMBDA r, i : LET s == mp_add_mul1_dec(SubSeq(r, i, i + Len(a) - 1), a, b[i])
                           IN  Splice(r, i - 1, Append(s.tab, s.carry)),
             Zeros(Len(a) + Len(b)), [i \in 1..Len(b) |-> i])

\* One limb of a quotient by b: halving, an inverse of the normalised divisor for long
\* vectors, or the division of the processor.
Div1Limb(n, r, x, b) ==
    LET t == r * DecBase + x
        shift == clz(b)
        bn == b * 2 ^ shift
        d == udiv1norm((t * 2 ^ shift) \div B, Wrap(t * 2 ^ shift), bn, udiv1norm_init(bn))
    IN  IF b = 2 THEN <<(x \div 2) + (IF r # 0 THEN DecBase \div 2 ELSE 0), x % 2>>
        ELSE IF n >= UdivThreshold THEN <<d[1], d[2] \div 2 ^ shift>>
        ELSE <<t \div b, t % b>>
\* <<quotient, remainder>> of r * DecBase^Len(a) + a by b, with r < b.
mp_div1_dec(a, b, r) ==
    LET s == Chain(Len(a), r, LAMBDA i, k : Div1Limb(Len(a), k, a[Len(a) + 1 - i], b))
    IN  <<Reverse(s.tab), s.carry>>

RECURSIVE AddBackDec(_, _, _, _)
AddBackDec(w, top, b, q) ==
    LET s == mp_add_dec(w, b, 0)
        t == top + s.carry
    IN  IF s.carry # 0 /\ t = DecBase THEN <<s.tab, t, q - 1>>
        ELSE AddBackDec(s.tab, t, b, q - 1)

QuotientLimbDec(d, i, b) ==
    LET nb == Len(b)
        hi == d.a[i + nb + 1]
        q == IF hi >= b[nb] THEN DecBase - 1 ELSE (hi * DecBase + d.a[i + nb]) \div b[nb]
        s == mp_sub_mul1_dec(SubSeq(d.a, i + 1, i + nb), b, q)
        top == Wrap(hi - s.carry)
        fix == IF top > hi THEN AddBackDec(s.tab, Wrap(top + DecBase), b, q) ELSE <<s.tab, top, q>>
    IN  [a |-> Splice(d.a, i, Append(fix[1], fix[2])), q |-> [d.q EXCEPT ![i + 1] = fix[3]]]

\* [q, r]. A divisor whose upper limb is small is multiplied up first, and the
\* remainder divided again.
mp_div_dec(a, b) ==
    LET nb == Len(b)
        n == Len(a) - nb
        norm == b[nb] >= DecBase \div 2
        mult == IF norm THEN 1 ELSE DecBase \div (b[nb] + 1)
        am == mp_mul1_dec(a, mult, 0)
        bm == mp_mul1_dec(b, mult, 0).tab
        upper == SubSeq(a, n + 1, Len(a))
        q0 == Bit(mp_cmp(upper, b) >= 0)
        first == [a |-> IF q0 = 1 THEN Splice(a, n, mp_sub_dec(upper, b, 0).tab) ELSE a,
                  q |-> Append(Zeros(n), q0)]
        d0 == IF norm THEN first ELSE [a |-> Append(am.tab, am.carry), q |-> Zeros(n + 1)]
        d == FoldLeft(LAMBDA acc, i : QuotientLimbDec(acc, i, bm), d0,
                      Reverse([k \in 1..(IF norm THEN n ELSE n + 1) |-> k - 1]))
        r == SubSeq(d.a, 1, nb)
    IN  [q |-> d.q, r |-> IF norm THEN r ELSE mp_div1_dec(r, mult, 0)[1]]

-----------------------------------------------------------------------------
(* Division by an invariant divisor (Granlund and Montgomery).                       *)

fast_udiv_init(d) ==
    LET l == IF d = 1 THEN 0 ELSE LimbBits - clz(d - 1)
    IN  [m1 |-> Wrap((((2 ^ l - d) * B) \div d) + 1),
         shift1 |-> IF l > 1 THEN 1 ELSE l, shift2 |-> IF l = 0 THEN 0 ELSE l - 1]
fast_udiv(a, s) ==
    LET t1 == (s.m1 * a) \div B
    IN  (t1 + ((a - t1) \div 2 ^ s.shift1)) \div 2 ^ s.shift2

-----------------------------------------------------------------------------
(* The square root. mp_sqrtrem2_dec takes the root of two limbs in binary.           *)

mp_sqrtrem2_dec(t) ==
    LET a == t[2] * DecBase + t[1]
        s == CHOOSE s \in 0..DecBase : s * s <= a /\ (s + 1) * (s + 1) > a
    IN  [s |-> <<s>>, r |-> <<(a - s * s) % DecBase>>, rh |-> (a - s * s) \div DecBase]

RECURSIVE mp_sqrtrem_rec_dec(_)
mp_sqrtrem_rec_dec(a) ==
    LET n == Len(a) \div 2
        l == n \div 2
        h == n - l
        up == mp_sqrtrem_rec_dec(SubSeq(a, 2 * l + 1, 2 * n))
        r1 == IF up.rh # 0 THEN mp_sub_dec(up.r, up.s, 0).tab ELSE up.r
        d == mp_div_dec(SubSeq(a, l + 1, 2 * l) \o r1, up.s)
        qh2 == up.rh + d.q[l + 1]
        half == mp_div1_dec(SubSeq(d.q, 1, l), 2, qh2 % 2)
        qh == qh2 \div 2
        u == IF half[2] # 0 THEN mp_add_dec(d.r, up.s, 0) ELSE [tab |-> d.r, carry |-> 0]
        s == half[1] \o mp_add_ui_dec(up.s, qh).tab
        r == SubSeq(a, 1, l) \o u.tab
        sq == IF qh = 1 THEN [tab |-> SubSeq(r, 1, 2 * l), carry |-> qh]
              ELSE mp_sub_dec(SubSeq(r, 1, 2 * l), mp_mul_basecase_dec(half[1], half[1]), 0)
        rest == mp_sub_ui_dec(SubSeq(r, 2 * l + 1, n), sq.carry)
        rem == sq.tab \o rest.tab
        rh == u.carry - rest.carry
        s1 == mp_sub_ui_dec(s, 1).tab
        back == mp_add_mul1_dec(rem, s1, 2)
        one == mp_add_ui_dec(back.tab, 1)
    IN  IF n = 1 THEN mp_sqrtrem2_dec(a)
        ELSE IF rh < 0 THEN [s |-> s1, r |-> one.tab, rh |-> rh + back.carry + one.carry]
        ELSE [s |-> s, r |-> rem, rh |-> rh]

-----------------------------------------------------------------------------
\* Sums, differences, products and quotients of decimal vectors are those of the
\* numbers, and every limb stays below the base (mp_add_dec to mp_div_dec).
DecimalExact(a, b) ==
    LET top == DecBase ^ Len(a)
        Limbs(t) == \A i \in DOMAIN t : t[i] \in 0..DecBase - 1
    IN  /\ \A k \in {0, 1} :
            /\ LET s == mp_add_dec(a, b, k)
               IN  Limbs(s.tab) /\ DecValue(s.tab) + s.carry * top = DecValue(a) + DecValue(b) + k
            /\ LET s == mp_sub_dec(a, b, k)
               IN  Limbs(s.tab) /\ DecValue(s.tab) - s.carry * top = DecValue(a) - DecValue(b) - k
        /\ LET s == mp_add_ui_dec(a, b[1])
           IN  Limbs(s.tab) /\ DecValue(s.tab) + s.carry * top = DecValue(a) + b[1]
        /\ LET s == mp_sub_mul1_dec(a, b, a[1])
           IN  Limbs(s.tab) /\ DecValue(s.tab) - s.carry * top = DecValue(a) - DecValue(b) * a[1]
        /\ DecValue(mp_mul_basecase_dec(a, b)) = DecValue(a) * DecValue(b)
\* The remainder of a division is below the divisor, and the multiplier that
\* normalised the divisor is taken out again (mp_div_dec, mp_div1_dec).
DecDivisionExact(a, b) ==
    LET d == mp_div_dec(a, b)
    IN  DecValue(d.q) * DecValue(b) + DecValue(d.r) = DecValue(a) /\ DecValue(d.r) < DecValue(b)
\* The root of 2n limbs, the upper one at least a quarter of the base (mp_sqrtrem_dec).
DecRootExact(a) ==
    LET q == mp_sqrtrem_rec_dec(a)
        s == DecValue(q.s)
        r == DecValue(q.r) + q.rh * DecBase ^ Len(q.r)
    IN  s * s + r = DecValue(a) /\ r \in 0..2 * s
\* A product and two shifts divide every limb exactly (fast_udiv).
InvariantDivision(d) == \A a \in 0..B - 1 : fast_udiv(a, fast_udiv_init(d)) = a \div d
=============================================================================
