-------------------------------- MODULE MCAlgorithms --------------------------------
(* The algorithms without state of their own, on small inputs: the parameters of a   *)
(* call (Params), the key of a cached result (CacheKey), and the arithmetic, texts    *)
(* and values of QuickJS.                                                             *)
EXTENDS Params, TLC, CacheKey, Integers, Sequences, FiniteSets

-----------------------------------------------------------------------------
(* Params with 4-bit integers, floats that are exact up to 4, one parameter of every *)
(* kind, valid or not, and some pairs of parameters.                                 *)

Word(len, matches) ==
    [len |-> len, number |-> {}, digits |-> FALSE, truth |-> {}, matches |-> matches]
Numeral(n, digits) ==
    [len |-> 1, number |-> {n}, digits |-> digits, truth |-> {}, matches |-> FALSE]

\* "max" is the largest integer: as a float64 it is rounded to one that is too large.
MCText ==
    ("empty" :> Word(0, FALSE)) @@ ("word" :> Word(2, TRUE)) @@ ("long" :> Word(3, TRUE))
    @@ ("true" :> [Word(2, FALSE) EXCEPT !.truth = {TRUE}])
    @@ ("one" :> Numeral(Fin(2), TRUE)) @@ ("one.0" :> Numeral(Fin(2), FALSE))
    @@ ("half" :> Numeral(Fin(1), FALSE)) @@ ("max" :> Numeral(Fin(14), TRUE))
    @@ ("NaN" :> Numeral(NaN, FALSE)) @@ ("Inf" :> Numeral(Inf, FALSE))
MCStrings == DOMAIN MCText
MCLists == {<<s>> : s \in MCStrings} \cup {<<"one", "true">>, <<"one", "one.0">>}
MCJSONValues ==
    {Nil, Bool(TRUE), Bool(FALSE), List(<<>>), List(<<FloatVal(Fin(2)), Str("one")>>),
     List(<<Bool(TRUE), Nil>>), List(<<List(<<>>)>>), List(<<Str("word")>>)}
    \cup {Str(s) : s \in MCStrings} \cup {FloatVal(Fin(h)) : h \in {-2, 0, 2, 3, 4, 16}}

Param(name, in, required, type) ==
    [name |-> name, in |-> in, required |-> required, type |-> type, enum |-> {}, minimum |-> {},
     maximum |-> {}, maxLength |-> {}, pattern |-> {}, minItems |-> {}, maxItems |-> {}, elemType |-> ""]

Bases(types) ==
    {Param("a", in, required, type) :
        in \in {"query", "path", "body"}, required \in BOOLEAN, type \in types}

NumberEnums ==
    {{}, {IntVal(1), Str("half")}, {Str("one")}, {Str("word"), FloatVal(Fin(4))}, {FloatVal(Fin(3)), UintVal(2)}, {UintVal(8)},
     {UintVal(1), IntVal(2)}}
Numbers ==
    {[b EXCEPT !.enum = e] : b \in Bases({"integer", "number"}), e \in NumberEnums}
    \cup {[b EXCEPT !.minimum = lo, !.maximum = hi] :
            b \in Bases({"integer", "number"}), lo \in {{}, {Fin(2)}, {Fin(3)}}, hi \in {{}, {Fin(2)}, {Fin(16)}}}
Texts ==
    {[b EXCEPT !.enum = e, !.maxLength = n, !.pattern = x] :
        b \in Bases({"string"}), e \in {{}, {Str("one"), Str("long")}, {IntVal(1)}},
        n \in {{}, {-1}, {0}, {2}}, x \in {{}, {"regexp"}, {"invalid"}}}
Booleans == Bases({"boolean"}) \cup {[b EXCEPT !.enum = {Str("true")}] : b \in Bases({"boolean"})}
Arrays ==
    {[b EXCEPT !.elemType = e, !.minItems = lo, !.maxItems = hi] :
        b \in Bases({"array"}), e \in {"", "integer", "number", "string", "boolean"},
        lo \in {{}, {-1}, {2}}, hi \in {{}, {1}, {2}}}

Few(name) ==
    {[Param(name, "query", FALSE, "integer") EXCEPT !.enum = {Str("one")}],
     [Param(name, "query", TRUE, "string") EXCEPT !.enum = {Str("one")}],
     [Param(name, "query", TRUE, "number") EXCEPT !.minimum = {Fin(2)}],
     [Param(name, "path", FALSE, "string") EXCEPT !.pattern = {"regexp"}]}
MCEndpoints ==
    {<<p>> : p \in Numbers \cup Texts \cup Booleans \cup Arrays}
    \cup {<<p, q>> : p \in Few("a"), q \in Few("a") \cup Few("b")}

-----------------------------------------------------------------------------
(* Small parameter values for the encoding of CacheKey. *)

chA == 97
chB == 98
TwoURIs == {<<chA>>, <<chA, chB>>}
FewStrings == {<<>>, <<chA>>, <<chB>>, <<chA, chB>>}
FewLists == {<<>>, <<<<>>>>, <<<<chA>>>>, <<<<chA>>, <<chB>>>>, <<<<chA, chB>>>>}
FewInts == {0, 2, 3}
FewIntLists == {<<>>, <<2>>, <<3, 2>>}

-----------------------------------------------------------------------------
(* A pure algorithm is checked on one input at a time: the input is chosen in the   *)
(* initial state, and a property speaks of it in the only step. The first          *)
(* component of an input names the question that is asked of it.                    *)

VARIABLES
    job,     \* the input
    done     \* whether it has been taken up

jobVars == <<job, done>>

\* What is claimed of an input. The configuration gives each of these the claim of its
\* name below. TLC's statistics unfold a definition wherever it is used, a constant not,
\* and the algorithms use one another too often for that.
CONSTANTS LimbsHold(_), NumbersHold(_), UnicodeHold(_), StringsHold(_), JsonHold(_), ArraysHold(_),
          DatesHold(_), OperatorsHold(_)

TakeJob == ~done /\ done' = TRUE /\ UNCHANGED job

-----------------------------------------------------------------------------
(* Inputs for the arithmetic of libbf.c: limbs of three, four or sixteen bits or of  *)
(* one decimal digit, and numbers of one or two limbs, so that every carry, every    *)
(* estimate that is one too large and every way to round is met.                     *)

L3 == INSTANCE Limbs WITH LimbBits <- 3, UdivThreshold <- 3, LargeThreshold <- 3, DecBase <- 2
L4 == INSTANCE Limbs WITH LimbBits <- 4, UdivThreshold <- 3, LargeThreshold <- 3, DecBase <- 10
L16 == INSTANCE Limbs WITH LimbBits <- 16, UdivThreshold <- 3, LargeThreshold <- 3, DecBase <- 10000
L10 == INSTANCE Limbs WITH LimbBits <- 4, UdivThreshold <- 3, LargeThreshold <- 3, DecBase <- 10
F2 == INSTANCE BigFloat WITH Radix <- 2, LimbDigits <- 2, PrecInf <- 30, IntBits <- 4, DoubleExp <- 3,
                             DoubleFrac <- 2, ZivBits <- 2, ExpMax <- 6
F6 == INSTANCE BigFloat WITH Radix <- 2, LimbDigits <- 6, PrecInf <- 30, IntBits <- 4, DoubleExp <- 3,
                             DoubleFrac <- 2, ZivBits <- 2, ExpMax <- 6
D1 == INSTANCE BigDecimal WITH Radix <- 10, LimbDigits <- 1, PrecInf <- 30, IntMax <- 3, IntDigits <- 1
D2 == INSTANCE BigDecimal WITH Radix <- 10, LimbDigits <- 2, PrecInf <- 30, IntMax <- 31, IntDigits <- 2
R4 == INSTANCE BigFloat WITH Radix <- 2, LimbDigits <- 4, PrecInf <- 25, IntBits <- 4, DoubleExp <- 3,
                             DoubleFrac <- 2, ZivBits <- 2, ExpMax <- 6

Vectors(S, n) == [1..n -> S]
TopSet(S, n) == {t \in Vectors(S, n) : t[n] >= 4}
LeadSet(S, n) == {t \in Vectors(S, n) : t[n] # 0}

LimbsInit ==
    \/ \E x \in Vectors({0, 3, 4, 7}, 2), y \in Vectors({0, 3, 7}, 2) : job = <<"limbs", x, y>>
    \/ \E x \in Vectors({0, 4, 7}, 3), y \in TopSet({4, 7}, 1) : job = <<"divide", x, y>>
    \/ \E x \in Vectors({0, 3, 7}, 4), y \in TopSet({0, 4, 7}, 2) : job = <<"divide", x, y>>
    \/ \E x \in Vectors({0, 7}, 6), y \in TopSet({0, 4, 7}, 3) : job = <<"divide", x, y>>
    \/ \E x \in Vectors({0, 7}, 8), y \in {<<7, 7, 7, 7, 7>>, <<0, 7, 0, 0, 4>>, <<7, 0, 7, 7, 7>>} : job = <<"divide", x, y>>
    \/ \E x \in TopSet({4, 7}, 1) \cup TopSet({0, 4, 7}, 2) \cup TopSet({0, 4, 7}, 3) \cup TopSet({0, 7}, 4) : job = <<"reciprocal", x>>
    \/ \E x \in TopSet(0..15, 2) \cup TopSet({0, 4, 15}, 4) \cup TopSet({0, 15}, 6) : job = <<"root", x>>
    \/ \E x \in {331 * k : k \in 0..197} : job = <<"isqrt", x>>

DecLimbsInit ==
    \/ \E x \in Vectors({0, 1, 4, 5, 9}, 2), y \in Vectors({0, 4, 5, 9}, 2) : job = <<"decimal limbs", x, y>>
    \/ \E x \in Vectors({0, 4, 9}, 3), y \in LeadSet({1, 4, 5, 9}, 1) : job = <<"decimal divide", x, y>>
    \/ \E x \in Vectors({0, 3, 9}, 4), y \in LeadSet({0, 1, 5, 9}, 2) : job = <<"decimal divide", x, y>>
    \/ \E x \in Vectors({0, 9}, 5), y \in LeadSet({0, 4, 9}, 3) : job = <<"decimal divide", x, y>>
    \/ \E x \in {t \in Vectors(0..9, 2) \cup Vectors({0, 3, 9}, 4) : t[Len(t)] >= 3} : job = <<"decimal root", x>>
    \/ \E d \in 1..15 : job = <<"udiv", d>>

\* len limbs with the mantissa m.
Number(sign, expn, len, m) == [sign |-> sign, expn |-> expn, len |-> len, m |-> m]

Binaries == {Number(s, e, 1, m) : s \in {0, 1}, e \in {-1, 0, 2}, m \in {2, 3}}
            \cup {Number(s, e, 2, m) : s \in {0, 1}, e \in {-1, 0, 2}, m \in {9, 13, 15}}
DivisionModes == {"RNDZ", "RNDN", "RNDNA", "RNDD", "RNDU", "RNDA", "EUCLIDIAN"}
BigFloatInit ==
    \/ \E x \in Binaries, y \in {n \in Binaries : n.sign = 0}, r \in F2!Modes,
          ps \in {<<2, TRUE>>, <<3, FALSE>>} : job = <<"float", x, y, ps[1], F2!Flags(r, FALSE, ps[2], 3)>>
    \/ \E x \in Binaries, y \in {n \in Binaries : n.sign = 0} : job = <<"float", x, y, 30, F2!Wide("RNDZ")>>
    \/ \E x \in {-13, -11, -6, -3, 0, 2, 5, 12, 15}, y \in {-4, -2, 1, 2, 3, 4}, r \in DivisionModes :
          job = <<"divrem", x, y, r>>
    \/ \E x \in -9..9, y \in -3..3 : job = <<"integers", x, y>>
    \/ \E d \in {0, 1} \X (0..7) \X (0..3) : job = <<"double", d, Number(1, 0, 1, 33), "RNDN">>
    \/ \E m \in 32..63, e \in -6..5, s \in {0, 1}, r \in {"RNDN", "RNDZ", "RNDU"} :
          job = <<"double", <<0, 0, 1>>, Number(s, e, 1, m), r>>

Tens == {Number(s, e, 1, m) : s \in {0, 1}, e \in {0, 1}, m \in {1, 5, 9}}
        \cup {Number(0, e, 2, m) : e \in {0, 1}, m \in {15, 45, 99}}
Hundreds == {Number(s, e, 1, m) : s \in {0, 1}, e \in {0, 1}, m \in {10, 45, 99}}
BigDecimalInit ==
    \/ \E x, y \in Tens, p \in {1, 2}, r \in D1!Modes : job = <<"decimal1", x, y, p, D1!Flags(r, FALSE, 0, 1)>>
    \/ \E x, y \in Hundreds, p \in {1, 3}, r \in D1!Modes : job = <<"decimal2", x, y, p, D1!Flags(r, FALSE, 0, 1)>>
    \/ \E x, y \in Tens, r \in D1!Modes : job = <<"decimal1", x, y, 0, D1!Flags(r, TRUE, -30, 30)>>
    \/ \E x, y \in Hundreds, r \in D1!Modes : job = <<"decimal2", x, y, 1, D1!Flags(r, TRUE, -30, 30)>>
    \/ \E x, y \in Hundreds : job = <<"decimal2", x, y, 30, D2!Wide("RNDN")>>
    \/ \E x \in {-77, -32, -25, -10, 0, 4, 31, 45, 50, 60, 99}, y \in {-20, -7, 1, 2, 10, 30}, r \in DivisionModes :
          job = <<"decimal integers", x, y, r>>

Digits10 == {<<1>>, <<2, 5>>, <<0, 7>>, <<4, -1, 5>>, <<0, -1, 3>>, <<9, -1>>, <<-1, 8>>, <<6, 3>>, <<1, 0, 0>>}
Digits2 == {<<1>>, <<1, 1>>, <<0, 1>>, <<1, -1, 1>>, <<0, -1, 1>>, <<1, -1>>, <<-1, 1>>, <<1, 0, 1>>}
RadixInit ==
    \/ \E b \in Digits10, e \in -2..1, p \in {2, 3}, r \in R4!Modes :
          job = <<"text", R4!Text(0, b, "e", e), 10, p, R4!Wide(r)>>
    \/ \E s \in {0, 1}, b \in Digits2, mark \in {"e", "p"}, e \in {-2, 1}, x \in {2, 4, 8}, r \in R4!Modes :
          job = <<"text", R4!Text(s, b, mark, e), x, 2, R4!Wide(r)>>
    \/ \E s \in {0, 1}, b \in Digits2, e \in -2..1, p \in {2, 3}, r \in R4!Modes :
          job = <<"text", R4!Text(s, b, "e", e), 3, p, R4!Wide(r)>>
    \/ \E v \in -40..260, x \in {2, 3, 4, 7, 8, 10, 16} : job = <<"integer text", v, x>>
    \/ \E e \in {-2, 0, 1, 3, 4}, m \in {8, 10, 12, 14}, x \in {2, 3, 4, 8, 10}, r \in R4!Modes \ {"RNDF"} :
          job = <<"number text", Number(0, e, 1, m), x, 3, R4!Wide(r)>>

NumbersInit == done = FALSE /\ (LimbsInit \/ DecLimbsInit \/ BigFloatInit \/ BigDecimalInit \/ RadixInit)

-----------------------------------------------------------------------------
LimbsClaim(j) ==
    LET Asked(question) == j[1] = question IN
    /\ Asked("limbs") => L3!ArithmeticExact(j[2], j[3])
    /\ Asked("divide") => L3!DivisionExact(j[2], j[3])
    /\ Asked("reciprocal") => L3!ReciprocalClose(j[2])
    /\ Asked("root") => L4!SquareRootExact(j[2])
    /\ Asked("isqrt") => LET s == L16!bf_isqrt(j[2]) IN s * s <= j[2] /\ (s + 1) * (s + 1) > j[2]
    /\ Asked("decimal limbs") => L10!DecimalExact(j[2], j[3])
    /\ Asked("decimal divide") => L10!DecDivisionExact(j[2], j[3])
    /\ Asked("decimal root") => L10!DecRootExact(j[2])
    /\ Asked("udiv") => L10!InvariantDivision(j[2])

\* Vectors of limbs, binary and decimal: sum, difference, product and shift are exact
\* with their carries and borrows; quotient and remainder are, by the schoolbook division
\* and by multiplication with a reciprocal that is close; so is the square root with its
\* remainder; and division by a constant through multiplication gives the quotient of every
\* dividend (mp_add, mp_mul, mp_shl, mp_divnorm, mp_recip, mp_sqrtrem, bf_isqrt, mp_add_dec,
\* mp_div_dec, mp_sqrtrem_dec, fast_udiv).
LimbsExact == done => LimbsHold(job)

NumbersClaim(j) ==
    LET Asked(question) == j[1] = question IN
    /\ Asked("float") => F2!ArithmeticRounds(j[2], j[3], j[4], j[5])
    /\ Asked("divrem") => F2!DivremExact(j[2], j[3], j[4])
    /\ Asked("integers") => F2!IntegersExact(j[2], j[3])
    /\ Asked("double") => F6!DoublesExact(j[2], j[3], j[4])
    /\ Asked("decimal1") => D1!DecimalRounds(j[2], j[3], j[4], j[5])
    /\ Asked("decimal2") => D2!DecimalRounds(j[2], j[3], j[4], j[5])
    /\ Asked("decimal integers") => D2!DecimalIntegers(j[2], j[3], j[4])
    /\ Asked("text") => R4!TextReadsExactly(j[2], j[3], j[4], j[5])
    /\ Asked("integer text") => R4!IntegersAsText(j[2], j[3])
    /\ Asked("number text") => R4!NumbersAsText(j[2], j[3], j[4], j[5])

\* Numbers of libbf, binary and decimal: sum, difference, product, quotient and root are
\* the exact result rounded once, in every mode and at every precision; quotient and
\* remainder fit together; a BigInt is an integer in two's complement; a double converts
\* there and back; and a numeral is read, and written, as the number it denotes, rounded
\* once (bf_add, bf_mul, bf_div, bf_sqrt, __bf_round, bf_divrem, bf_logic_op,
\* bf_set_float64, bf_get_float64, bfdec_add, bfdec_div, bfdec_divrem, bf_atof_internal,
\* bf_ftoa_internal).
NumbersRound == done => NumbersHold(job)

-----------------------------------------------------------------------------
(* Inputs for the algorithms on characters and texts: sorted lists of points below   *)
(* six, run-length tables, texts of up to five units out of small alphabets with      *)
(* surrogates and marks, JSON texts and values, and regular expressions given by      *)
(* where they match.                                                                  *)

\* The letters 1 to 3, the marks 11 and 12 of class 1 and 13 of class 2, composed
\* letters, and Hangul with two leading and two middle jamos and two trailing ones.
MCDecomp == (21 :> <<1, 11>>) @@ (22 :> <<21, 13>>) @@ (23 :> <<1, 13>>) @@ (24 :> <<1, 13>>)
            @@ (25 :> <<11, 13>>) @@ (26 :> <<2, 3>>) @@ (27 :> <<2>>)
MCClass == (11 :> 1) @@ (12 :> 1) @@ (13 :> 2)
Uni(MaxPoint) == INSTANCE Unicode WITH
    BlockLen <- 2, Decomp <- MCDecomp, CC <- MCClass, Compat <- {24}, Latin1 <- {1, 2, 21}, Excluded <- {25, 27},
    LBase <- 101, VBase <- 111, TBase <- 121, SBase <- 200, LCount <- 2, VCount <- 2, TCount <- 3, StackMax <- 4

ShortStrings == INSTANCE Strings WITH LenMax <- 6, Slack <- 2
LongStrings == INSTANCE Strings WITH LenMax <- 40, Slack <- 2
J == INSTANCE Json WITH GapMax <- 2
RB == INSTANCE RegexpBuiltins

Upto(A, n) == UNION {[1..k -> A] : k \in 0..n}

-----------------------------------------------------------------------------
PointLists == {s \in UNION {[1..n -> 0..4] : n \in {0, 2, 4}} : Uni(6)!Sorted(s)}

CaseTypes == {"U", "L", "UF", "LF", "UL", "LSU", "U2L_399_EXT2", "U_EXT", "LF_EXT", "U_EXT2", "L_EXT2", "U_EXT3",
              "UF_D20", "UF_D1_EXT"}
CaseEntries(code) ==
    {e \in {[code |-> code, len |-> n, type |-> t, to |-> 50] : n \in 1..4, t \in CaseTypes} :
        e.len \in CASE e.type = "UL" -> {2, 4} [] e.type = "LSU" -> {3} [] OTHER -> {1, 2}}

CharactersInit ==
    \/ \E x, y \in PointLists : job = <<"ranges", x, y>>
    \/ \E t \in Upto({0, 9, 128, 130}, 5) \cup {<<0, 64, 2, 9>>, <<64, 0, 128, 64, 1>>} :
          t # <<>> /\ job = <<"table", t>>
    \/ \E e \in CaseEntries(1) : job = <<"case", <<e>> >>
    \/ \E e \in CaseEntries(0), f \in CaseEntries(5) : job = <<"case", <<e, f>> >>
    \/ \E s \in Upto({1, 2, 3, 11, 12, 13, 21, 22, 25, 101, 111, 201}, 3) \cup Upto({3, 23, 24, 26, 27, 102, 122, 205}, 2) :
          job = <<"normalize", s>>
    \/ \E name \in DOMAIN Uni(12)!unicode_prop : job = <<"property", name>>

-----------------------------------------------------------------------------
\* The same text in eight and in sixteen bit units.
Forms(u) == {[wide |-> TRUE, u |-> u]} \cup (IF ShortStrings!Narrow(u) THEN {[wide |-> FALSE, u |-> u]} ELSE {})
Strings8or16(A, n) == UNION {Forms(u) : u \in Upto(A, n)}

BufferCalls ==
    ({"c8", "w8"} \X {<<65>>}) \cup ({"c16", "c", "fill"} \X {<<65>>, <<256>>}) \cup {<<"c", <<65536>> >>}
    \cup ({"w16", "cat"} \X {<<65, 256>>, <<300, 301, 302>>}) \cup {<<"w8", <<65, 66, 67>> >>}
Replacements == Strings8or16({36, 38, 49}, 2) \cup {[wide |-> FALSE, u |-> u] : u \in {<<36, 96, 36, 39>>, <<36, 49, 50, 36, 50>>}}
StringsInit ==
    \/ \E n \in {0, 1, 3}, wide \in BOOLEAN, calls \in Upto(BufferCalls, 3) : job = <<"buffer", n, wide, calls>>
    \/ \E p \in Strings8or16({65, 128, 2047, 55296, 56320, 56321, 65535}, 3) : job = <<"utf8", p>>
    \/ \E p \in Strings8or16({65, 66}, 4) \cup Strings8or16({65, 300}, 3), q \in Strings8or16({65, 300}, 2), n \in -1..4 :
          job = <<"search", p, q, n>>
    \/ \E p \in Strings8or16({65, 300}, 3), q \in Strings8or16({65, 300}, 2), r \in Replacements, lim \in {-1, 2} :
          job = <<"replace", p, q, r, lim>>
    \/ \E p \in Strings8or16({65, 32, 300}, 2) \cup Strings8or16({65, 55296, 56320}, 3), x \in -2..4, y \in {-2, 0, 1, 3, 7},
          f \in Strings8or16({66, 300}, 2) : job = <<"cut", p, x, y, f>>

-----------------------------------------------------------------------------
JStr(t) == J!V("str", t, 0, <<>>)
JNum(t, n) == J!V("num", t, n, <<>>)
BigInt1 == J!V("bigint", <<"1">>, 0, <<>>)
NotANumber == J!V("nan", <<"NaN">>, 0, <<>>)
Node(class, prim, props, toJSON) == [cls |-> class, prim |-> prim, props |-> props, toJSON |-> toJSON]
Quoted == <<"n", "\"">>     \* a name with a quote in it
Members(vals) ==
    {<<>>} \cup {<<J!Member(<<"a">>, v)>> : v \in vals}
    \cup {<<J!Member(<<"a">>, v), J!Member(Quoted, w)>> : v, w \in vals}

\* Two objects or arrays that may refer to one another, a String and a Number object
\* and a function.
JsonHeaps ==
    {<<Node(c, J!Null, ps, <<>>), Node("object", J!Null, qs, tj), Node("string", JStr(<<"ctrl", "a">>), <<>>, <<>>),
       Node("number", JNum(<<"0">>, 0), <<>>, <<>>), Node("function", J!Null, <<>>, <<>>)>> :
        c \in {"array", "object"}, ps \in Members({JStr(<<"\"", "sur">>), J!Undefined, BigInt1, J!Ref(1), J!Ref(2), J!Ref(4), J!Ref(5)}),
        qs \in Members({J!Ref(1), NotANumber}), tj \in {<<>>, <<J!Ref(1)>>}}
Replacers ==
    {[drop |-> {}, array |-> <<>>], [drop |-> {<<"a">>}, array |-> <<>>],
     [drop |-> {}, array |-> << <<JStr(Quoted), J!Ref(3), JStr(<<"a">>), JStr(<<"a">>)>> >>]}

JsonLeaves == {JNum(<<"1">>, 0), J!V("obj", <<>>, 0, <<>>)}
Holding(vals) ==
    {J!V("obj", <<>>, 0, ps) : ps \in Members(vals)}
    \cup {J!V("arr", <<>>, 0, [i \in DOMAIN ps |-> J!Member(J!IndexName(i - 1), ps[i].v)]) : ps \in Members(vals)}
JsonInit ==
    \/ \E u \in Upto({"[", "]", ",", "1", " ", "-"}, 4) \cup Upto({"{", "}", ":", "\"", "a", ","}, 5) \cup Upto({"1", "0", "-", ".", "e", "+"}, 4) :
          job = <<"parse", u>>
    \/ \E u \in Upto({"\"", "\\", "n", "\n", "u0001", "ctrl", "1"}, 4) : job = <<"parse", <<"\"">> \o u>>
    \/ \E x, z \in {"a", "n"}, y \in {<<"0", ",">>, <<"0">>, <<"[", "]", ",">>, <<"true", ",">>, <<"true", "1", ",">>} :
          job = <<"parse", <<"{", "\"", x, "\"", ":">> \o y \o <<"\"", z, "\"", ":", "1", "}">> >>
    \/ \E h \in JsonHeaps, r \in Replacers, space \in {J!Undefined, JNum(<<"3">>, 3), JStr(<<"\n", " ", "x">>)} :
          job = <<"stringify", h, r, space>>
    \/ \E t \in Holding(JsonLeaves \cup Holding(JsonLeaves)), d \in {{}, {<<"a">>}, {J!IndexName(0)}},
          k \in {<< <<>>, <<"x">> >>, << <<"a">>, Quoted>>, <<Quoted, <<"a">> >>, <<J!IndexName(0), J!IndexName(1)>>} :
          job = <<"revive", t, [drop |-> d, kill |-> k]>>

-----------------------------------------------------------------------------
\* Where the expression matches from each index on, never inside a pair.
Whole(s, unicode, i) == ~(unicode /\ RB!Pair(s, i))
MatchTables(s, unicode) ==
    {t \in [0..Len(s) -> -1..Len(s)] :
        \A i \in 0..Len(s) : t[i] = -1 \/ (t[i] >= i /\ Whole(s, unicode, t[i]) /\ Whole(s, unicode, i))}
RegexpBuiltinsInit ==
    \E s \in {<<>>, <<"a">>, <<"a", "a">>, <<"a", "a", "a">>, <<"H", "L">>, <<"a", "H", "L">>}, g, y, u \in BOOLEAN :
        \E t \in MatchTables(s, u), last \in 0..(Len(s) + 1), lim \in {2, 9} :
            job = <<"regexp", [at |-> t, cap |-> [i \in 0..Len(s) |-> TRUE], group |-> lim = 9, global |-> g, sticky |-> y,
                               unicode |-> u, last |-> last], s, lim>>

TextsInit == done = FALSE /\ (CharactersInit \/ StringsInit \/ JsonInit \/ RegexpBuiltinsInit)

-----------------------------------------------------------------------------
UnicodeClaim(j) ==
    LET Asked(question) == j[1] = question IN
    /\ Asked("ranges") => Uni(6)!SetOperationsExact(j[2], j[3]) /\ Uni(6)!SearchExact(j[2])
    /\ Asked("table") => Uni(12)!LookupAgreesWithClass(j[2])
    /\ Asked("case") => Uni(12)!CaseClassExact(j[2])
    /\ Asked("normalize") => Uni(12)!NormalFormsStable(j[2])
    /\ Asked("property") => Uni(12)!PropertyPrograms(j[2])

\* Operations on character classes are exact and the search of the matcher finds what is
\* in a class (cr_op, cr_invert, lre_exec); looking up one character in a compressed table
\* agrees with unpacking it (lre_is_in_table, unicode_prop1, lre_case_conv, unicode_case1);
\* a normal form is stable (unicode_normalize, sort_cc); and the programs of the
\* properties evaluate to their sets (unicode_prop_ops).
UnicodeExact == done => UnicodeHold(job)

StringsClaim(j) ==
    LET Asked(question) == j[1] = question IN
    /\ Asked("buffer") => ShortStrings!BuffersKeepText(j[2], j[3], j[4])
    /\ Asked("utf8") => ShortStrings!TextSurvives(j[2])
    /\ Asked("search") => ShortStrings!SearchesExact(j[2], j[3], j[4])
    /\ Asked("replace") => LongStrings!ReplacesExact(j[2], j[3], j[4], j[5])
    /\ Asked("cut") => ShortStrings!CutsExact(j[2], j[3], j[4], j[5])
    /\ Asked("regexp") =>
         /\ RB!GlobalMatchesExact(j[2], j[3]) /\ RB!LastIndexKept(j[2], j[3])
         /\ RB!SplitsAsSpecified(j[2], j[3], j[4])

\* A string buffer holds what was put into it, in either width, through growing, widening
\* and errors (string_buffer_realloc, string_buffer_putc16); a text survives UTF-8, with
\* its surrogates (JS_ToCStringLen2, JS_NewStringLen); search, replace, split, slice and
\* their kin in any mix of widths (string_indexof, js_string_replace, js_sub_string); and
\* with an expression match, replace and split find every match once and end, with
\* lastIndex as ECMAScript says (js_regexp_exec, string_advance_index,
\* js_regexp_Symbol_split).
StringsExact == done => StringsHold(job)

JsonClaim(j) ==
    LET Asked(question) == j[1] = question IN
    /\ Asked("parse") => J!ReadsJson(j[2])
    /\ Asked("stringify") => J!WritesWhatParses(j[2], J!Ref(1), j[3], j[4])
    /\ Asked("revive") => J!Revives(j[2], j[3])

\* JSON.parse makes of a text what the grammar says (JS_ParseJSON2, json_parse_value);
\* JSON.stringify writes JSON for the value and stops at every cycle (js_json_to_str,
\* js_json_check); and the reviver is called once for every name that was there, leaves
\* first (internalize_json_property).
JsonExact == done => JsonHold(job)

-----------------------------------------------------------------------------
(* Inputs for sorting, for the methods of arrays and typed arrays, for dates and for *)
(* the operators: arrays of up to nine elements with holes and with an element of    *)
(* the prototype at index 1, buffers of six bytes of two bits, a calendar with short *)
(* days, and integers of four bits.                                                  *)

Shallow == INSTANCE ArrayBuiltins WITH SmallCount <- 3, MaxDepth <- 1, Inherited <- (1 :> "p"), Undef <- "undefined"
AB == INSTANCE ArrayBuiltins WITH SmallCount <- 2, MaxDepth <- 50, Inherited <- (1 :> "p"), Undef <- "undefined"
TA == INSTANCE TypedArrays WITH Base <- 4
DT == INSTANCE Dates WITH MsDigits <- 1, SecsPerMin <- 2, MinsPerHour <- 2, MaxTime <- 2000000000

-----------------------------------------------------------------------------
\* A comparison function may answer anything, and not the same for x, y and y, x.
Answers == [{p \in (1..3) \X (1..3) : p[1] # p[2]} -> {-1, 0, 1}]
Comparing(c) == [p \in ({4} \X (1..4)) \cup ((1..3) \X {4}) |-> 1] @@ c @@ [p \in (1..3) \X (1..3) |-> 0]
SortInit ==
    \/ \E n \in {0, 1, 2, 5, 6} : \E a \in [1..n -> 1..3] : job = <<"sort", a>>
    \/ \E a \in [1..7 -> 1..2] \cup {<<8, 7, 6, 5, 4, 3, 2, 1>>, <<5, 2, 8, 1, 3, 7, 4, 6>>, <<4, 9, 2, 5, 1, 8, 6, 7, 3>>} :
          job = <<"sort", a>>
    \/ \E a \in {<<1, 2, 3, 1, 2>>, <<3, 1, 2, 2, 1, 3>>, <<2, 3, 1, 3, 3, 2, 1>>}, c \in Answers : job = <<"compare", a, c>>

-----------------------------------------------------------------------------
JSArray(fast, f, len, writable, extensible) ==
    [fast |-> fast, el |-> [i \in DOMAIN f |-> [val |-> f[i], fixed |-> FALSE]], length |-> len,
     lenW |-> writable, ext |-> extensible]
FastArrays ==
    UNION {{JSArray(TRUE, f, n + h, w, e) : f \in [0..(n - 1) -> {"x", "y"}], h \in {0, 1}, w, e \in BOOLEAN} : n \in 0..3}
Alternating(D) == [i \in D |-> IF i % 2 = 0 THEN "x" ELSE "y"]
OrdinaryArrays ==
    {a \in FastArrays : a.lenW /\ a.ext}
    \cup UNION {{JSArray(FALSE, f, 3, TRUE, TRUE) : f \in [D -> {"undefined", "x", "y"}]} : D \in SUBSET (0..2)}
    \cup {JSArray(FALSE, Alternating(D), 5, TRUE, TRUE) : D \in SUBSET (0..4)}
Arguments == {<<>>, <<"n">>, <<"n", "m">>}
Rank == ("x" :> 1) @@ ("y" :> 2) @@ ("p" :> 2)

\* What the callback of a method answers and does at its first two calls.
Callbacks == [1..2 -> [ret : BOOLEAN, does : {"nothing", "clears", "appends", "deletes next", "sets next"}]]
Calls(f) == f @@ (3 :> [ret |-> TRUE, does |-> "nothing"]) @@ [i \in 4..5 |-> [ret |-> FALSE, does |-> "nothing"]]
ArrayInit ==
    \/ \E a \in FastArrays, args \in Arguments : job = <<"fast", a, args>>
    \/ \E a \in OrdinaryArrays, p \in {-2, 0, 1, 3}, q \in {-1, 0, 2, 6}, args \in Arguments : job = <<"rearrange", a, p, q, args>>
    \/ \E a \in OrdinaryArrays : job = <<"array sort", a>>
    \/ \E f \in Callbacks, a \in {JSArray(TRUE, Alternating(0..2), 3, TRUE, TRUE), JSArray(TRUE, Alternating(0..1), 4, TRUE, TRUE),
                                  JSArray(FALSE, Alternating({0, 2, 3}), 5, TRUE, TRUE)} : job = <<"visit", a, f>>

-----------------------------------------------------------------------------
\* A memory of two buffers.
Memories == {<<b, <<2, 3, 1, 3>> >> : b \in {<<0, 1, 2, 3, 1, 0>>, <<3, 3, 0, 2, 2, 3>>, <<1, 0, 1, 0, 3, 2>>}}
View(c, b, o, n) == [class |-> c, buf |-> b, off |-> o, count |-> n]
OneByte == {"Uint8C", "Int8", "Uint8"}
TwoBytes == {"Int16", "Uint16"}
Views == {View(c, 1, o, n) : c \in OneByte, o \in {0, 2}, n \in {0, 3, 4}} \cup {View(c, 1, o, n) : c \in TwoBytes, o \in {0, 2}, n \in {1, 2}}
SetSources == {View(c, b, o, n) : c \in OneByte, b \in {1, 2}, o \in {0, 1}, n \in {1, 3}}
              \cup {View(c, b, o, 1) : c \in TwoBytes, b \in {1, 2}, o \in {0, 2}}
TypedArrayInit ==
    \E m \in Memories :
        \/ \E v \in Views, p \in {-2, 0, 1, 3}, q \in {-1, 0, 2, 6} : job = <<"view", m, v, p, q>>
        \/ \E v \in Views, s \in SetSources, o \in {-1, 0, 1, 2} : job = <<"set", m, v, s, o>>
        \/ \E v \in Views, h \in {-3, -2, -1, 0, 1, 2, 4, 6}, f \in {-2, 0, 1, 5} : job = <<"find", m, v, h, f>>
        \/ \E c \in TA!Classes, o \in {0, 1, 4, 6, 7}, n \in 0..3, p \in 0..2, h \in {-7, -2, 0, 1, 3, 5, 40} :
              job = <<"access", m, c, o, n, p, h>>

-----------------------------------------------------------------------------
\* Days around the epoch, the years 0, 1999, 2000 and 2100.
Day == 960
Days == -800..1600 \cup {-719530 + i : i \in 0..800} \cup {47460 + i : i \in 0..800} \cup {10900 + i : i \in 0..400}
SomeTimes == {d * Day + 871 : d \in {d \in Days : d % 50 = 7}}
Zone(before, after) == [before |-> before, after |-> after, at |-> 0]
DateInit ==
    \/ \E d \in Days, x \in {0, 533} : job = <<"calendar", d * Day + x>>
    \/ \E t \in SomeTimes, n \in {-13, -1, 1, 2, 13, 40} : job = <<"carry", t, n>>
    \/ \E t \in SomeTimes, o \in {0, 10, -11} : job = <<"local", t, o>>
    \/ \E t \in SomeTimes, z \in {Zone(0, 0), Zone(10, 8), Zone(-11, -11)} : job = <<"date text", t, z>>
    \/ \E w \in 1..3 : \E v \in 0..(10^w - 1) : job = <<"fraction", v, w>>

-----------------------------------------------------------------------------
Nothing == [t |-> "none", q |-> <<0, 1>>, s |-> <<>>, id |-> 0]
Value(t, q) == [Nothing EXCEPT !.t = t, !.q = q]
TextValue(s) == [Nothing EXCEPT !.t = "string", !.s = s]
ObjectValue(i) == [Nothing EXCEPT !.t = "object", !.id = i]
NumText(p, q) == TextValue(<< <<"num", <<p, q>> >> >>)
Throws == [Nothing EXCEPT !.t = "exception", !.s = << <<"thrown", <<0, 1>> >> >>]
Methods(toPrimitive, valueOf, toString) == [toPrimitive |-> toPrimitive, valueOf |-> valueOf, toString |-> toString]

\* Six objects: what their conversion methods give, if they have them.
MCConvert ==
    <<Methods(Nothing, Value("int", <<3, 1>>), NumText(4, 1)), Methods(Nothing, ObjectValue(2), NumText(2, 1)),
      Methods(Nothing, Nothing, Throws), Methods(Value("bigint", <<2, 1>>), Nothing, Nothing),
      Methods(ObjectValue(1), Value("int", <<1, 1>>), Nothing), Methods(Nothing, ObjectValue(1), ObjectValue(1))>>
OP == INSTANCE Operators WITH IntBits <- 4, Convert <- MCConvert

OperandSet ==
    {Value("int", <<n, 1>>) : n \in {-8, -7, -3, -1, 0, 1, 2, 3, 7}}
    \cup {Value("float", q) : q \in {<<0, 0>>, <<1, 0>>, <<-1, 0>>, <<0, -1>>, <<0, 1>>, <<1, 1>>, <<-8, 1>>, <<8, 1>>, <<-3, 2>>,
                                     <<21, 1>>, <<-25, 2>>}}
    \cup {Value("bigint", <<n, 1>>) : n \in {-2, 0, 2, 3}} \cup {Value("bool", <<n, 1>>) : n \in {0, 1}}
    \cup {Value("undefined", <<0, 1>>), Value("null", <<0, 1>>), [Nothing EXCEPT !.t = "symbol", !.id = 1]}
    \cup {TextValue(<<>>), NumText(2, 1), NumText(3, 1), NumText(1, 2), TextValue(<< <<"x", <<0, 1>> >> >>)} \cup {ObjectValue(i) : i \in 1..6}
Binary == {"add", "sub", "mul", "div", "mod", "pow", "shl", "sar", "and", "or", "xor", "shr", "lt", "lte", "gt", "gte"}

\* Powers are asked of small whole exponents only: others have no exact fraction.
SmallExponent(y) ==
    y.t \in {"int", "float", "bigint", "bool", "undefined", "null"} /\ y.q[1] \in -3..3 /\ y.q[2] \in {0, 1, -1}
OperatorInit ==
    \/ \E op \in Binary, x, y \in OperandSet : (op = "pow" => SmallExponent(y)) /\ job = <<"binary", op, x, y>>
    \/ \E op \in {"plus", "neg", "not", "inc", "dec"}, x \in OperandSet : job = <<"unary", op, x>>
    \/ \E x, y \in OperandSet : job = <<"equal", x, y>>

ValuesInit == done = FALSE /\ (SortInit \/ ArrayInit \/ TypedArrayInit \/ DateInit \/ OperatorInit)

-----------------------------------------------------------------------------
ArraysClaim(j) ==
    LET Asked(question) == j[1] = question IN
    /\ Asked("sort") => Shallow!SortsInBoundedSpace(j[2]) /\ AB!SortsInBoundedSpace(j[2])
    /\ Asked("compare") => /\ Shallow!NothingLost(j[2], Comparing(j[3]), 4, 4)
                           /\ AB!NothingLost(j[2], Comparing(j[3]), 4, 4)
    /\ Asked("fast") => AB!FastAgreesWithGeneric(j[2], j[3])
    /\ Asked("rearrange") => AB!RearrangesAsSpecified(j[2], j[3], j[4], j[5])
    /\ Asked("array sort") => AB!SortsAsSpecified(j[2], Rank)
    /\ Asked("visit") => AB!VisitsAsSpecified(j[2], Calls(j[3]))
    /\ Asked("view") => /\ TA!ViewsFit(j[2], j[3], j[4], j[5])
                        /\ TA!RearrangesView(j[2], j[3], j[4], j[5], j[4] + j[5])
    /\ Asked("set") => TA!SetCopiesApart(j[2], j[3], j[4], j[5])
    /\ Asked("find") => \A last \in BOOLEAN :
         (last /\ j[4] < 0 /\ j[3].class = "Int8") \/ TA!SearchFinds(j[2], j[3], j[4], j[5], last)
    /\ Asked("access") => TA!AccessesExact(j[2], j[3], 1, j[4], j[5], j[6], j[7])

\* The sort orders its input in the fixed stack it has, and ends with the elements it was
\* given when the comparison contradicts itself (rqsort); the fast paths of the methods
\* of arrays do what the generic code does (js_array_pop, js_array_push, js_array_slice);
\* on arrays with holes and an inherited element, and while a callback changes the array,
\* the methods do what ECMAScript says (JS_CopySubArrays, js_array_sort, js_array_every,
\* js_array_find); views of a buffer lie inside it, and reading, writing, searching and
\* setting elements touch the bytes meant (js_typed_array_subarray,
\* js_typed_array_indexOf, js_typed_array_set_internal, js_dataview_setValue). set is
\* asked of arrays that do not overlap; lastIndexOf of a negative number in an Int8Array
\* is left out.
ArraysExact == done => ArraysHold(job)

DatesClaim(j) ==
    LET Asked(question) == j[1] = question IN
    /\ Asked("calendar") => DT!CalendarExact(j[2])
    /\ Asked("carry") => DT!CarriesExact(j[2], j[3])
    /\ Asked("local") => DT!LocalFieldsKeptFixed(j[2], j[3])
    /\ Asked("date text") => DT!ReadsBack(j[2], j[3])
    /\ Asked("fraction") => DT!FractionsRound(j[2], j[3])

\* The fields of a time name that time, a field set beyond its range carries into the
\* next, and local fields stay in a zone without daylight saving (get_date_fields,
\* set_date_fields); a date that was written as a text is read as the same date, with a
\* fraction of a second rounded to milliseconds (js_date_parse, get_date_string).
DatesExact == done => DatesHold(job)

OperatorsClaim(j) ==
    LET Asked(question) == j[1] = question IN
    /\ Asked("binary") => OP!BinaryExact(j[2], j[3], j[4])
    /\ Asked("unary") => OP!UnaryExact(j[2], j[3])
    /\ Asked("equal") => \A z \in OperandSet : OP!ComparisonsAgree(j[2], j[3], z)

\* The fast paths for integers and the slow paths of the operators agree with ECMAScript,
\* conversions of objects and their order included (js_binary_arith_slow, js_add_slow,
\* js_relational_slow, JS_ToPrimitiveFree); ==, ===, SameValue and SameValueZero are what
\* they should be to one another (js_eq_slow, js_strict_eq2).
OperatorsExact == done => OperatorsHold(job)

-----------------------------------------------------------------------------
(* One run for all of them: a behaviour is about one of the three topics.            *)

VARIABLE topic

\* The variables of the other topics keep the first values they can have.
ParamsRest == cpu = "amd64" /\ params = <<>> /\ server = "config" /\ pinfo = <<>> /\ req = NoRequest /\ out = Nil
KeyRest == uri = [i \in 1..2 |-> <<chA>>] /\ call = [i \in 1..2 |-> <<>>]
JobRest == job = <<"none">> /\ done = FALSE

AlgorithmsInit ==
    \/ topic = "params" /\ Init /\ KeyRest /\ JobRest
    \/ topic = "key" /\ ParamsRest /\ KeyInit /\ JobRest
    \/ topic = "engine" /\ ParamsRest /\ KeyRest /\ (ValuesInit \/ TextsInit \/ NumbersInit)

AlgorithmsNext ==
    \/ topic = "params" /\ Next /\ UNCHANGED <<topic, keyVars, jobVars>>
    \/ topic = "key" /\ AddParam /\ UNCHANGED <<topic, vars, jobVars>>
    \/ topic = "engine" /\ TakeJob /\ UNCHANGED <<topic, vars, keyVars>>

AlgorithmsSpec == AlgorithmsInit /\ [][AlgorithmsNext]_<<topic, vars, keyVars, jobVars>>
=============================================================================
