-------------------------------- MODULE Unicode --------------------------------
(* Sets of characters as sorted lists of points (libunicode.c: CharRange): the       *)
(* points at odd places open an interval and those at even places close it. Regular  *)
(* expressions build their classes from them and search them at run time.            *)
EXTENDS Integers, Sequences, FiniteSets, SequencesExt

CONSTANTS
    MaxPoint    \* UINT32_MAX: closes the last interval of an inverted set

\* The characters of a list of points.
Chars(pt) == UNION {pt[2 * k - 1]..pt[2 * k] - 1 : k \in 1..Len(pt) \div 2}

\* What every list passed around satisfies: an even number of points that increase;
\* cr_op and cr_invert leave no empty and no adjacent intervals.
Sorted(pt) == Len(pt) % 2 = 0 /\ \A k \in 1..Len(pt) - 1 : pt[k] <= pt[k + 1]
Compressed(pt) == Len(pt) % 2 = 0 /\ \A k \in 1..Len(pt) - 1 : pt[k] < pt[k + 1]

\* Merges consecutive intervals and drops empty ones: a close and an open at the same
\* place vanish.
RECURSIVE Merge(_, _)
Merge(done, todo) ==
    IF todo = <<>> THEN done
    ELSE LET i == Head(todo)
             n == Len(done)
         IN  IF i[1] = i[2] THEN Merge(done, Tail(todo))
             ELSE IF n > 0 /\ done[n][2] = i[1]
                  THEN Merge([done EXCEPT ![n][2] = i[2]], Tail(todo))
                  ELSE Merge(Append(done, i), Tail(todo))
cr_compress(pt) ==
    FlattenSeq(Merge(<<>>, [k \in 1..Len(pt) \div 2 |-> <<pt[2 * k - 1], pt[2 * k]>>]))

\* One more point from a or b in increasing order, kept if the in/out status changes.
In(op, a, b) ==
    CASE op = "union" -> a % 2 = 1 \/ b % 2 = 1
      [] op = "inter" -> a % 2 = 1 /\ b % 2 = 1
      [] op = "xor" -> (a % 2 = 1) # (b % 2 = 1)
RECURSIVE Sweep(_, _, _, _, _, _)
Sweep(out, a, i, b, j, op) ==
    IF i = Len(a) /\ j = Len(b) THEN out
    ELSE LET both == i < Len(a) /\ j < Len(b)
             fromA == IF both THEN a[i + 1] <= b[j + 1] ELSE i < Len(a)
             fromB == IF both THEN b[j + 1] <= a[i + 1] ELSE j < Len(b)
             i2 == IF fromA THEN i + 1 ELSE i
             j2 == IF fromB THEN j + 1 ELSE j
             v == IF fromA THEN a[i + 1] ELSE b[j + 1]
         IN  Sweep(IF In(op, i2, j2) # (Len(out) % 2 = 1) THEN Append(out, v) ELSE out,
                   a, i2, b, j2, op)
cr_op(a, b, op) == cr_compress(Sweep(<<>>, a, 0, b, 0, op))

cr_union1(cr, b) == cr_op(cr, b, "union")
cr_union_interval(cr, c1, c2) == cr_union1(cr, <<c1, c2 + 1>>)
cr_invert(cr) == cr_compress(<<0>> \o cr \o <<MaxPoint>>)

\* Adds the upper case forms of the letters in Low (there are Low - Up places between
\* a letter and its upper case form).
cr_canonicalize(cr, low, up, letters) ==
    LET a == cr_op(cr, <<low, low + letters>>, "inter")
    IN  cr_union1(cr, [k \in DOMAIN a |-> a[k] - low + up])

\* The binary search of REOP_range over closed intervals; the last one is open ended
\* if it ends in 0xffff, which is how re_emit_range writes UINT32_MAX.
RECURSIVE SearchRange(_, _, _, _)
SearchRange(pt, c, min, max) ==
    IF min > max THEN FALSE
    ELSE LET idx == (min + max) \div 2
         IN  IF c < pt[2 * idx + 1] THEN SearchRange(pt, c, min, idx - 1)
             ELSE IF c > pt[2 * idx + 2] - 1 THEN SearchRange(pt, c, idx + 1, max)
             ELSE TRUE
range_match(pt, c) ==
    /\ pt # <<>> /\ c >= pt[1] /\ c <= pt[Len(pt)] - 1
    /\ SearchRange(pt, c, 0, Len(pt) \div 2 - 1)

-----------------------------------------------------------------------------
\* The operations on point lists are the operations on sets of characters, for lists
\* with touching and with empty intervals too, and their results are compressed, as
\* the search in a class needs (cr_op, cr_invert, cr_union_interval).
SetOperationsExact(a, b) ==
    LET u == cr_op(a, b, "union")
        i == cr_op(a, b, "inter")
        x == cr_op(a, b, "xor")
        n == cr_invert(a)
    IN  /\ Chars(u) = Chars(a) \cup Chars(b)
        /\ Chars(i) = Chars(a) \cap Chars(b)
        /\ Chars(x) = (Chars(a) \cup Chars(b)) \ (Chars(a) \cap Chars(b))
        /\ Chars(n) = (0..MaxPoint - 1) \ Chars(a)
        /\ \A r \in {u, i, x, n} : Compressed(r)

\* The search finds exactly the characters of a class, whatever its number of
\* intervals (REOP_range, REOP_range32).
SearchExact(a) ==
    LET pt == cr_compress(a)
    IN  \A c \in 0..MaxPoint - 1 : range_match(pt, c) <=> c \in Chars(a)

-----------------------------------------------------------------------------
(* The compressed Unicode tables of libunicode.c: run length tables with an index,    *)
(* the case conversion table, the general category table and the stack machine that  *)
(* combines them into the binary properties. The tables themselves are generated     *)
(* data (libunicode-table.h); here they are any small table of the same format.      *)

CONSTANTS
    BlockLen    \* UNICODE_INDEX_BLOCK_LEN

-----------------------------------------------------------------------------
(* Run length tables of properties. The runs alternate between out and in.          *)

\* The runs of the byte at place p (0 based), and the place after it.
Token(table, p) ==
    LET b == table[p + 1]
    IN  IF b < 64 THEN [runs |-> <<(b \div 8) + 1, (b % 8) + 1>>, next |-> p + 1]
        ELSE IF b >= 128 THEN [runs |-> <<b - 128 + 1>>, next |-> p + 1]
        ELSE [runs |-> <<(b - 64) * 256 + table[p + 2] + 1>>, next |-> p + 2]

\* The generator's index: in each block the first token at which the table is "out",
\* with the code it starts at; the last entry is the end of the table.
RECURSIVE Walk(_, _, _, _)
Walk(table, p, code, bit) ==
    IF p >= Len(table) THEN <<[pos |-> p, code |-> code, bit |-> 0]>>
    ELSE LET t == Token(table, p)
             len == IF Len(t.runs) = 2 THEN t.runs[1] + t.runs[2] ELSE t.runs[1]
         IN  <<[pos |-> p, code |-> code, bit |-> bit]>>
                \o Walk(table, t.next, code + len, (bit + Len(t.runs)) % 2)
Index(table) ==
    LET w == Walk(table, 0, 0, 0)
        entry(k) == CHOOSE e \in ToSet(w) :
                        /\ e.pos >= k * BlockLen /\ e.bit = 0
                        /\ \A o \in ToSet(w) : o.pos >= k * BlockLen /\ o.bit = 0 => e.pos <= o.pos
        blocks == {k \in 1..Len(table) : k * BlockLen < Len(table)}
    IN  [k \in 1..Cardinality(blocks) + 1 |->
            IF k \in blocks THEN entry(k) ELSE w[Len(w)]]

RECURSIVE SearchIndex(_, _, _, _)
SearchIndex(index, c, min, max) ==
    IF max - min <= 1 THEN min
    ELSE LET idx == (max + min) \div 2
         IN  IF c < index[idx].code THEN SearchIndex(index, c, min, idx)
             ELSE SearchIndex(index, c, idx, max)
\* Faulty variant: the start of the following block goes with the block found.
get_index_pos_NextCode(index, c) ==
    LET n == Len(index)
    IN  IF c < index[1].code THEN [pos |-> 0, code |-> 0]
        ELSE IF c >= index[n].code THEN [pos |-> -1, code |-> 0]
        ELSE LET k == SearchIndex(index, c, 1, n) IN [pos |-> index[k].pos, code |-> index[k + 1].code]

get_index_pos(index, c) ==
    LET n == Len(index)
    IN  IF c < index[1].code THEN [pos |-> 0, code |-> 0]
        ELSE IF c >= index[n].code THEN [pos |-> -1, code |-> 0]
        ELSE LET e == index[SearchIndex(index, c, 1, n)] IN [pos |-> e.pos, code |-> e.code]

RECURSIVE Lookup(_, _, _, _, _)
Lookup(table, c, p, code, bit) ==
    LET t == Token(table, p)
        c1 == code + t.runs[1]
        c2 == IF Len(t.runs) = 2 THEN c1 + t.runs[2] ELSE c1
    IN  IF c < c1 THEN bit = 1
        ELSE IF c < c2 THEN bit = 0
        ELSE Lookup(table, c, t.next, c2, (bit + Len(t.runs)) % 2)
lre_is_in_table(table, c) ==
    LET at == get_index_pos(Index(table), c)
    IN  at.pos >= 0 /\ Lookup(table, c, at.pos, at.code, 0)

\* All the characters of a property, as intervals.
RECURSIVE unicode_prop1(_, _, _, _, _)
unicode_prop1(cr, table, p, c0, bit) ==
    IF p >= Len(table) THEN cr
    ELSE LET t == Token(table, p)
             c1 == c0 + t.runs[1]
             cr1 == IF bit = 1 THEN cr \o <<c0, c1>> ELSE cr
         IN  IF Len(t.runs) = 1 THEN unicode_prop1(cr1, table, t.next, c1, 1 - bit)
             ELSE LET c2 == c1 + t.runs[2]
                  IN  unicode_prop1(IF bit = 0 THEN cr1 \o <<c1, c2>> ELSE cr1, table, t.next, c2, bit)

\* The indexed look-up of one character (identifiers, case rules) and the class made of
\* the whole table (\p{..} in regular expressions) read the same property out of a
\* table (lre_is_in_table and unicode_prop1).
LookupAgreesWithClass(table) ==
    LET class == unicode_prop1(<<>>, table, 0, 0, 0)
        end == Walk(table, 0, 0, 0)
    IN  \A c \in 0..end[Len(end)].code + 1 : lre_is_in_table(table, c) <=> c \in Chars(class)

-----------------------------------------------------------------------------
(* Case conversion. An entry of the table has code, len, type and to: the code its   *)
(* characters map to, or the characters that the extended types name.                *)

Change(c, e, conv) ==
    LET a == c - e.code
        lower == conv # "upper"
        d == IF lower THEN 1 ELSE -1
    IN  CASE e.type \in {"U", "L", "UF", "LF"} ->
                IF \/ conv = "upper" /\ e.type \in {"U", "UF"}
                   \/ conv = "lower" /\ e.type \in {"L", "LF"}
                   \/ conv = "fold" /\ e.type \in {"UF", "LF"}
                THEN <<a + e.to>> ELSE <<c>>
          [] e.type = "UL" ->
                IF (a % 2 = 1) = lower THEN <<c>>
                ELSE <<e.code + (IF a % 2 = 0 THEN a + 1 ELSE a - 1)>>
          [] e.type = "LSU" ->
                IF a = 1 THEN <<c + d>>
                ELSE IF a = (IF lower THEN 0 ELSE 2) THEN <<c + 2 * d>> ELSE <<c>>
          [] e.type = "U2L_399_EXT2" -> IF lower THEN <<a + e.to>> ELSE <<a + e.to, e.to>>
          [] e.type \in {"UF_D20", "UF_D1_EXT"} ->
                IF conv = "lower" THEN <<c>>
                ELSE IF conv = "upper" THEN <<e.to>>
                ELSE <<e.to + (IF e.type = "UF_D20" THEN 32 ELSE 1)>>
          [] e.type \in {"U_EXT", "LF_EXT"} ->
                IF lower = (e.type = "LF_EXT") THEN <<e.to>> ELSE <<c>>
          [] e.type \in {"U_EXT2", "L_EXT2"} ->
                IF conv = (IF e.type = "U_EXT2" THEN "upper" ELSE "lower") THEN <<a + e.to, e.to>> ELSE <<c>>
          [] e.type = "U_EXT3" -> IF conv = "upper" THEN <<e.to, e.to, e.to>> ELSE <<c>>

RECURSIVE SearchRun(_, _, _, _)
SearchRun(table, c, min, max) ==
    IF min > max THEN 0
    ELSE LET idx == (min + max) \div 2
             e == table[idx]
         IN  IF c < e.code THEN SearchRun(table, c, min, idx - 1)
             ELSE IF c >= e.code + e.len THEN SearchRun(table, c, idx + 1, max)
             ELSE idx
lre_case_conv(table, c, conv) ==
    LET idx == SearchRun(table, c, 1, Len(table))
    IN  IF idx = 0 THEN <<c>> ELSE Change(c, table[idx], conv)

RunMask ==
    [upper |-> {"U", "UF", "UL", "LSU", "U2L_399_EXT2", "UF_D20", "UF_D1_EXT",
               "U_EXT", "U_EXT2", "U_EXT3"},
     lower |-> {"L", "LF", "UL", "LSU", "U2L_399_EXT2", "LF_EXT", "L_EXT2"},
     fold |-> {"UF", "LF", "UL", "LSU", "U2L_399_EXT2", "UF_D20", "UF_D1_EXT", "LF_EXT"}]

CaseIntervals(e, mask) ==
    LET up == "upper" \in mask
        whole == up /\ mask # {"upper"}
    IN  IF e.type = "UL" /\ ~whole
        THEN LET first == IF up THEN e.code + 1 ELSE e.code
             IN  FlattenSeq([k \in 1..e.len \div 2 |-> <<first + 2 * k - 2, first + 2 * k - 1>>])
        ELSE IF e.type = "LSU" /\ ~whole
        THEN (IF up THEN <<>> ELSE <<e.code, e.code + 1>>) \o <<e.code + 1, e.code + 2>>
                \o (IF up THEN <<e.code + 2, e.code + 3>> ELSE <<>>)
        ELSE <<e.code, e.code + e.len>>
unicode_case1(table, mask) ==
    LET types == UNION {RunMask[m] : m \in mask}
    IN  FlattenSeq([k \in DOMAIN table |->
            IF table[k].type \in types THEN CaseIntervals(table[k], mask) ELSE <<>>])

\* The class of the characters that a conversion changes is what the conversion itself
\* changes (unicode_case1 against lre_case_conv): one decodes the runs as ranges, the
\* other one character at a time.
CaseClassExact(table) ==
    \A mask \in (SUBSET {"upper", "lower", "fold"}) \ {{}} :
        \A c \in 0..MaxPoint - 1 :
            c \in Chars(unicode_case1(table, mask))
                <=> \E conv \in mask : lre_case_conv(table, c, conv) # <<c>>

-----------------------------------------------------------------------------
(* Normalisation of strings (unicode_normalize), and the stack machine that puts the  *)
(* binary properties of characters together (unicode_prop_ops), in libunicode.c.     *)

CONSTANTS
    Decomp,     \* one step decompositions: a function to sequences of characters
    Latin1,     \* characters below 0x100: no two of them combine
    Compat,     \* characters whose decomposition is a compatibility one
    CC,         \* combining classes; 0 for a starter
    LBase, VBase, TBase, SBase, LCount, VCount, TCount,   \* the Hangul arithmetic
    Excluded,   \* composites that are never composed
    StackMax    \* POP_STACK_LEN_MAX

unicode_get_cc(c) == IF c \in DOMAIN CC THEN CC[c] ELSE 0

NCount == VCount * TCount
IsSyllable(c) == c \in SBase..SBase + LCount * NCount - 1

RECURSIVE to_nfd_rec(_, _)
to_nfd_rec(src, compat) ==
    FlattenSeq([k \in DOMAIN src |->
        LET c == src[k]
            s == c - SBase
        IN  IF IsSyllable(c)
            THEN <<LBase + (s \div NCount), VBase + ((s % NCount) \div TCount)>>
                    \o (IF s % TCount = 0 THEN <<>> ELSE <<TBase + (s % TCount)>>)
            ELSE IF c \in DOMAIN Decomp /\ (compat \/ c \notin Compat)
            THEN to_nfd_rec(Decomp[c], compat)
            ELSE <<c>>])

\* A stable insertion sort of each run of combining characters.
RECURSIVE InsertCC(_, _)
InsertCC(buf, c) ==
    IF buf = <<>> \/ unicode_get_cc(Last(buf)) <= unicode_get_cc(c)
    THEN Append(buf, c)
    ELSE Append(InsertCC(Front(buf), c), Last(buf))
sort_cc(buf) ==
    FoldLeft(LAMBDA out, c : IF unicode_get_cc(c) = 0 THEN Append(out, c) ELSE InsertCC(out, c),
             <<>>, buf)

\* 0 if the pair does not compose. The table holds the canonical pairs.
Composites(c0, c1) == {c \in DOMAIN Decomp \ (Compat \cup Excluded) : Decomp[c] = <<c0, c1>>}
compose_pair(c0, c1) ==
    IF c0 \in LBase..LBase + LCount - 1 /\ c1 \in VBase..VBase + VCount - 1
    THEN SBase + (c0 - LBase) * NCount + (c1 - VBase) * TCount
    ELSE IF IsSyllable(c0) /\ (c0 - SBase) % TCount = 0 /\ c1 \in TBase..TBase + TCount - 1
    THEN c0 + c1 - TBase
    ELSE IF Composites(c0, c1) = {} THEN 0 ELSE CHOOSE c \in Composites(c0, c1) : TRUE

\* The starter that the next character c may combine with, 0 if it is blocked: the
\* last character of out, or the last starter if only lower classes lie between.
Starter(out, c) ==
    LET starters == {k \in DOMAIN out : unicode_get_cc(out[k]) = 0}
        s == IF starters = {} THEN 0 ELSE CHOOSE k \in starters : \A o \in starters : o <= k
    IN  IF s < Len(out) /\ unicode_get_cc(Last(out)) >= unicode_get_cc(c) THEN 0 ELSE s

compose(buf) ==
    FoldLeft(LAMBDA out, c :
                LET st == Starter(out, c)
                    p == IF st = 0 THEN 0 ELSE compose_pair(out[st], c)
                IN  IF p # 0 THEN [out EXCEPT ![st] = p] ELSE Append(out, c),
             <<>>, buf)

\* form is "NFC", "NFD", "NFKC" or "NFKD".
unicode_normalize(src, form) ==
    LET buf == sort_cc(to_nfd_rec(src, form \in {"NFKC", "NFKD"}))
    IN  IF form = "NFC" /\ Range(src) \subseteq Latin1 THEN src
        ELSE IF form \in {"NFD", "NFKD"} \/ Len(buf) <= 1 THEN buf ELSE compose(buf)

\* What makes the normal forms normal: each is a fixed point, composing loses nothing,
\* and no composition is left undone by a second pass (unicode_normalize).
NormalFormsStable(src) ==
    \A compat \in BOOLEAN :
        LET nfd == unicode_normalize(src, IF compat THEN "NFKD" ELSE "NFD")
            nfc == unicode_normalize(src, IF compat THEN "NFKC" ELSE "NFC")
        IN  /\ unicode_normalize(nfd, IF compat THEN "NFKD" ELSE "NFD") = nfd
            /\ unicode_normalize(nfc, IF compat THEN "NFKD" ELSE "NFD") = nfd
            /\ unicode_normalize(nfc, IF compat THEN "NFKC" ELSE "NFC") = nfc
            /\ unicode_normalize(nfd, IF compat THEN "NFKC" ELSE "NFC") = nfc

-----------------------------------------------------------------------------
(* unicode_prop_ops. A base table is named; a character is the set of the base       *)
(* tables it is in, so all characters are looked at together.                        *)

\* A state of the machine: a stack of sets of characters, or "overflow".
PropStep(Univ, stack, op) ==
    LET n == Len(stack)
        Binary(set) == IF n < 2 \/ n >= StackMax THEN <<{"overflow"}>>
                       ELSE Append(SubSeq(stack, 1, n - 2), set)
    IN  IF stack = <<{"overflow"}>> THEN stack
        ELSE CASE op = "UNION" -> Binary(stack[n - 1] \cup stack[n])
               [] op = "INTER" -> Binary(stack[n - 1] \cap stack[n])
               [] op = "XOR" -> Binary((stack[n - 1] \cup stack[n]) \ (stack[n - 1] \cap stack[n]))
               [] op = "INVERT" -> Append(Front(stack), Univ \ stack[n])
               [] OTHER -> IF n >= StackMax THEN <<{"overflow"}>>
                           ELSE Append(stack, {c \in Univ : op \in c})
unicode_prop_ops(Univ, prog) == FoldLeft(LAMBDA s, op : PropStep(Univ, s, op), <<>>, prog)

\* The programs of unicode_prop. The base tables are named by their role: the general
\* categories ("gc") or the case changes, the tables added to it and taken from it.
unicode_prop ==
    [Assigned |-> <<"gc", "INVERT">>,
     Cased |-> <<"gc", "Upper", "UNION", "Lower", "UNION">>,
     Alphabetic |-> <<"gc", "Upper", "UNION", "Lower", "UNION", "Other", "UNION">>,
     Grapheme_Base |-> <<"gc", "Other", "UNION", "INVERT">>,
     XID_Start |-> <<"gc", "Other", "UNION", "Syntax", "Space", "UNION", "Fix", "UNION", "INVERT", "INTER">>,
     XID_Continue |-> <<"gc", "Other", "UNION", "Lower", "UNION", "Syntax", "Space", "UNION", "Fix",
                        "UNION", "INVERT", "INTER">>]
    @@ [p \in {"Math", "Lowercase", "Uppercase", "Grapheme_Extend"} |-> <<"gc", "Other", "UNION">>]
    @@ [p \in {"Changes_When_Titlecased", "Changes_When_Casefolded", "Changes_When_NFKC_Casefolded",
                "ID_Continue"} |-> <<"gc", "Fix", "XOR">>]

\* Unicode's definition of these properties, for one character.
Derived(name, c) ==
    CASE name = "Assigned" -> "gc" \notin c
      [] name = "Cased" -> c \cap {"gc", "Upper", "Lower"} # {}
      [] name = "Alphabetic" -> c \cap {"gc", "Upper", "Lower", "Other"} # {}
      [] name = "Grapheme_Base" -> c \cap {"gc", "Other"} = {}
      [] name = "XID_Start" -> c \cap {"gc", "Other"} # {} /\ c \cap {"Syntax", "Space", "Fix"} = {}
      [] name = "XID_Continue" ->
            c \cap {"gc", "Other", "Lower"} # {} /\ c \cap {"Syntax", "Space", "Fix"} = {}
      [] name \in {"Math", "Lowercase", "Uppercase", "Grapheme_Extend"} -> c \cap {"gc", "Other"} # {}
      [] OTHER -> ("gc" \in c) # ("Fix" \in c)

\* Every program of unicode_prop fits in the stack of POP_STACK_LEN_MAX sets, meets
\* the assertions of unicode_prop_ops, ends with one set, and that set is the
\* property (the binary operators need a free place for their result).
PropertyPrograms(name) ==
    LET Univ == SUBSET {"gc", "Upper", "Lower", "Other", "Syntax", "Space", "Fix"}
    IN  unicode_prop_ops(Univ, unicode_prop[name]) = <<{c \in Univ : Derived(name, c)}>>
=============================================================================
