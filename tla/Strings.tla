------------------------------ MODULE Strings ------------------------------
(***************************************************************************)
(* The strings of the script engine.  A string keeps its UTF-16 units in   *)
(* bytes when all of them fit, in 16-bit units otherwise, and the same     *)
(* text may come in either form: a wide string with narrow units only is   *)
(* allowed.  Strings are put together in a StringBuffer, which grows and   *)
(* widens as needed, and are searched, cut and replaced by the functions   *)
(* of String.prototype; UTF-8 is the form in which text enters and leaves. *)
(*                                                                         *)
(* A string is [wide, u], u its units with their real values.  A buffer    *)
(* also has the number of units allocated and an error status; "over" says *)
(* that a store went beyond the allocation.                                *)
(***************************************************************************)
EXTENDS Integers, Sequences, SequencesExt, FiniteSetsExt

CONSTANTS LenMax,   \* JS_STRING_LEN_MAX
          Slack     \* bytes the allocator leaves beyond a request

Str(wide, u) == [wide |-> wide, u |-> u]
Exception == [wide |-> FALSE, u |-> <<-1>>]
Empty == Str(FALSE, <<>>)
Narrow(u) == \A k \in DOMAIN u : u[k] < 256
High(c) == c \in 55296..56319
Low(c) == c \in 56320..57343

\* The units from a up to b, counted from 0.
Cut(u, a, b) == SubSeq(u, a + 1, b)

-----------------------------------------------------------------------------
(* StringBuffer *)

string_buffer_init2(size, wide) ==
    [u |-> <<>>, size |-> size, wide |-> wide, error |-> FALSE, over |-> FALSE]
string_buffer_init(size) == string_buffer_init2(size, FALSE)

string_buffer_set_error(b) == [b EXCEPT !.u = <<>>, !.size = 0, !.error = TRUE]

string_buffer_widen(b, size) ==
    IF b.error THEN b ELSE [b EXCEPT !.wide = TRUE, !.size = size + (Slack \div 2)]

\* Grows without asking what is to be stored.
string_buffer_realloc_Narrow(b, len, c) ==
    LET size == Min({Max({len, (b.size * 3) \div 2}), LenMax})
    IN  IF b.error THEN b
        ELSE IF len > LenMax THEN string_buffer_set_error(b)
        ELSE [b EXCEPT !.size = Min({size + (IF b.wide THEN Slack \div 2 ELSE Slack), LenMax})]

string_buffer_realloc(b, len, c) ==
    LET size == Min({Max({len, (b.size * 3) \div 2}), LenMax})
    IN  IF b.error THEN b
        ELSE IF len > LenMax THEN string_buffer_set_error(b)
        ELSE IF ~b.wide /\ c >= 256 THEN string_buffer_widen(b, size)
        ELSE [b EXCEPT !.size = Min({size + (IF b.wide THEN Slack \div 2 ELSE Slack), LenMax})]

\* The units arrive in the buffer, cut to bytes if it is narrow.
Stored(b, u) ==
    [b EXCEPT !.over = @ \/ Len(b.u) + Len(u) > b.size,
              !.u = @ \o (IF b.wide THEN u ELSE [k \in DOMAIN u |-> u[k] % 256])]

\* Room for n more units the largest of which is c.
Roomy(b, n, c) == IF Len(b.u) + n > b.size THEN string_buffer_realloc(b, Len(b.u) + n, c) ELSE b

string_buffer_putc_slow(b, c) ==
    LET r == Roomy(b, 1, c)
        w == IF r.wide \/ c < 256 THEN r ELSE string_buffer_widen(r, r.size)
    IN  IF w.error THEN w ELSE Stored(w, <<c>>)

string_buffer_putc8(b, c) ==
    LET r == Roomy(b, 1, c) IN IF r.error THEN r ELSE Stored(r, <<c>>)

string_buffer_putc16(b, c) ==
    IF Len(b.u) < b.size /\ (b.wide \/ c < 256) THEN Stored(b, <<c>>)
    ELSE string_buffer_putc_slow(b, c)

string_buffer_putc(b, c) ==
    IF c < 65536 THEN string_buffer_putc16(b, c)
    ELSE LET h == string_buffer_putc16(b, ((c - 65536) \div 1024) + 55296)
         IN  IF h.error THEN h ELSE string_buffer_putc16(h, ((c - 65536) % 1024) + 56320)

string_buffer_write8(b, u) ==
    LET r == Roomy(b, Len(u), 0) IN IF r.error THEN r ELSE Stored(r, u)

string_buffer_write16(b, u) ==
    LET c == Max({0} \cup Range(u))
        r == IF Len(b.u) + Len(u) > b.size THEN string_buffer_realloc(b, Len(b.u) + Len(u), c)
             ELSE IF ~b.wide /\ c >= 256 THEN string_buffer_widen(b, b.size)
             ELSE b
    IN  IF r.error THEN r ELSE Stored(r, u)

string_buffer_concat(b, p, from, to) ==
    IF to <= from THEN b
    ELSE IF p.wide THEN string_buffer_write16(b, Cut(p.u, from, to))
    ELSE string_buffer_write8(b, Cut(p.u, from, to))

string_buffer_concat_value(b, v) ==
    IF b.error THEN b
    ELSE IF v = Exception THEN string_buffer_set_error(b)
    ELSE string_buffer_concat(b, v, 0, Len(v.u))

string_buffer_fill(b, c, count) ==
    LET r == Roomy(b, count, c)
    IN  IF r.error THEN r
        ELSE FoldLeft(LAMBDA s, k : string_buffer_putc16(s, c), r, [k \in 1..count |-> k])

string_buffer_end(b) ==
    IF b.error THEN Exception ELSE IF b.u = <<>> THEN Empty ELSE Str(b.wide, b.u)

\* One call of a writer: "c8", "c16", "c", "w8", "w16", "cat", "fill".
Written(b, w) ==
    CASE w[1] = "c8" -> string_buffer_putc8(b, w[2][1])
      [] w[1] = "c16" -> string_buffer_putc16(b, w[2][1])
      [] w[1] = "c" -> string_buffer_putc(b, w[2][1])
      [] w[1] = "w8" -> string_buffer_write8(b, w[2])
      [] w[1] = "w16" -> string_buffer_write16(b, w[2])
      [] w[1] = "cat" -> string_buffer_concat_value(b, Str(~Narrow(w[2]), w[2]))
      [] w[1] = "fill" -> string_buffer_fill(b, w[2][1], 2)

\* The units a call writes.
Meant(w) ==
    IF w[1] = "fill" THEN <<w[2][1], w[2][1]>>
    ELSE IF w[1] = "c" /\ w[2][1] >= 65536
         THEN <<((w[2][1] - 65536) \div 1024) + 55296, ((w[2][1] - 65536) % 1024) + 56320>>
    ELSE w[2]

\* What is written into a StringBuffer is what string_buffer_end() returns, in
\* a form wide enough for every unit and never beyond what was allocated, or
\* the string is too long and the buffer fails for good (string_buffer_putc,
\* string_buffer_write8, string_buffer_write16, string_buffer_fill).
BuffersKeepText(size, wide, calls) ==
    LET b == FoldLeft(Written, string_buffer_init2(size, wide), calls)
        text == FoldLeft(LAMBDA u, w : u \o Meant(w), <<>>, calls)
        end == string_buffer_end(b)
    IN  /\ ~b.over
        /\ IF b.error THEN Len(text) > LenMax
           ELSE end.u = text /\ (end.wide \/ Narrow(end.u))

-----------------------------------------------------------------------------
(* Making and comparing strings *)

js_new_string8(u) == IF u = <<>> THEN Empty ELSE Str(FALSE, u)
js_new_string16(u) == Str(TRUE, u)
js_new_string_char(c) == IF c < 256 THEN js_new_string8(<<c>>) ELSE js_new_string16(<<c>>)

js_sub_string(p, start, end) ==
    LET u == Cut(p.u, start, end)
    IN  IF start = 0 /\ end = Len(p.u) THEN p
        ELSE IF p.wide /\ end > start /\ ~Narrow(u) THEN js_new_string16(u)
        ELSE js_new_string8(u)

\* The code point at idx and the index after it.
string_getc(p, idx) ==
    LET c == p.u[idx + 1]
    IN  IF p.wide /\ High(c) /\ idx + 1 < Len(p.u) /\ Low(p.u[idx + 2])
        THEN <<(c % 1024) * 1024 + (p.u[idx + 2] % 1024) + 65536, idx + 2>>
        ELSE <<c, idx + 1>>

\* The code point before idx and its index.
string_prevc(p, idx) ==
    LET c == p.u[idx]
    IN  IF idx <= 0 THEN <<0, idx>>
        ELSE IF p.wide /\ Low(c) /\ idx > 1 /\ p.u[idx - 1] \in 55296..56320
        THEN <<(p.u[idx - 1] % 1024) * 1024 + (c % 1024) + 65536, idx - 2>>
        ELSE <<c, idx - 1>>

js_string_memcmp(p, q, len) ==
    LET d == {k \in 1..len : p.u[k] # q.u[k]}
    IN  IF d = {} THEN 0 ELSE IF p.u[Min(d)] < q.u[Min(d)] THEN -1 ELSE 1

js_string_compare(p, q) ==
    LET res == js_string_memcmp(p, q, Min({Len(p.u), Len(q.u)}))
    IN  IF res # 0 \/ Len(p.u) = Len(q.u) THEN res
        ELSE IF Len(p.u) < Len(q.u) THEN -1 ELSE 1

JS_ConcatString(p, q, inPlace) ==
    IF q.u = <<>> THEN p
    ELSE IF inPlace /\ p.wide = q.wide THEN [p EXCEPT !.u = @ \o q.u]
    ELSE IF Len(p.u) + Len(q.u) > LenMax THEN Exception
    ELSE Str(p.wide \/ q.wide, p.u \o q.u)

-----------------------------------------------------------------------------
(* UTF-8 *)

\* The bytes of a code point: the first says how many six-bit groups follow.
unicode_to_utf8(c) ==
    IF c < 128 THEN <<c>>
    ELSE IF c < 2048 THEN <<192 + (c \div 64), 128 + (c % 64)>>
    ELSE IF c < 65536 THEN <<224 + (c \div 4096), 128 + ((c \div 64) % 64), 128 + (c % 64)>>
    ELSE <<240 + (c \div 262144), 128 + ((c \div 4096) % 64), 128 + ((c \div 64) % 64),
           128 + (c % 64)>>

Continues(b) == b \in 128..191
utf8_min_code == <<128, 2048, 65536, 2097152, 67108864>>

\* The code point at position p of the bytes and the position after it; -1 when
\* they are none.
unicode_from_utf8(bytes, p) ==
    LET c == bytes[p]
        l == CASE c \in 192..223 -> 1 [] c \in 224..239 -> 2 [] c \in 240..247 -> 3
               [] c \in 248..251 -> 4 [] c \in 252..253 -> 5 [] OTHER -> 0
        tail == SubSeq(bytes, p + 1, p + l)
        code == FoldLeft(LAMBDA n, b : n * 64 + (b % 64), c % (2 ^ (6 - l)), tail)
    IN  IF c < 128 THEN <<c, p + 1>>
        ELSE IF l = 0 \/ Len(tail) < l \/ ~(\A k \in 1..l : Continues(tail[k])) THEN <<-1, p>>
        ELSE IF code < utf8_min_code[l] THEN <<-1, p>>
        ELSE <<code, p + l + 1>>

\* The first position from p on that does not continue a sequence.
SkipTail(bytes, p) ==
    Min({q \in p..(Len(bytes) + 1) : q > Len(bytes) \/ ~Continues(bytes[q])})

\* The position after the bytes given up with an invalid sequence.
SkipInvalid(bytes, p) ==
    LET q == SkipTail(bytes, p)
    IN  IF q > Len(bytes) THEN q ELSE SkipTail(bytes, q + 1)

RECURSIVE Decoded(_, _, _)
Decoded(b, bytes, p) ==
    LET c == unicode_from_utf8(bytes, p)
    IN  IF p > Len(bytes) THEN b
        ELSE IF c[1] = -1 \/ c[1] > 1114111
             THEN Decoded(string_buffer_putc16(b, 65533), bytes, SkipInvalid(bytes, p))
        ELSE Decoded(string_buffer_putc(b, c[1]), bytes, c[2])

JS_NewStringLen(bytes) ==
    IF \A k \in DOMAIN bytes : bytes[k] < 128 THEN js_new_string8(bytes)
    ELSE string_buffer_end(Decoded(string_buffer_init(Len(bytes)), bytes, 1))

RECURSIVE Encoded(_, _)
Encoded(p, idx) ==
    LET c == string_getc(p, idx)
    IN  IF idx >= Len(p.u) THEN <<>> ELSE unicode_to_utf8(c[1]) \o Encoded(p, c[2])

\* The bytes, which must fit the string made for them: two for each unit above
\* ASCII in a narrow string, three for each unit of a wide one.
JS_ToCStringLen2(p) ==
    LET bytes == Encoded(p, 0)
        room == IF p.wide THEN 3 * Len(p.u)
                ELSE Len(p.u) + Cardinality({k \in DOMAIN p.u : p.u[k] >= 128})
    IN  [bytes |-> bytes, fits |-> Len(bytes) <= room]

\* A string survives the way out to UTF-8 and back, lone surrogates included,
\* and the bytes fit the space taken for them.  Reading code points backwards,
\* as the final sigma test does, meets the ones read forwards, unless a unit
\* DC00 stands before another low surrogate (JS_ToCStringLen2,
\* JS_NewStringLen, string_getc, string_prevc).
TextSurvives(p) ==
    LET out == JS_ToCStringLen2(p)
        back == JS_NewStringLen(out.bytes)
        ends == {k \in 0..Len(p.u) : k = 0 \/ \E j \in 0..(k - 1) : string_getc(p, j)[2] = k
                                        /\ ~(p.wide /\ Low(p.u[j + 1]) /\ j > 0 /\ High(p.u[j]))}
    IN  /\ out.fits
        /\ back.u = p.u
        /\ back.wide \/ Narrow(back.u)
        /\ (\A k \in 1..(Len(p.u) - 1) : ~(p.u[k] = 56320 /\ Low(p.u[k + 1]))) =>
              \A k \in ends \ {0} :
                LET prev == string_prevc(p, k) IN string_getc(p, prev[2]) = <<prev[1], k>>

-----------------------------------------------------------------------------
(* Searching *)

string_cmp(p, q, x, y, len) == \A i \in 1..len : p.u[x + i] = q.u[y + i]

string_indexof_char(p, c, from) ==
    LET at == {i \in from..(Len(p.u) - 1) : p.u[i + 1] = c}
    IN  IF at = {} \/ (~p.wide /\ c > 255) THEN -1 ELSE Min(at)

RECURSIVE string_indexof(_, _, _)
string_indexof(p, q, from) ==
    LET j == string_indexof_char(p, q.u[1], from)
        n == Len(q.u)
    IN  IF n = 0 THEN from
        ELSE IF from + n > Len(p.u) \/ j < 0 \/ j + n > Len(p.u) THEN -1
        ELSE IF string_cmp(p, q, j + 1, 1, n - 1) THEN j
        ELSE string_indexof(p, q, j + 1)

string_advance_index(p, index, unicode) ==
    IF ~unicode \/ index >= Len(p.u) \/ ~p.wide THEN index + 1 ELSE string_getc(p, index)[2]

\* An argument that was not given.
Absent == -99
Clamp(n, low, high, offset) ==
    IF n < low THEN Max({n + offset, low}) ELSE Min({n, high})
JS_ToInt32Clamp(arg, low, high, offset, default) ==
    IF arg = Absent THEN default ELSE Clamp(arg, low, high, offset)

js_string_indexOf(p, q, arg, last) ==
    LET d == Len(p.u) - Len(q.u)
        from == IF ~last THEN JS_ToInt32Clamp(arg, 0, Len(p.u), 0, 0)
                ELSE IF arg = Absent THEN d
                ELSE IF arg <= 0 THEN 0
                ELSE Min({arg, d})
        at == {i \in (IF last THEN 0..from ELSE from..d) : string_cmp(p, q, i, 0, Len(q.u))}
    IN  IF d < 0 \/ at = {} THEN -1 ELSE IF last THEN Max(at) ELSE Min(at)

\* includes, startsWith and endsWith.
js_string_includes(p, q, arg, magic) ==
    LET n == Len(q.u)
        d == Len(p.u) - n
        pos == JS_ToInt32Clamp(arg, 0, Len(p.u), 0, IF magic = "ends" THEN Len(p.u) ELSE 0)
        at == CASE magic = "includes" -> pos..d
                [] magic = "starts" -> {pos} \cap 0..d
                [] magic = "ends" -> {pos - n} \cap 0..(Len(p.u))
    IN  \E i \in at : string_cmp(p, q, i, 0, n)

-----------------------------------------------------------------------------
(* Cutting and replacing *)

Dollar == 36
Digit(c) == c \in 48..57
Less == 60
Greater == 62
None == Str(FALSE, <<-2>>)     \* undefined

\* What stands for the directive at position j of the template, and where the
\* template goes on.  captures is a sequence of strings, the match first; named
\* gives the groups with a name, a function of their units.
Directive(rep, j, matched, str, position, captures, named) ==
    LET c == rep.u[j + 2]
        two == IF j + 2 < Len(rep.u) /\ Digit(rep.u[j + 3])
               THEN (c - 48) * 10 + rep.u[j + 3] - 48 ELSE 0
        group(k, to) == [text |-> captures[k + 1], to |-> to]
        norep == [text |-> Str(rep.wide, Cut(rep.u, j, j + 2)), to |-> j + 2]
        close == string_indexof_char(rep, Greater, j + 2)
        name == Cut(rep.u, j + 2, close)
    IN  CASE c = Dollar -> [text |-> Str(FALSE, <<Dollar>>), to |-> j + 2]
          [] c = 38 -> [text |-> matched, to |-> j + 2]
          [] c = 96 -> [text |-> Str(str.wide, Cut(str.u, 0, position)), to |-> j + 2]
          [] c = 39 -> [text |-> Str(str.wide, Cut(str.u, position + Len(matched.u), Len(str.u))),
                        to |-> j + 2]
          [] Digit(c) /\ two \in 1..(Len(captures) - 1) -> group(two, j + 3)
          [] Digit(c) /\ two \notin 1..(Len(captures) - 1) /\ c - 48 \in 1..(Len(captures) - 1) ->
                group(c - 48, j + 2)
          [] c = Less /\ DOMAIN named # {} /\ close >= 0 ->
                [text |-> IF name \in DOMAIN named THEN named[name] ELSE None, to |-> close + 1]
          [] OTHER -> norep

RECURSIVE Substituted(_, _, _, _, _, _, _, _)
Substituted(b, rep, i, matched, str, position, captures, named) ==
    LET j == string_indexof_char(rep, Dollar, i)
        d == Directive(rep, j, matched, str, position, captures, named)
        before == string_buffer_concat(b, rep, i, j)
        after == IF d.text = None THEN before
                 ELSE string_buffer_concat(before, d.text, 0, Len(d.text.u))
    IN  IF j < 0 \/ j + 1 >= Len(rep.u) THEN string_buffer_concat(b, rep, i, Len(rep.u))
        ELSE Substituted(after, rep, d.to, matched, str, position, captures, named)

js_string_GetSubstitution(matched, str, position, captures, named, rep) ==
    string_buffer_end(Substituted(string_buffer_init(0), rep, 0, matched, str, position,
                                  captures, named))

\* Where the next occurrence is replaced, -1 if nowhere.
NextMatch(str, search, end, first) ==
    IF search.u # <<>> THEN string_indexof(str, search, end)
    ELSE IF first THEN 0
    ELSE IF end >= Len(str.u) THEN -1
    ELSE end + 1

RECURSIVE Replaced(_, _, _, _, _, _, _)
Replaced(b, str, search, rep, end, first, all) ==
    LET pos == NextMatch(str, search, end, first)
        text == js_string_GetSubstitution(search, str, pos, <<>>, <<>>, rep)
        after == string_buffer_concat_value(string_buffer_concat(b, str, end, pos), text)
        to == pos + Len(search.u)
    IN  IF pos < 0 THEN string_buffer_concat(b, str, end, Len(str.u))
        ELSE IF all THEN Replaced(after, str, search, rep, to, FALSE, all)
        ELSE string_buffer_concat(after, str, to, Len(str.u))

js_string_replace(str, search, rep, all) ==
    IF NextMatch(str, search, 0, TRUE) < 0 THEN str
    ELSE string_buffer_end(Replaced(string_buffer_init(0), str, search, rep, 0, TRUE, all))

\* The parts from p on, looking for the separator from q on; lim more parts.
RECURSIVE Parts(_, _, _, _, _)
Parts(str, sep, p, q0, lim) ==
    LET n == Len(sep.u)
        step == IF n = 0 THEN 1 ELSE 0
        q == q0 + step
        e == string_indexof(str, sep, q)
        part == js_sub_string(str, p, e)
    IN  IF q > Len(str.u) - n - step \/ e < 0 THEN <<js_sub_string(str, p, Len(str.u))>>
        ELSE IF lim = 1 THEN <<part>>
        ELSE <<part>> \o Parts(str, sep, e + n, e + n, lim - 1)

\* sep is None when it was not given; lim is -1 when there is no limit.
js_string_split(str, sep, lim) ==
    IF lim = 0 THEN <<>>
    ELSE IF sep = None THEN <<str>>
    ELSE IF str.u = <<>> THEN (IF sep.u # <<>> THEN <<str>> ELSE <<>>)
    ELSE Parts(str, sep, 0, 0, lim)

js_string_substring(p, x, y) ==
    LET n == Len(p.u)
        a == Clamp(x, 0, n, 0)
        b == JS_ToInt32Clamp(y, 0, n, 0, n)
    IN  js_sub_string(p, Min({a, b}), Max({a, b}))

js_string_substr(p, x, y) ==
    LET n == Len(p.u)
        a == Clamp(x, 0, n, n)
    IN  js_sub_string(p, a, a + JS_ToInt32Clamp(y, 0, n - a, 0, n - a))

js_string_slice(p, x, y) ==
    LET n == Len(p.u)
        start == Clamp(x, 0, n, n)
        end == JS_ToInt32Clamp(y, 0, n, n, n)
    IN  js_sub_string(p, start, Max({end, start}))

RECURSIVE Padding(_, _, _)
Padding(b, p, n) ==
    LET chunk == Min({n, Len(p.u)})
    IN  IF n <= 0 \/ b.error THEN b ELSE Padding(string_buffer_concat(b, p, 0, chunk), p, n - chunk)

js_string_pad(p, n, fill, padEnd) ==
    LET len == Len(p.u)
        own(b, yes) == IF yes THEN string_buffer_concat(b, p, 0, len) ELSE b
        start == own(string_buffer_init(n), padEnd)
        padded == IF Len(fill.u) = 1 THEN string_buffer_fill(start, fill.u[1], n - len)
                  ELSE Padding(start, fill, n - len)
    IN  IF len >= n \/ fill.u = <<>> THEN p
        ELSE IF n > LenMax THEN Exception
        ELSE string_buffer_end(own(padded, ~padEnd))

js_string_repeat(p, n) ==
    LET b == string_buffer_init2(n * Len(p.u), p.wide)
    IN  IF n < 0 THEN Exception
        ELSE IF p.u = <<>> \/ n = 1 THEN p
        ELSE IF n * Len(p.u) > LenMax THEN Exception
        ELSE IF Len(p.u) = 1 THEN string_buffer_end(string_buffer_fill(b, p.u[1], n))
        ELSE string_buffer_end(FoldLeft(LAMBDA c, k : string_buffer_concat(c, p, 0, Len(p.u)), b,
                                        [k \in 1..n |-> k]))

lre_is_space(c) == c \in {9, 10, 11, 12, 13, 32, 160, 8232, 65279}

js_string_trim(p, front, back) ==
    LET n == Len(p.u)
        a == IF front THEN Min({k \in 0..n : k = n \/ ~lre_is_space(p.u[k + 1])}) ELSE 0
        b == IF back THEN Max({k \in a..n : k = a \/ ~lre_is_space(p.u[k])}) ELSE n
    IN  js_sub_string(p, a, b)

\* The strings an iterator over p gives.
RECURSIVE js_string_iterator(_, _)
js_string_iterator(p, idx) ==
    LET c == string_getc(p, idx)
    IN  IF idx >= Len(p.u) THEN <<>>
        ELSE <<IF c[1] < 65536 THEN js_new_string_char(c[1])
               ELSE js_new_string16(Cut(p.u, idx, c[2]))>> \o js_string_iterator(p, c[2])

js_string_fromCodePoint(codes) ==
    IF \E k \in DOMAIN codes : codes[k] \notin 0..1114111 THEN Exception
    ELSE string_buffer_end(FoldLeft(string_buffer_putc, string_buffer_init(Len(codes)), codes))

-----------------------------------------------------------------------------
(* What the functions promise, on the units alone *)

Occurs(u, v, i) == i >= 0 /\ i + Len(v) <= Len(u) /\ Cut(u, i, i + Len(v)) = v
Sound(p, u) == p.u = u /\ (p.wide \/ Narrow(p.u))

\* Searching gives the same answer for every form of the two strings, the first
\* or the last place where the units agree, from the given position on
\* (js_string_indexOf, js_string_includes, string_indexof, js_string_compare).
SearchesExact(p, q, n) ==
    LET all == {i \in 0..Len(p.u) : Occurs(p.u, q.u, i)}
        from == Max({0, Min({n, Len(p.u)})})
        after == {i \in all : i >= from}
        before == {i \in all : i <= Max({0, n})}
        order == js_string_compare(p, q)
    IN  /\ js_string_indexOf(p, q, n, FALSE) = (IF after = {} THEN -1 ELSE Min(after))
        /\ js_string_indexOf(p, q, n, TRUE) = (IF before = {} THEN -1 ELSE Max(before))
        /\ js_string_indexOf(p, q, Absent, TRUE) = (IF all = {} THEN -1 ELSE Max(all))
        /\ string_indexof(p, q, from) = (IF after = {} THEN -1 ELSE Min(after))
        /\ js_string_includes(p, q, n, "includes") <=> after # {}
        /\ js_string_includes(p, q, n, "starts") <=> from \in all
        /\ js_string_includes(p, q, n, "ends") <=> (from - Len(q.u)) \in all
        /\ (order = 0) <=> (p.u = q.u)
        /\ order = -js_string_compare(q, p)

\* The places a global replacement takes, left to right and apart.
RECURSIVE Places(_, _, _)
Places(u, v, from) ==
    LET at == {i \in from..Len(u) : Occurs(u, v, i)}
    IN  IF at = {} THEN <<>> ELSE <<Min(at)>> \o Places(u, v, Min(at) + Max({1, Len(v)}))

\* The template t for a match of v at i in u, groups g.
RECURSIVE Expanded(_, _, _, _, _)
Expanded(t, u, v, i, g) ==
    LET rest(k) == Expanded(SubSeq(t, k, Len(t)), u, v, i, g)
        one == t[2] - 48
        two == one * 10 + t[3] - 48
    IN  IF Len(t) < 2 THEN t
        ELSE IF t[1] # Dollar THEN <<t[1]>> \o rest(2)
        ELSE IF t[2] = Dollar THEN <<Dollar>> \o rest(3)
        ELSE IF t[2] = 38 THEN v \o rest(3)
        ELSE IF t[2] = 96 THEN Cut(u, 0, i) \o rest(3)
        ELSE IF t[2] = 39 THEN Cut(u, i + Len(v), Len(u)) \o rest(3)
        ELSE IF Digit(t[2]) /\ Len(t) > 2 /\ Digit(t[3]) /\ two \in DOMAIN g THEN g[two] \o rest(4)
        ELSE IF Digit(t[2]) /\ one \in DOMAIN g THEN g[one] \o rest(3)
        ELSE <<t[1]>> \o rest(2)

\* u with the stretches of length n at the places replaced.
RECURSIVE Joined(_, _, _, _, _)
Joined(u, n, places, texts, from) ==
    IF places = <<>> THEN Cut(u, from, Len(u))
    ELSE Cut(u, from, places[1]) \o texts[1]
         \o Joined(u, n, Tail(places), Tail(texts), places[1] + n)

\* replace() and replaceAll() put the expanded template at each place the
\* searched string occurs, also when it is empty, and leave the rest as it was;
\* split() cuts at the same places; the groups of a match go where $1 to $99
\* say (js_string_replace, js_string___GetSubstitution, js_string_split).
ReplacesExact(p, q, rep, lim) ==
    LET places == Places(p.u, q.u, 0)
        texts(at) == [k \in DOMAIN at |-> Expanded(rep.u, p.u, q.u, at[k], <<>>)]
        once == IF places = <<>> THEN <<>> ELSE <<places[1]>>
        cuts == IF q.u # <<>> THEN places
                ELSE IF p.u = <<>> THEN <<>> ELSE SubSeq(places, 2, Len(places) - 1)
        part(k) == Cut(p.u, IF k = 1 THEN 0 ELSE cuts[k - 1] + Len(q.u),
                       IF k > Len(cuts) THEN Len(p.u) ELSE cuts[k])
        count == IF p.u = <<>> /\ q.u = <<>> THEN 0 ELSE Len(cuts) + 1
        got == js_string_split(p, q, lim)
        groups == <<q, p, q>>
        sub == js_string_GetSubstitution(q, p, 0, groups, <<>>, rep)
    IN  /\ Sound(js_string_replace(p, q, rep, TRUE),
                 Joined(p.u, Len(q.u), places, texts(places), 0))
        /\ Sound(js_string_replace(p, q, rep, FALSE),
                 Joined(p.u, Len(q.u), once, texts(once), 0))
        /\ Len(got) = (IF lim = -1 THEN count ELSE Min({count, lim}))
        /\ \A k \in DOMAIN got : Sound(got[k], part(k))
        /\ Sound(sub, Expanded(rep.u, p.u, q.u, 0, <<p.u, q.u>>))

\* Position x of a string of length n, counted from the end when negative.
At(x, n) == IF x < 0 THEN Max({0, n + x}) ELSE Min({x, n})
Between(u, a, b) == IF a < b THEN Cut(u, a, b) ELSE <<>>

\* slice, substring, substr, padding, repeating, trimming, iterating and
\* joining code points give the units the definition names, in a form wide
\* enough for them, whatever the form of the string (js_string_slice,
\* js_string_pad, js_string_repeat, js_string_trim, js_string_iterator_next,
\* js_string_fromCodePoint).
CutsExact(p, x, y, fill) ==
    LET u == p.u
        n == Len(u)
        zero(k) == Max({0, Min({k, n})})
        padded(end) == js_string_pad(p, y, fill, end)
        wide(k) == fill.u[((k - 1) % Len(fill.u)) + 1]
        pad == IF fill.u = <<>> \/ y <= n THEN <<>> ELSE [k \in 1..(y - n) |-> wide(k)]
        trim == js_string_trim(p, TRUE, TRUE)
        inner == {k \in 1..n : ~lre_is_space(u[k])}
        chars == js_string_iterator(p, 0)
        codes == [k \in DOMAIN chars |-> string_getc(chars[k], 0)[1]]
    IN  /\ Sound(js_string_slice(p, x, y), Between(u, At(x, n), At(y, n)))
        /\ Sound(js_string_substring(p, x, y),
                 Between(u, Min({zero(x), zero(y)}), Max({zero(x), zero(y)})))
        /\ Sound(js_string_substr(p, x, y), Between(u, At(x, n), Min({n, At(x, n) + y})))
        /\ IF pad # <<>> /\ y > LenMax THEN padded(TRUE) = Exception
           ELSE Sound(padded(TRUE), u \o pad) /\ Sound(padded(FALSE), pad \o u)
        /\ IF x < 0 \/ (x > 1 /\ x * n > LenMax) THEN js_string_repeat(p, x) = Exception
           ELSE Sound(js_string_repeat(p, x), [k \in 1..(x * n) |-> u[((k - 1) % n) + 1]])
        /\ Sound(trim, IF inner = {} THEN <<>> ELSE SubSeq(u, Min(inner), Max(inner)))
        /\ FlattenSeq([k \in DOMAIN chars |-> chars[k].u]) = u
        /\ \A k \in DOMAIN chars : Sound(chars[k], chars[k].u)
        /\ Sound(js_string_fromCodePoint(codes), u)

=============================================================================
