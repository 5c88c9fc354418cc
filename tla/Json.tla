-------------------------------- MODULE Json --------------------------------
(***************************************************************************)
(* JSON.parse and JSON.stringify of QuickJS (src/qjs/quickjs.c), which the *)
(* Go binding uses in both directions: parameters and results of a script  *)
(* cross the border as JSON text.                                          *)
(*                                                                         *)
(* A text is a sequence of characters written as strings: a reserved word  *)
(* is one character here, and so is what follows the backslash of a \u     *)
(* escape ("u0001", "uD800").  A number is its text: how digits become a   *)
(* double is the subject of BigFloat.  A value is [t, text, n, kids]: a    *)
(* scalar has a text, a reference names node n of the heap, and a parsed   *)
(* array or object is a tree with its members [k, v] in kids.              *)
(***************************************************************************)
EXTENDS Integers, Sequences, SequencesExt, FiniteSetsExt

CONSTANT GapMax     \* 10: the longest indentation of one level

V(t, text, n, kids) == [t |-> t, text |-> text, n |-> n, kids |-> kids]
Undefined == V("undef", <<>>, 0, <<>>)
Null == V("word", <<"null">>, 0, <<>>)
Ref(n) == V("ref", <<>>, n, <<>>)
Member(k, v) == [k |-> k, v |-> v]

\* The name of element i of an array: i + 1 marks.
IndexName(i) == [j \in 1..(i + 1) |-> "#"]

Quote == "\""
Digits == {"0", "1"}
Words == {"true", "false", "null"}
Letters == {"a", "e", "n"} \cup Words
Blank == {" ", "\n"}
Control == {"\n", "ctrl"}           \* the characters below 0x20

At(u, p) == IF p \in DOMAIN u THEN u[p] ELSE "eof"

\* The first position from p on whose character is not in S.
Past(u, p, S) == CHOOSE q \in p..(Len(u) + 1) :
                    At(u, q) \notin S /\ \A r \in p..(q - 1) : u[r] \in S

-----------------------------------------------------------------------------
(* Tokens. A token is [tok, val, p]: p is where the next one is looked for. *)

Tok(tok, val, p) == [tok |-> tok, val |-> val, p |-> p]

\* What a backslash and the character c stand for; <<>> for an escaped
\* newline, which is skipped.
Unescaped(c) ==
    CASE c = "n" -> <<"\n">>
      [] c = "u0001" -> <<"ctrl">>
      [] c = "uD800" -> <<"sur">>
      [] c = "\n" -> <<>>
      [] OTHER -> <<c>>

\* A string whose opening quote is before p.
RECURSIVE js_parse_string(_, _, _)
js_parse_string(u, p, got) ==
    CASE At(u, p) \in Control \cup {"eof"} -> Tok("error", Null, p)
      [] At(u, p) = Quote -> Tok("string", V("str", got, 0, <<>>), p + 1)
      [] At(u, p) = "\\" /\ At(u, p + 1) \in Digits \cup {"eof"} -> Tok("error", Null, p)
      [] At(u, p) = "\\" /\ At(u, p + 1) \notin Digits \cup {"eof"} ->
            js_parse_string(u, p + 2, got \o Unescaped(u[p + 1]))
      [] OTHER -> js_parse_string(u, p + 1, Append(got, u[p]))

\* The end of a number that starts at p: digits, a fraction that may be empty,
\* an exponent that may not.
js_atof(u, p) ==
    LET start == IF u[p] = "-" THEN p + 1 ELSE p
        whole == Past(u, start, Digits)
        frac == IF At(u, whole) = "." THEN Past(u, whole + 1, Digits) ELSE whole
        exp == IF At(u, frac + 1) \in {"+", "-"} THEN frac + 2 ELSE frac + 1
        end == IF At(u, frac) = "e" /\ At(u, exp) \in Digits THEN Past(u, exp, Digits) ELSE frac
    IN  Tok("number", V("num", SubSeq(u, p, end - 1), 0, <<>>), end)

json_parse_ident(u, p) ==
    LET end == Past(u, p, Letters \cup Digits)
    IN  Tok("ident", V("word", SubSeq(u, p, end - 1), 0, <<>>), end)

json_next_token(u, from) ==
    LET p == Past(u, from, Blank)
        c == At(u, p)
    IN  CASE c = Quote -> js_parse_string(u, p + 1, <<>>)
          [] c \in Letters -> json_parse_ident(u, p)
          [] \/ c = "0" /\ At(u, p + 1) \notin Digits
             \/ c = "-" /\ At(u, p + 1) \in Digits
             \/ c \in Digits \ {"0"} -> js_atof(u, p)
          [] OTHER -> Tok(c, Null, p + 1)

-----------------------------------------------------------------------------
(* JSON.parse. A step of the parser is [ok, val, s]: the value and the token *)
(* after it. *)

Parsed(ok, val, s) == [ok |-> ok, val |-> val, s |-> s]
Fail == Parsed(FALSE, Null, Tok("error", Null, 0))

\* Appends where the property of that name is to be redefined.
Define_Appends(kids, k, v) == Append(kids, Member(k, v))

\* JS_DefinePropertyValue: the last of two members with one name counts.
Define(kids, k, v) ==
    IF \E i \in DOMAIN kids : kids[i].k = k
    THEN [i \in DOMAIN kids |-> IF kids[i].k = k THEN Member(k, v) ELSE kids[i]]
    ELSE Append(kids, Member(k, v))

json_parse_expect(u, s, tok, val) ==
    IF s.tok # tok THEN Fail ELSE Parsed(TRUE, val, json_next_token(u, s.p))

RECURSIVE json_parse_value(_, _), ParseMembers(_, _, _), ParseElements(_, _, _)

\* The members of an object, from the name of the next one on.
ParseMembers(u, s, kids) ==
    LET colon == json_next_token(u, s.p)
        r == json_parse_value(u, json_next_token(u, colon.p))
        more == Define(kids, s.val.text, r.val)
    IN  IF s.tok # "string" \/ colon.tok # ":" \/ ~r.ok THEN Fail
        ELSE IF r.s.tok = "," THEN ParseMembers(u, json_next_token(u, r.s.p), more)
        ELSE json_parse_expect(u, r.s, "}", V("obj", <<>>, 0, more))

ParseElements(u, s, kids) ==
    LET r == json_parse_value(u, s)
        more == Append(kids, Member(IndexName(Len(kids)), r.val))
    IN  IF ~r.ok THEN Fail
        ELSE IF r.s.tok = "," THEN ParseElements(u, json_next_token(u, r.s.p), more)
        ELSE json_parse_expect(u, r.s, "]", V("arr", <<>>, 0, more))

json_parse_value(u, s) ==
    LET next == json_next_token(u, s.p)
    IN  CASE s.tok = "{" -> IF next.tok = "}" THEN json_parse_expect(u, next, "}", V("obj", <<>>, 0, <<>>))
                            ELSE ParseMembers(u, next, <<>>)
          [] s.tok = "[" -> IF next.tok = "]" THEN json_parse_expect(u, next, "]", V("arr", <<>>, 0, <<>>))
                            ELSE ParseElements(u, next, <<>>)
          [] \/ s.tok \in {"string", "number"}
             \/ s.tok = "ident" /\ s.val.text \in {<<w>> : w \in Words} -> Parsed(next.tok # "error", s.val, next)
          [] OTHER -> Fail

JS_ParseJSON(u) ==
    LET r == json_parse_value(u, json_next_token(u, 1))
    IN  IF r.ok /\ r.s.tok = "eof" THEN r ELSE Fail
-----------------------------------------------------------------------------
(* The reviver of JSON.parse: a function of the member's name, which drops   *)
(* the members named in drop and, called for the name kill[1], first deletes *)
(* the member kill[2] of the holder.                                         *)

Hole == V("hole", <<>>, 0, <<>>)

\* JS_DeleteProperty: an array keeps its length.
Delete(val, k) ==
    IF val.t = "arr"
    THEN [val EXCEPT !.kids = [i \in DOMAIN @ |-> IF @[i].k = k THEN Member(k, Hole) ELSE @[i]]]
    ELSE [val EXCEPT !.kids = SelectSeq(@, LAMBDA m : m.k # k)]

\* JS_GetProperty: a member deleted since the names were listed is undefined.
Value(holder, k) ==
    LET found == {i \in DOMAIN holder.kids : holder.kids[i].k = k}
    IN  IF found = {} \/ \E i \in found : holder.kids[i].v = Hole THEN Undefined
        ELSE holder.kids[Max(found)].v

\* The names of the members are those the value has before the first call.
Names(before, now) == [i \in DOMAIN before.kids |-> before.kids[i].k]

RECURSIVE internalize_json_property(_, _, _, _), ReviveMembers(_, _, _, _, _)

\* Members i.. of val; val0 is the value when its names were listed.
ReviveMembers(val0, val, i, rev, log) ==
    LET names == Names(val0, val)
        r == internalize_json_property(val, names[i], rev, log)
        new == IF r.res = Undefined THEN Delete(r.holder, names[i])
               ELSE [r.holder EXCEPT !.kids = Define(@, names[i], r.res)]
    IN  IF i > Len(names) THEN [val |-> val, log |-> log]
        ELSE ReviveMembers(val0, new, i + 1, rev, r.log)

\* What the reviver returns for the member, the holder it leaves and the calls
\* made so far.
internalize_json_property(holder, name, rev, log) ==
    LET val == Value(holder, name)
        in == ReviveMembers(val, val, 1, rev, log)
    IN  [res |-> IF name \in rev.drop THEN Undefined ELSE in.val,
         holder |-> IF name = rev.kill[1] THEN Delete(holder, rev.kill[2]) ELSE holder,
         log |-> Append(in.log, name)]

js_json_parse(val, rev) ==
    internalize_json_property(V("obj", <<>>, 0, <<Member(<<>>, val)>>), <<>>, rev, <<>>)

-----------------------------------------------------------------------------
(* JSON.stringify. A node of the heap is [cls, prim, props, toJSON]: toJSON  *)
(* is <<v>> when the object has such a method and it returns v.  jsc is      *)
(* [drop, list, gap]: the names for which the replacer function returns      *)
(* undefined, <<names>> when the replacer is an array, and the indentation.  *)

\* The character written after a backslash, or the character itself.
Escaped(c) ==
    CASE c = Quote -> <<"\\", Quote>>
      [] c = "\\" -> <<"\\", "\\">>
      [] c = "\n" -> <<"\\", "n">>
      [] c = "ctrl" -> <<"\\", "u0001">>
      [] c = "sur" -> <<"\\", "uD800">>
      [] OTHER -> <<c>>

JS_ToQuotedString(text) == <<Quote>> \o FlattenSeq([i \in DOMAIN text |-> Escaped(text[i])]) \o <<Quote>>

js_json_check(h, jsc, key, val) ==
    LET own == IF val.t = "ref" /\ h[val.n].toJSON # <<>> THEN h[val.n].toJSON[1] ELSE val
        v == IF key \in jsc.drop THEN Undefined ELSE own
    IN  IF v.t = "ref" /\ h[v.n].cls = "function" THEN Undefined ELSE v

Put(b, text) == [b EXCEPT !.out = @ \o text]
Throws(b, err) == [b EXCEPT !.err = err]

\* The value of a property, undefined when there is none.
GetProperty(node, k) ==
    LET found == {i \in DOMAIN node.props : node.props[i].k = k}
    IN  IF found = {} THEN Undefined ELSE node.props[Max(found)].v

Pop(b) == [b EXCEPT !.stack = Front(@)]

RECURSIVE js_json_to_str(_, _, _, _, _)

\* The elements of an array: what cannot be shown is null.
WriteElements(h, jsc, b, node, sep, indent) ==
    FoldLeft(LAMBDA bb, i :
                LET v == js_json_check(h, jsc, IndexName(i - 1), node.props[i].v)
                IN  js_json_to_str(h, jsc, Put(Put(bb, IF i > 1 THEN <<",">> ELSE <<>>), sep),
                                   IF v = Undefined THEN Null ELSE v, indent),
             b, [i \in DOMAIN node.props |-> i])

\* The members of an object: what cannot be shown is left out.
WriteMembers(h, jsc, b, node, sep, indent) ==
    FoldLeft(LAMBDA bb, k :
                LET v == js_json_check(h, jsc, k, GetProperty(node, k))
                    comma == IF bb.some THEN <<",">> ELSE <<>>
                    blank == IF sep = <<>> THEN <<>> ELSE <<" ">>
                    name == comma \o sep \o JS_ToQuotedString(k) \o <<":">> \o blank
                IN  IF v = Undefined THEN bb
                    ELSE [js_json_to_str(h, jsc, Put(bb, name), v, indent) EXCEPT !.some = TRUE],
             [b EXCEPT !.some = FALSE],
             IF jsc.list # <<>> THEN jsc.list[1] ELSE [i \in DOMAIN node.props |-> node.props[i].k])

js_json_to_str(h, jsc, b, val, indent) ==
    LET node == h[val.n]
        indent1 == indent \o jsc.gap
        sep == IF jsc.gap = <<>> THEN <<>> ELSE <<"\n">> \o indent1
        in == [b EXCEPT !.stack = Append(@, val.n)]
        last(some) == IF some /\ jsc.gap # <<>> THEN <<"\n">> \o indent ELSE <<>>
        elements == WriteElements(h, jsc, Put(in, <<"[">>), node, sep, indent1)
        members == WriteMembers(h, jsc, Put(in, <<"{">>), node, sep, indent1)
    IN  CASE b.err # "" -> b
          [] b.err = "" /\ val.t = "str" -> Put(b, JS_ToQuotedString(val.text))
          [] b.err = "" /\ val.t = "nan" -> Put(b, Null.text)
          [] b.err = "" /\ val.t \in {"num", "word"} -> Put(b, val.text)
          [] b.err = "" /\ val.t = "bigint" -> Throws(b, "bigint")
          [] b.err = "" /\ val.t = "ref" ->
                CASE node.cls = "string" -> Put(b, JS_ToQuotedString(node.prim.text))
                  [] node.cls \in {"number", "boolean"} -> Put(b, node.prim.text)
                  [] node.cls \in {"array", "object"} /\ val.n \in ToSet(b.stack) -> Throws(b, "circular")
                  [] node.cls = "array" /\ val.n \notin ToSet(b.stack) ->
                        IF elements.err # "" THEN elements
                        ELSE Pop(Put(elements, last(node.props # <<>>) \o <<"]">>))
                  [] node.cls = "object" /\ val.n \notin ToSet(b.stack) ->
                        IF members.err # "" THEN members
                        ELSE Pop(Put(members, last(members.some) \o <<"}">>))

\* A String or Number object stands for its value.
Unboxed(h, v) == IF v.t = "ref" /\ h[v.n].cls \in {"string", "number"} THEN h[v.n].prim ELSE v

\* The names in a replacer array, each once.
PropertyList(h, values) ==
    LET named == SelectSeq([i \in DOMAIN values |-> Unboxed(h, values[i])], LAMBDA v : v.t \in {"str", "num"})
    IN  FoldLeft(LAMBDA l, v : IF v.text \in ToSet(l) THEN l ELSE Append(l, v.text), <<>>, named)

\* The indentation that the third argument asks for.
Gap(h, space) ==
    LET v == Unboxed(h, space)
    IN  CASE v.t = "num" -> [i \in 1..Min({Max({v.n, 0}), GapMax}) |-> " "]
          [] v.t = "str" -> SubSeq(v.text, 1, Min({Len(v.text), GapMax}))
          [] OTHER -> <<>>

\* replacer is [drop, array]: array is <<values>> or <<>>.
JS_JSONStringify(h, val, replacer, space) ==
    LET jsc == [drop |-> replacer.drop, gap |-> Gap(h, space),
                list |-> IF replacer.array = <<>> THEN <<>> ELSE <<PropertyList(h, replacer.array[1])>>]
        v == js_json_check(h, jsc, <<>>, val)
        b == [out |-> <<>>, stack |-> <<>>, some |-> FALSE, err |-> ""]
    IN  IF v = Undefined THEN b ELSE js_json_to_str(h, jsc, b, v, <<>>)
-----------------------------------------------------------------------------
(* What the texts are to mean: the grammar of JSON by splitting the text, the *)
(* shown value by following the references, the order of the reviver's calls. *)

IsNumber(u) ==
    \E i \in 0..Len(u), j \in 0..Len(u), k \in 0..Len(u) :
        LET whole == SubSeq(u, i + 1, j)
            frac == SubSeq(u, j + 1, k)
            exp == SubSeq(u, k + 1, Len(u))
            digits(s) == s # <<>> /\ ToSet(s) \subseteq Digits
        IN  /\ i <= j /\ j <= k
            /\ SubSeq(u, 1, i) \in {<<>>, <<"-">>}
            /\ digits(whole) /\ (whole[1] = "0" => Len(whole) = 1)
            /\ frac = <<>> \/ (frac[1] = "." /\ digits(Tail(frac)))
            /\ exp = <<>> \/ (exp[1] = "e" /\ (digits(Tail(exp)) \/ (At(exp, 2) \in {"+", "-"} /\ digits(SubSeq(exp, 3, Len(exp))))))

RECURSIVE Chars(_)
\* The strings that the characters between two quotes stand for.
Chars(u) ==
    IF u = <<>> THEN {<<>>}
    ELSE IF u[1] = "\\" THEN
        IF Len(u) > 1 /\ u[2] \in {"\\", Quote, "n", "u0001", "uD800"}
        THEN {Unescaped(u[2]) \o s : s \in Chars(SubSeq(u, 3, Len(u)))} ELSE {}
    ELSE IF u[1] \in Control \cup {Quote} THEN {} ELSE {<<u[1]>> \o s : s \in Chars(Tail(u))}

Trim(u) ==
    LET solid == {i \in DOMAIN u : u[i] \notin Blank}
    IN  IF solid = {} THEN <<>> ELSE SubSeq(u, Min(solid), Max(solid))

Inside(u) == SubSeq(u, 2, Len(u) - 1)
Strings(u) == IF Len(u) > 1 /\ u[1] = Quote /\ Last(u) = Quote THEN Chars(Inside(u)) ELSE {}

RECURSIVE Means(_), Lists(_, _)
\* The values a text has by the grammar: one, or none.
Means(text) ==
    LET u == Trim(text)
        framed(l, r) == Len(u) > 1 /\ u[1] = l /\ Last(u) = r
        bodies(what) == IF Trim(Inside(u)) = <<>> THEN {<<>>} ELSE Lists(Inside(u), what)
        named(ms, k) == {i \in DOMAIN ms : ms[i].k = k}
        firsts(ms) == SelectSeq([i \in DOMAIN ms |-> i], LAMBDA i : i = Min(named(ms, ms[i].k)))
        last(ms) == [i \in DOMAIN firsts(ms) |-> ms[Max(named(ms, ms[firsts(ms)[i]].k))]]
    IN  {V("word", u, 0, <<>>) : w \in {x \in Words : u = <<x>>}}
        \cup {V("num", u, 0, <<>>) : w \in {x \in {0} : IsNumber(u)}}
        \cup {V("str", s, 0, <<>>) : s \in Strings(u)}
        \cup (IF framed("[", "]") THEN {V("arr", <<>>, 0, [i \in DOMAIN ms |-> Member(IndexName(i - 1), ms[i].v)]) : ms \in bodies("element")} ELSE {})
        \cup (IF framed("{", "}") THEN {V("obj", <<>>, 0, last(ms)) : ms \in bodies("member")} ELSE {})

Lists(u, what) ==
    LET one(w) == IF what = "element" THEN {Member(<<>>, v) : v \in Means(w)}
                  ELSE UNION {{Member(k, v) : k \in Strings(Trim(SubSeq(w, 1, i - 1))), v \in Means(SubSeq(w, i + 1, Len(w)))}
                              : i \in {j \in DOMAIN w : w[j] = ":"}}
    IN  {<<m>> : m \in one(u)}
        \cup UNION {{<<m>> \o rest : m \in one(SubSeq(u, 1, i - 1)), rest \in Lists(SubSeq(u, i + 1, Len(u)), what)}
                    : i \in {j \in DOMAIN u : u[j] = ","}}

\* Numbers that only js_atof takes for numbers: 1. and -01; escapes that only
\* js_parse_string takes for escapes.
Lenient(u) ==
    \E i \in DOMAIN u :
        \/ u[i] = "." /\ At(u, i + 1) \notin Digits
        \/ u[i] = "-" /\ At(u, i + 1) = "0" /\ At(u, i + 2) \in Digits
        \/ u[i] = "\\" /\ At(u, i + 1) \notin {"\\", Quote, "n", "u0001", "uD800"}

\* JSON.parse accepts a text when the grammar of JSON does, and gives it the
\* value that the grammar gives it, whatever blanks, nesting and repeated names
\* it has (json_parse_value).  Beyond the grammar it only takes the numbers
\* and the escapes above.
ReadsJson(u) ==
    LET r == JS_ParseJSON(u)
    IN  /\ \A v \in Means(u) : r.ok /\ r.val = v
        /\ r.ok /\ ~Lenient(u) => Means(u) # {}

\* An earlier call has deleted member i.
Gone(kids, i, rev) == \E j \in 1..(i - 1) : kids[j].k = rev.kill[1] /\ kids[i].k = rev.kill[2]

Stays(kids, i, rev) ==
    /\ kids[i].k \notin rev.drop
    /\ ~(kids[i].k = rev.kill[2] /\ \E j \in DOMAIN kids : kids[j].k = rev.kill[1])

RECURSIVE Calls(_, _), Left(_, _)
\* The names the reviver is to be called for below v, and what is to be left.
Calls(v, rev) ==
    FlattenSeq([i \in DOMAIN v.kids |->
        (IF Gone(v.kids, i, rev) THEN <<>> ELSE Calls(v.kids[i].v, rev)) \o <<v.kids[i].k>>])

Left(v, rev) ==
    LET new == [i \in DOMAIN v.kids |->
                    Member(v.kids[i].k, IF Stays(v.kids, i, rev) THEN Left(v.kids[i].v, rev) ELSE Hole)]
    IN  [v EXCEPT !.kids = IF v.t = "arr" THEN new ELSE SelectSeq(new, LAMBDA m : m.v # Hole)]

\* JSON.parse calls the reviver for the members before their holder, once for
\* every name the holder had when its names were listed, also for those an
\* earlier call has deleted, and leaves out what the reviver left undefined
\* (internalize_json_property).
Revives(val, rev) ==
    LET r == js_json_parse(val, rev)
    IN  r.log = Calls(val, rev) \o << <<>> >> /\ r.res = Left(val, rev)

\* What is to be shown for a member: what toJSON answers, unless the replacer
\* drops it; functions are not shown.
Shown(h, replacer, key, val) ==
    LET v == IF val.t # "ref" \/ h[val.n].toJSON = <<>> THEN val ELSE h[val.n].toJSON[1]
    IN  IF key \in replacer.drop \/ (v.t = "ref" /\ h[v.n].cls = "function") THEN Undefined ELSE v

\* The members of node n that are shown.
ShownMembers(h, replacer, n) ==
    LET all == IF h[n].cls = "array" THEN [i \in DOMAIN h[n].props |-> Member(IndexName(i - 1), h[n].props[i].v)]
               ELSE IF replacer.array = <<>> THEN h[n].props
               ELSE LET l == PropertyList(h, replacer.array[1])
                    IN  [i \in DOMAIN l |-> Member(l[i], GetProperty(h[n], l[i]))]
        shown == [i \in DOMAIN all |-> Member(all[i].k, Shown(h, replacer, all[i].k, all[i].v))]
    IN  IF h[n].cls = "array"
        THEN [i \in DOMAIN shown |-> IF shown[i].v = Undefined THEN Member(shown[i].k, Null) ELSE shown[i]]
        ELSE SelectSeq(shown, LAMBDA m : m.v # Undefined)

Below(h, replacer, n) == {m.v : m \in ToSet(ShownMembers(h, replacer, n))}

RECURSIVE Reached(_, _, _)
\* The values that are written when those in S are.
Reached(h, replacer, S) ==
    LET more == S \cup UNION {Below(h, replacer, v.n) : v \in {x \in S : x.t = "ref"}}
    IN  IF more = S THEN S ELSE Reached(h, replacer, more)

\* Some value that is to be written contains itself.
Circular(h, replacer, v) ==
    \E x \in Reached(h, replacer, {v}) : x.t = "ref" /\ x \in Reached(h, replacer, Below(h, replacer, x.n))

RECURSIVE Tree(_, _, _)
Tree(h, replacer, v) ==
    IF v.t = "ref" THEN
        IF h[v.n].cls \in {"array", "object"}
        THEN LET ms == ShownMembers(h, replacer, v.n)
             IN  V(IF h[v.n].cls = "array" THEN "arr" ELSE "obj", <<>>, 0,
                   [i \in DOMAIN ms |-> Member(ms[i].k, Tree(h, replacer, ms[i].v))])
        ELSE [h[v.n].prim EXCEPT !.n = 0]
    ELSE IF v.t = "nan" THEN Null ELSE [v EXCEPT !.n = 0]

\* What JSON.stringify writes, JSON.parse reads back as the value that was
\* shown, with every indentation made of blanks: members that cannot be shown
\* are left out or null, whatever characters the strings have.  It refuses
\* exactly the values that contain themselves or a BigInt: an object that is
\* written twice is not refused (the stack of js_json_to_str).
WritesWhatParses(h, val, replacer, space) ==
    LET r == JS_JSONStringify(h, val, replacer, space)
        v == Shown(h, replacer, <<>>, val)
        circular == Circular(h, replacer, v)
        bigint == \E x \in Reached(h, replacer, {v}) : x.t = "bigint"
    IN  /\ (r.err # "") <=> (circular \/ bigint)
        /\ r.err = "circular" => circular
        /\ r.err = "" /\ v = Undefined => r.out = <<>>
        /\ r.err = "" /\ v # Undefined =>
              JS_ParseJSON(r.out) = Parsed(TRUE, Tree(h, replacer, v), Tok("eof", Null, Len(r.out) + 2))
=============================================================================
