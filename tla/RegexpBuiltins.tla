--------------------------- MODULE RegexpBuiltins ---------------------------
(***************************************************************************)
(* The regular expression built-ins of quickjs.c that match repeatedly:    *)
(* exec with its lastIndex, match, matchAll and its iterator, replace with *)
(* its fast path for deleting, search and split.                           *)
(*                                                                         *)
(* What the compiled pattern does is a table: re.at[i] is the end of the   *)
(* match that starts at i, or -1, and re.cap[i] says whether its one group *)
(* took part (Regexps is about the matcher itself).  A subject is a        *)
(* sequence of units; "H" and "L" are a high and a low surrogate.          *)
(***************************************************************************)
EXTENDS Integers, Sequences, FiniteSets, FiniteSetsExt, SequencesExt

NoMatch == [start |-> -1, end |-> -1, cap |-> FALSE]

Pair(s, i) == i > 0 /\ i < Len(s) /\ s[i] = "H" /\ s[i + 1] = "L"

Text(s, i, j) == IF i < j THEN SubSeq(s, i + 1, j) ELSE <<>>

-----------------------------------------------------------------------------
(* One match. *)

\* The positions the matcher tries from i on: only i itself when it is sticky,
\* and with u not the middle of a surrogate pair.
lre_exec(re, s, i) ==
    LET tried == IF re.sticky THEN {i}
                 ELSE {j \in i..Len(s) : j = i \/ ~ (re.unicode /\ Pair(s, j))}
        found == {j \in tried : re.at[j] >= 0}
    IN  IF found = {} THEN NoMatch
        ELSE [start |-> Min(found), end |-> re.at[Min(found)], cap |-> re.cap[Min(found)]]

string_advance_index(s, i, unicode) ==
    IF unicode /\ Pair(s, i + 1) THEN i + 2 ELSE i + 1

js_regexp_exec(re, s) ==
    LET kept == re.global \/ re.sticky
        from == IF kept THEN re.last ELSE 0
        m == IF from > Len(s) THEN NoMatch ELSE lre_exec(re, s, from)
    IN  [re |-> IF ~ kept THEN re ELSE [re EXCEPT !.last = IF m = NoMatch THEN 0 ELSE m.end],
         res |-> m]

js_regexp_test(re, s) == js_regexp_exec(re, s).res # NoMatch

\* After an empty match lastIndex moves on by a character.
Advance(re, s, m) ==
    IF m.start = m.end THEN [re EXCEPT !.last = string_advance_index(s, @, re.unicode)] ELSE re

-----------------------------------------------------------------------------
(* match, matchAll and search *)

RECURSIVE MatchFrom(_, _, _)
MatchFrom(re, s, found) ==
    LET x == js_regexp_exec(re, s)
    IN  IF x.res = NoMatch THEN [re |-> x.re, found |-> found]
        ELSE MatchFrom(Advance(x.re, s, x.res), s, Append(found, x.res))

js_regexp_Symbol_match(re, s) ==
    IF re.global THEN MatchFrom([re EXCEPT !.last = 0], s, <<>>)
    ELSE LET x == js_regexp_exec(re, s)
         IN  [re |-> x.re, found |-> SelectSeq(<<x.res>>, LAMBDA m : m # NoMatch)]

\* The iterator of matchAll: a copy of the expression, and whether it is done.
js_regexp_Symbol_matchAll(re) == [re |-> re, done |-> FALSE]

js_regexp_string_iterator_next(it, s) ==
    LET x == js_regexp_exec(it.re, s)
    IN  IF x.res = NoMatch THEN [it |-> [re |-> x.re, done |-> TRUE], res |-> NoMatch]
        ELSE IF it.re.global THEN [it |-> [it EXCEPT !.re = Advance(x.re, s, x.res)], res |-> x.res]
        ELSE [it |-> [re |-> x.re, done |-> TRUE], res |-> x.res]

RECURSIVE Iterated(_, _)
Iterated(it, s) ==
    LET x == js_regexp_string_iterator_next(it, s)
    IN  IF it.done \/ x.res = NoMatch THEN <<>> ELSE <<x.res>> \o Iterated(x.it, s)

js_regexp_Symbol_search(re, s) ==
    LET x == js_regexp_exec([re EXCEPT !.last = 0], s)
    IN  [re |-> [x.re EXCEPT !.last = re.last], index |-> x.res.start]

-----------------------------------------------------------------------------
(* replace *)

\* Deletes from pos on: what is kept, the next match being looked for at last.
RECURSIVE DeleteFrom(_, _, _, _, _)
DeleteFrom(re, s, last, pos, kept) ==
    LET m == lre_exec(re, s, last)
        rest == kept \o Text(s, pos, Len(s))
        more == kept \o Text(s, pos, m.start)
        next == IF m.start = m.end THEN string_advance_index(s, m.end, re.unicode) ELSE m.end
    IN  IF last > Len(s) THEN [re |-> re, text |-> rest]
        ELSE IF m = NoMatch THEN
            [re |-> IF re.global \/ re.sticky THEN [re EXCEPT !.last = 0] ELSE re, text |-> rest]
        ELSE IF ~ re.global THEN
            [re |-> [re EXCEPT !.last = m.end], text |-> more \o Text(s, m.end, Len(s))]
        ELSE DeleteFrom(re, s, next, m.end, more)

JS_RegExpDelete(re, s) ==
    DeleteFrom(re, s, IF re.global \/ re.sticky THEN re.last ELSE 0, 0, <<>>)

\* A replacement that is not empty shows the match it replaces.
Substitution(s, m, rep) == IF rep = <<>> THEN <<>> ELSE rep \o Text(s, m.start, m.end) \o rep

\* Copies the subject up to each match, and goes on after it.
RECURSIVE SubstituteFrom(_, _, _, _)
SubstituteFrom(s, found, rep, pos) ==
    IF found = <<>> THEN Text(s, pos, Len(s))
    ELSE LET m == Head(found)
         IN  IF m.start < pos THEN SubstituteFrom(s, Tail(found), rep, pos)
             ELSE Text(s, pos, m.start) \o Substitution(s, m, rep)
                      \o SubstituteFrom(s, Tail(found), rep, m.end)

Collected(re, s) == js_regexp_Symbol_match(re, s)

Replaced(re, s, rep) ==
    LET all == Collected(re, s)
    IN  [re |-> all.re, text |-> SubstituteFrom(s, all.found, rep, 0)]

js_regexp_Symbol_replace(re, s, rep) ==
    IF rep = <<>> /\ re.global THEN JS_RegExpDelete([re EXCEPT !.last = 0], s)
    ELSE Replaced(re, s, rep)

-----------------------------------------------------------------------------
(* split *)

\* The text an undefined group is turned into.
UndefinedText == <<"undefined">>

Captured(re, s, m) ==
    IF ~ re.group THEN <<>>
    ELSE <<IF m.cap THEN Text(s, m.start, m.end) ELSE UndefinedText>>

Limited(list, lim) == IF Len(list) > lim THEN SubSeq(list, 1, lim) ELSE list

\* Splits from p on, the separator being looked for at q; an empty match at p
\* separates nothing.
RECURSIVE SplitFrom(_, _, _, _, _, _)
SplitFrom(re, s, p, q, lim, list) ==
    LET m == js_regexp_exec([re EXCEPT !.last = q], s).res
        next == string_advance_index(s, q, re.unicode)
    IN  IF Len(list) >= lim THEN Limited(list, lim)
        ELSE IF q >= Len(s) THEN Append(list, Text(s, p, Len(s)))
        ELSE IF m = NoMatch \/ m.end = p THEN SplitFrom(re, s, p, next, lim, list)
        ELSE SplitFrom(re, s, m.end, m.end, lim, Append(list, Text(s, p, q)) \o Captured(re, s, m))

js_regexp_Symbol_split(re, s, lim) ==
    LET splitter == [re EXCEPT !.sticky = TRUE, !.last = 0]
    IN  IF lim = 0 THEN <<>>
        ELSE IF s = <<>> THEN IF js_regexp_test(splitter, s) THEN <<>> ELSE <<s>>
        ELSE SplitFrom(splitter, s, 0, 0, lim, <<>>)

-----------------------------------------------------------------------------
(* What the built-ins promise, stated on sets of positions. *)

Starts(re, s) == {i \in 0..Len(s) : re.at[i] >= 0 /\ ~ (re.unicode /\ Pair(s, i))}

\* Where the search goes on after the match at i.
After(re, s, i) == IF re.at[i] > i THEN re.at[i]
                   ELSE IF re.unicode /\ Pair(s, i + 1) THEN i + 2 ELSE i + 1

\* The matches of a global expression: a start counts unless an earlier match
\* covers it, and a sticky one must follow on from the one before.
Leftmost(re, s) ==
    CHOOSE K \in SUBSET Starts(re, s) :
        \A i \in Starts(re, s) :
            i \in K <=> /\ \A k \in K : k < i => re.at[k] <= i
                        /\ re.sticky => i = 0 \/ \E k \in K : k < i /\ After(re, s, k) = i

InOrder(K) == SetToSortSeq(K, <)

\* The expected matches as a sequence of starts.
ExpectedStarts(re, s) == InOrder(Leftmost(re, s))

\* The separators of split: as above, and not empty where the last one ended.
Separators(re, s) ==
    LET starts == {i \in Starts(re, s) : i < Len(s)}
        ended(K, i) == Max({0} \cup {re.at[k] : k \in {h \in K : h < i}})
    IN  CHOOSE K \in SUBSET starts :
            \A i \in starts : i \in K <=> ended(K, i) <= i /\ re.at[i] # ended(K, i)

Pieces(re, s, K) ==
    LET k == InOrder(K)
        from(n) == IF n = 1 THEN 0 ELSE re.at[k[n - 1]]
        group(n) == IF re.group THEN <<Text(s, k[n], re.at[k[n]])>> ELSE <<>>
    IN  FlattenSeq([n \in 1..Len(k) |-> <<Text(s, from(n), k[n])>> \o group(n)])
          \o <<Text(s, from(Len(k) + 1), Len(s))>>

\* match, matchAll from 0 and replace of a global expression act on the leftmost
\* matches that do not overlap, each once and also the empty ones, whatever
\* lastIndex was, and leave lastIndex 0; the fast path of replace that deletes
\* the matches gives what the general path gives.
GlobalMatchesExact(re, s) ==
    LET expected == ExpectedStarts(re, s)
        starts(found) == [n \in DOMAIN found |-> found[n].start]
        match == js_regexp_Symbol_match(re, s)
        zero == [re EXCEPT !.last = 0]
        rep == js_regexp_Symbol_replace(re, s, <<"r">>)
        from(n) == IF n = 1 THEN 0 ELSE re.at[expected[n - 1]]
        shown(n) == Text(s, from(n), expected[n]) \o <<"r">>
                      \o Text(s, expected[n], re.at[expected[n]]) \o <<"r">>
    IN  re.global =>
            /\ starts(match.found) = expected /\ match.re = zero
            /\ starts(Iterated(js_regexp_Symbol_matchAll(zero), s)) = expected
            /\ rep.re = zero
            /\ rep.text = FlattenSeq([n \in 1..Len(expected) |-> shown(n)])
                            \o Text(s, from(Len(expected) + 1), Len(s))
            /\ js_regexp_Symbol_replace(re, s, <<>>) = Replaced(re, s, <<>>)

\* exec starts at lastIndex when the expression is global or sticky and at 0
\* otherwise; a failure, also because lastIndex is past the end, makes the next
\* exec start from 0; search finds the first match and leaves lastIndex alone.
LastIndexKept(re, s) ==
    LET x == js_regexp_exec(re, s)
        found == js_regexp_Symbol_search(re, s)
        from0 == {i \in Starts(re, s) : re.sticky => i = 0}
    IN  /\ re.global \/ re.sticky => x.re.last = IF x.res = NoMatch THEN 0 ELSE x.res.end
        /\ ~ re.global /\ ~ re.sticky => x.re = re /\ js_regexp_exec(x.re, s) = x
        /\ found.re = re
        /\ found.index = IF from0 = {} THEN -1 ELSE Min(from0)

\* split cuts the subject at its separators, whatever the flags and lastIndex of
\* the expression, with the groups between the pieces, and stops at the limit
\* (for expressions whose groups take part in every match).
SplitsAsSpecified(re, s, lim) ==
    LET split == js_regexp_Symbol_split(re, s, lim)
    IN  (re.group => \A i \in DOMAIN re.cap : re.cap[i]) =>
            split = IF s = <<>> /\ re.at[0] >= 0 THEN <<>>
                    ELSE Limited(Pieces(re, s, Separators(re, s)), lim)
=============================================================================
