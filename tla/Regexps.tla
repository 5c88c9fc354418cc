-------------------------------- MODULE Regexps --------------------------------
(* What a regular expression matches. A pattern is a term:                         *)
(*   <<"char", c>>  <<"dot">>  <<"class", set, inverted>>  <<"bol">>  <<"eol">>     *)
(*   <<"wordb", negated>>  <<"back", n>>  <<"cap", n, t>>  <<"alt", t, t>>          *)
(*   <<"seq", t, t>>  <<"empty">>  <<"look", t, negated, behind>>                   *)
(*   <<"quant", t, min, max, greedy>>                                              *)
(* A text is a sequence of 16 bit units; the unit pair <<"H", "L">> is one          *)
(* character of a Unicode pattern. A flag record has icase, multiline, dotall,      *)
(* sticky and utf16.                                                               *)
EXTENDS Integers, Sequences, FiniteSets

CONSTANTS
    Inf,        \* the quantifier bound of * and +
    Upper,      \* the function that maps a character to its upper case form
    NL          \* the line terminator

Words == {"a", "b", "A", "B"}

\* Ends of the characters that start, and starts of those that end, at a place.
Next1(text, f, i) ==
    IF f.utf16 /\ i + 2 <= Len(text) /\ text[i + 1] = "H" /\ text[i + 2] = "L" THEN i + 2 ELSE i + 1
Prev1(text, f, i) ==
    IF f.utf16 /\ i >= 2 /\ text[i] = "L" /\ text[i - 1] = "H" THEN i - 2 ELSE i - 1
CharAt(text, i, j) == IF j = i + 2 THEN "HL" ELSE text[i + 1]
Fold(f, c) == IF f.icase /\ c \in DOMAIN Upper THEN Upper[c] ELSE c

IsWord(text, i) == i \in 0..Len(text) - 1 /\ text[i + 1] \in Words
Accepts(t, f, c) ==
    CASE t[1] = "char" -> Fold(f, c) = Fold(f, t[2])
      [] t[1] = "dot" -> f.dotall \/ c # NL
      [] t[1] = "class" -> ~t[3] <=> \E k \in t[2] : Fold(f, k) = Fold(f, c)
Holds(t, f, text, i) ==
    CASE t[1] = "bol" -> i = 0 \/ (f.multiline /\ text[i] = NL)
      [] t[1] = "eol" -> i = Len(text) \/ (f.multiline /\ text[i + 1] = NL)
      [] t[1] = "wordb" -> t[2] # (IsWord(text, i - 1) # IsWord(text, i))

RECURSIVE Groups(_)
Groups(t) ==
    CASE t[1] = "cap" -> {t[2]} \cup Groups(t[3])
      [] t[1] \in {"alt", "seq"} -> Groups(t[2]) \cup Groups(t[3])
      [] t[1] \in {"look", "quant"} -> Groups(t[2])
      [] OTHER -> {}

RECURSIVE Has(_, _)
\* Does the predicate-named kind of term occur in t?
Has(t, kind) ==
    \/ t[1] = kind
    \/ t[1] = "cap" /\ Has(t[3], kind)
    \/ t[1] \in {"alt", "seq"} /\ (Has(t[2], kind) \/ Has(t[3], kind))
    \/ t[1] \in {"look", "quant"} /\ Has(t[2], kind)

RECURSIVE CanBeEmpty(_)
CanBeEmpty(t) ==
    CASE t[1] \in {"char", "dot", "class"} -> FALSE
      [] t[1] = "cap" -> CanBeEmpty(t[3])
      [] t[1] = "alt" -> CanBeEmpty(t[2]) \/ CanBeEmpty(t[3])
      [] t[1] = "seq" -> CanBeEmpty(t[2]) /\ CanBeEmpty(t[3])
      [] t[1] = "quant" -> t[3] = 0 \/ CanBeEmpty(t[2])
      [] OTHER -> TRUE

RECURSIVE Quants(_)
\* The quantified terms in t.
Quants(t) ==
    CASE t[1] = "quant" -> {t} \cup Quants(t[2])
      [] t[1] = "cap" -> Quants(t[3])
      [] t[1] \in {"alt", "seq"} -> Quants(t[2]) \cup Quants(t[3])
      [] t[1] = "look" -> Quants(t[2])
      [] OTHER -> {}

-----------------------------------------------------------------------------
\* The ways t can match from m (a place and the captures), best first: the matcher of
\* ECMAScript 21.2.2, with the list of all outcomes in place of continuations.
RECURSIVE Ways(_, _, _, _, _), Repeat(_, _, _, _, _, _), Concat(_)
Concat(ss) == IF ss = <<>> THEN <<>> ELSE Head(ss) \o Concat(Tail(ss))

Ways(t, f, text, back, m) ==
    CASE t[1] = "empty" -> <<m>>
      [] t[1] \in {"bol", "eol", "wordb"} -> IF Holds(t, f, text, m.pos) THEN <<m>> ELSE <<>>
      [] t[1] \in {"char", "dot", "class"} ->
            LET i == IF back THEN Prev1(text, f, m.pos) ELSE m.pos
                j == IF back THEN m.pos ELSE Next1(text, f, m.pos)
            IN  IF i >= 0 /\ j <= Len(text) /\ Accepts(t, f, CharAt(text, i, j))
                THEN <<[m EXCEPT !.pos = IF back THEN i ELSE j]>> ELSE <<>>
      [] t[1] = "alt" -> Ways(t[2], f, text, back, m) \o Ways(t[3], f, text, back, m)
      [] t[1] = "seq" ->
            LET first == Ways(IF back THEN t[3] ELSE t[2], f, text, back, m)
            IN  Concat([k \in DOMAIN first |->
                          Ways(IF back THEN t[2] ELSE t[3], f, text, back, first[k])])
      [] t[1] = "cap" ->
            LET inner == Ways(t[3], f, text, back, m)
            IN  [k \in DOMAIN inner |->
                    [inner[k] EXCEPT !.caps[t[2]] =
                        IF back THEN <<inner[k].pos, m.pos>> ELSE <<m.pos, inner[k].pos>>]]
      [] t[1] = "back" ->
            LET cap == m.caps[t[2]]
                n == cap[2] - cap[1]
                i == IF back THEN m.pos - n ELSE m.pos
            IN  IF cap = <<>> THEN <<m>>
                ELSE IF i >= 0 /\ i + n <= Len(text)
                        /\ \A k \in 1..n : Fold(f, text[i + k]) = Fold(f, text[cap[1] + k])
                     THEN <<[m EXCEPT !.pos = IF back THEN i ELSE i + n]>> ELSE <<>>
      [] t[1] = "look" ->
            LET inner == Ways(t[2], f, text, t[4], m)
            IN  IF (inner = <<>>) = t[3]
                THEN <<IF t[3] THEN m ELSE [m EXCEPT !.caps = inner[1].caps]>> ELSE <<>>
      [] t[1] = "quant" -> Repeat(t, t[3], t[4], f, <<text, back>>, m)

Repeat(t, min, max, f, where, m) ==
    IF max = 0 THEN <<m>>
    ELSE LET fresh == [m EXCEPT !.caps = [n \in DOMAIN @ |-> IF n \in Groups(t) THEN <<>> ELSE @[n]]]
             inner == SelectSeq(Ways(t[2], f, where[1], where[2], fresh),
                                LAMBDA x : min > 0 \/ x.pos # m.pos)
             more == Concat([k \in DOMAIN inner |->
                        Repeat(t, IF min = 0 THEN 0 ELSE min - 1, IF max = Inf THEN Inf ELSE max - 1,
                               f, where, inner[k])])
         IN  IF min > 0 THEN more ELSE IF t[5] THEN Append(more, m) ELSE <<m>> \o more

\* The first match of a pattern in a text.
NoMatch == [start |-> -1, end |-> -1, caps |-> <<>>]
RECURSIVE FirstMatch(_, _, _, _, _)
FirstMatch(t, n, f, text, i) ==
    LET w == Ways(t, f, text, FALSE, [pos |-> i, caps |-> [k \in 1..n |-> <<>>]])
    IN  IF w # <<>> THEN [start |-> i, end |-> w[1].pos, caps |-> w[1].caps]
        ELSE IF f.sticky \/ i >= Len(text) THEN NoMatch
             ELSE FirstMatch(t, n, f, text, Next1(text, f, i))

-----------------------------------------------------------------------------
(* The compiler of regular expressions (libregexp.c): from a pattern to code for the  *)
(* matching machine below. The text of a pattern is given as the term it denotes; one *)
(* instruction stands for the bytes of one opcode, and a jump is relative to the      *)
(* instruction after it.                                                              *)

I(op) == [op |-> op]
J(op, d) == [op |-> op, d |-> d]
N(op, n) == [op |-> op, n |-> n]

-----------------------------------------------------------------------------
(* The compiler. A compiled term is [code, caps]: caps is capture_count after it.   *)

SimpleChar == {"char", "dot", "any", "range"}
NoAdvance == {"line_start", "line_end", "push_i32", "push_char_pos", "drop", "word_boundary",
              "not_word_boundary", "prev", "save_start", "save_end", "save_reset",
              "back_reference", "backward_back_reference"}

\* The first opcode that is not transparent decides; -1 if a capture made in the code
\* is also read in it.
re_check_advance(code) ==
    LET set == {code[k].n : k \in {k \in DOMAIN code : code[k].op \in {"save_start", "save_end"}}}
               \cup UNION {code[k].n..code[k].last - 1 :
                              k \in {k \in DOMAIN code : code[k].op = "save_reset"}}
        read == {code[k].n : k \in {k \in DOMAIN code :
                              code[k].op \in {"back_reference", "backward_back_reference"}}}
        deciding == SelectSeq(code, LAMBDA x : x.op \notin NoAdvance)
    IN  IF set \cap read # {} THEN -1
        ELSE IF deciding # <<>> /\ deciding[1].op \in SimpleChar THEN 1 ELSE 0

re_is_simple_quantifier(code) ==
    IF \A k \in DOMAIN code : code[k].op \in SimpleChar \cup
            {"line_start", "line_end", "word_boundary", "not_word_boundary"}
    THEN Cardinality({k \in DOMAIN code : code[k].op \in SimpleChar}) ELSE -1

\* Under ignore_case the upper case forms join the class, and then it is inverted.
re_parse_char_class(t, f) ==
    [op |-> "range", inv |-> t[3],
     set |-> t[2] \cup (IF f.icase THEN {Upper[c] : c \in t[2] \cap DOMAIN Upper} ELSE {})]

emit_atom(t, f) ==
    CASE t[1] = "char" -> [op |-> "char", c |-> Fold(f, t[2])]
      [] t[1] = "dot" -> I(IF f.dotall THEN "any" ELSE "dot")
      [] t[1] = "class" -> re_parse_char_class(t, f)

emit_assertion(t) ==
    CASE t[1] = "bol" -> I("line_start")
      [] t[1] = "eol" -> I("line_end")
      [] t[1] = "wordb" -> I(IF t[2] THEN "not_word_boundary" ELSE "word_boundary")

Split(first) == IF first THEN "split_next_first" ELSE "split_goto_first"

\* Without end; the stack remembers where a turn started if the atom may not advance.
star(atom, greedy) ==
    IF greedy /\ re_check_advance(atom) = 0
    THEN <<J(Split(greedy), Len(atom) + 2), I("push_char_pos")>> \o atom
            \o <<J("bne_char_pos", -(Len(atom) + 3))>>
    ELSE <<J(Split(greedy), Len(atom) + 1)>> \o atom \o <<J("goto", -(Len(atom) + 2))>>

\* Counted; the counter is on the stack.
at_most(atom, n, greedy) ==
    <<N("push_i32", n), J(Split(greedy), Len(atom) + 1)>> \o atom
        \o <<J("loop", -(Len(atom) + 2)), I("drop")>>

exactly(atom, n) ==
    IF n = 1 THEN atom
    ELSE <<N("push_i32", n)>> \o atom \o <<J("loop", -(Len(atom) + 1)), I("drop")>>

emit_quantifier(atom, caps0, caps1, min, max, greedy) ==
    LET zero == greedy /\ re_check_advance(atom) = 0
        reset == IF caps0 = caps1 THEN <<>>
                 ELSE <<[op |-> "save_reset", n |-> caps0, last |-> caps1 - 1]>>
    IN  IF greedy /\ max > 0 /\ re_is_simple_quantifier(atom) > 0
        THEN <<[op |-> "simple_greedy_quant", d |-> Len(atom) + 1, min |-> min, max |-> max,
                n |-> re_is_simple_quantifier(atom)]>> \o atom \o <<I("match")>>
        ELSE IF min = 0
        THEN reset \o (IF max = 0 THEN <<>>
                       ELSE IF max = 1 THEN <<J(Split(greedy), Len(atom))>> \o atom
                       ELSE IF max = Inf THEN star(atom, greedy)
                       ELSE at_most(atom, max, greedy))
        ELSE IF min = 1 /\ max = Inf /\ ~zero
        THEN atom \o <<J(Split(~greedy), -(Len(atom) + 1))>>
        ELSE exactly(atom, min) \o (IF max = Inf THEN star(atom, greedy)
                                    ELSE IF max > min THEN at_most(atom, max - min, greedy)
                                    ELSE <<>>)

RECURSIVE re_parse_disjunction(_, _, _, _)
re_parse_term(t, f, back, caps) ==
    CASE t[1] \in {"char", "dot", "class"} ->
            [code |-> IF back THEN <<I("prev"), emit_atom(t, f), I("prev")>> ELSE <<emit_atom(t, f)>>,
             caps |-> caps]
      [] t[1] \in {"bol", "eol", "wordb"} -> [code |-> <<emit_assertion(t)>>, caps |-> caps]
      [] t[1] = "back" ->
            [code |-> <<N(IF back THEN "backward_back_reference" ELSE "back_reference", t[2])>>,
             caps |-> caps]
      [] t[1] = "cap" ->
            LET d == re_parse_disjunction(t[3], f, back, caps + 1)
            IN  [code |-> <<N(IF back THEN "save_end" ELSE "save_start", caps)>> \o d.code
                            \o <<N(IF back THEN "save_start" ELSE "save_end", caps)>>,
                 caps |-> d.caps]
      [] t[1] = "look" ->
            LET d == re_parse_disjunction(t[2], f, t[4], caps)
            IN  [code |-> <<J(IF t[3] THEN "negative_lookahead" ELSE "lookahead", Len(d.code) + 1)>>
                            \o d.code \o <<I("match")>>,
                 caps |-> d.caps]
      [] t[1] = "quant" ->
            LET d == re_parse_disjunction(t[2], f, back, caps)
            IN  [code |-> emit_quantifier(d.code, caps, d.caps, t[3], t[4], t[5]), caps |-> d.caps]
      [] OTHER -> re_parse_disjunction(t, f, back, caps)

\* In a backward direction each new term is moved before the ones already there.
re_parse_alternative(t, f, back, caps) ==
    IF t[1] = "empty" THEN [code |-> <<>>, caps |-> caps]
    ELSE IF t[1] = "seq"
    THEN LET l == re_parse_disjunction(t[2], f, back, caps)
             r == re_parse_disjunction(t[3], f, back, l.caps)
         IN  [code |-> IF back THEN r.code \o l.code ELSE l.code \o r.code, caps |-> r.caps]
    ELSE re_parse_term(t, f, back, caps)

re_parse_disjunction(t, f, back, caps) ==
    IF t[1] # "alt" THEN re_parse_alternative(t, f, back, caps)
    ELSE LET l == re_parse_disjunction(t[2], f, back, caps)
             r == re_parse_disjunction(t[3], f, back, l.caps)
         IN  [code |-> <<J("split_next_first", Len(l.code) + 1)>> \o l.code
                         \o <<J("goto", Len(r.code))>> \o r.code,
              caps |-> r.caps]

\* The deepest stack when the code is walked once from its start: the control flow is
\* nested like the pattern.
compute_stack_size(code) ==
    LET Places(ops, k) == {i \in 1..k : code[i].op \in ops}
        depth(k) == Cardinality(Places({"push_i32", "push_char_pos"}, k))
                        - Cardinality(Places({"drop", "bne_char_pos"}, k))
    IN  CHOOSE d \in 0..Len(code) : /\ \A k \in DOMAIN code : depth(k) <= d
                                    /\ d = 0 \/ \E k \in DOMAIN code : depth(k) = d

lre_compile(t, f) ==
    LET d == re_parse_disjunction(t, f, FALSE, 1)
        scan == <<J("split_goto_first", 2), I("any"), J("goto", -3)>>
        code == (IF f.sticky THEN <<>> ELSE scan) \o <<N("save_start", 0)>> \o d.code
                    \o <<N("save_end", 0), I("match")>>
    IN  [code |-> code, caps |-> d.caps, stack |-> compute_stack_size(code)]

-----------------------------------------------------------------------------
(* The backtracking machine of libregexp.c: lre_exec runs the code of a pattern over  *)
(* a text, one opcode per step. A choice point saves the place, the captures and the *)
(* stack on state_stack; a failure restores the newest one.                           *)

CONSTANTS
    Jobs        \* patterns, each with flags and a text to match

VARIABLES
    job,        \* pattern, flags, text, and what lre_compile made of them
    vm          \* the machine: ret is "run", "match" or "no"

regexpVars == <<job, vm>>

None == -1
Op == job.re.code[vm.pc]

\* GET_CHAR: the next character and the place after it.
GET_CHAR(i) ==
    LET u == job.text[i + 1]
        pair == job.f.utf16 /\ u = "H" /\ i + 1 < Len(job.text) /\ job.text[i + 2] = "L"
    IN  IF pair THEN [c |-> "HL", pos |-> i + 2] ELSE [c |-> u, pos |-> i + 1]

\* Faulty variant: one unit at a time.
PREV_CHAR_Unit(i) == i - 1

PREV_CHAR(i) ==
    IF job.f.utf16 /\ job.text[i] = "L" /\ i - 1 > 0 /\ job.text[i - 1] = "H" THEN i - 2 ELSE i - 1

\* Does the one-character instruction x accept the character at i?
TestChar(x, i) ==
    /\ i < Len(job.text)
    /\ LET c == GET_CHAR(i).c
       IN  CASE x.op = "char" -> x.c = Fold(job.f, c)
             [] x.op = "dot" -> c # NL
             [] x.op = "any" -> TRUE
             [] x.op = "range" -> x.inv # (Fold(job.f, c) \in x.set)

TestPlace(x, i) ==
    CASE x.op = "line_start" -> i = 0 \/ (job.f.multiline /\ job.text[i] = NL)
      [] x.op = "line_end" -> i = Len(job.text) \/ (job.f.multiline /\ job.text[i + 1] = NL)
      [] x.op \in {"word_boundary", "not_word_boundary"} ->
            (x.op = "word_boundary") = (IsWord(job.text, i - 1) # IsWord(job.text, i))

push_state(type, pc, count, m) ==
    Append(m.states, [type |-> type, pc |-> pc, count |-> count, cptr |-> m.cptr,
                      capture |-> m.capture, stack |-> m.stack])

\* The loop at "recurse": unwinds choice points after a match (ret) or a failure.
RECURSIVE recurse(_, _)
recurse(m, ret) ==
    IF m.states = <<>> THEN [m EXCEPT !.ret = IF ret THEN "match" ELSE "no"]
    ELSE LET top == Len(m.states)
             rs == m.states[top]
             rest == SubSeq(m.states, 1, top - 1)
             restored == [m EXCEPT !.pc = rs.pc, !.cptr = rs.cptr, !.stack = rs.stack,
                                   !.capture = rs.capture, !.states = rest]
         IN  CASE rs.type = "split" ->
                    IF ret THEN recurse([m EXCEPT !.states = rest], ret) ELSE restored
               [] rs.type = "greedy" ->
                    IF ret THEN recurse([m EXCEPT !.states = rest], ret)
                    ELSE LET quant == job.re.code[rs.pc]
                             back[n \in 0..quant.n] == IF n = 0 THEN rs.cptr ELSE PREV_CHAR(back[n - 1])
                         IN  [restored EXCEPT
                                !.pc = rs.pc + 1 + quant.d,
                                !.cptr = back[quant.n],
                                !.states = IF rs.count = 1 THEN rest
                                           ELSE Append(rest, [rs EXCEPT !.cptr = back[quant.n],
                                                                        !.count = @ - 1])]
               [] rs.type = "lookahead" ->
                    IF ret THEN [restored EXCEPT !.capture = m.capture]
                    ELSE recurse([m EXCEPT !.states = rest], FALSE)
               [] rs.type = "negative_lookahead" ->
                    IF ret THEN recurse([m EXCEPT !.states = rest], FALSE) ELSE restored

no_match == recurse(vm, FALSE)
Go(d) == vm.pc + 1 + d
At(pc) == [vm EXCEPT !.pc = pc]
GuardedStep(ok, m) == IF ok THEN m ELSE no_match

\* The characters of a simple quantifier run without choice points, as often as
\* they match: how often, and where that ends.
RECURSIVE RunSimple(_, _)
RunSimple(pc, i) ==
    LET x == job.re.code[pc]
    IN  CASE x.op = "match" -> i
          [] x.op \in SimpleChar ->
                IF TestChar(x, i) THEN RunSimple(pc + 1, GET_CHAR(i).pos) ELSE None
          [] OTHER -> IF TestPlace(x, i) THEN RunSimple(pc + 1, i) ELSE None
RECURSIVE RunGreedy(_, _, _)
RunGreedy(max, i, q) ==
    LET j == RunSimple(vm.pc + 1, i)
    IN  IF j = None THEN [q |-> q, cptr |-> i]
        ELSE IF q + 1 >= max /\ max # Inf THEN [q |-> q + 1, cptr |-> j]
        ELSE RunGreedy(max, j, q + 1)

\* A back reference compares character by character, forwards or backwards; an unset
\* capture matches the empty text.
Compare(n, back) ==
    LET from == vm.capture[n][1]
        to == vm.capture[n][2]
        len == to - from
        i == IF back THEN vm.cptr - len ELSE vm.cptr
    IN  IF from = None \/ to = None \/ len <= 0 THEN vm.cptr
        ELSE IF i < 0 \/ i + len > Len(job.text)
                \/ \E k \in 1..len : Fold(job.f, job.text[from + k]) # Fold(job.f, job.text[i + k])
        THEN None ELSE IF back THEN i ELSE i + len

-----------------------------------------------------------------------------
RegexpInit ==
    \E j \in Jobs :
        LET re == lre_compile(j.t, j.f)
        IN  /\ job = [t |-> j.t, f |-> j.f, text |-> j.text, re |-> re]
            /\ vm = [pc |-> 1, cptr |-> 0, stack |-> <<>>, states |-> <<>>, ret |-> "run",
                     capture |-> [k \in 0..re.caps - 1 |-> <<None, None>>]]

Exec(ops) == vm.ret = "run" /\ Op.op \in ops /\ UNCHANGED job

REOP_match == Exec({"match"}) /\ vm' = recurse(vm, TRUE)
REOP_char ==
    /\ Exec(SimpleChar)
    /\ vm' = GuardedStep(TestChar(Op, vm.cptr), [At(vm.pc + 1) EXCEPT !.cptr = GET_CHAR(@).pos])
REOP_assert ==
    /\ Exec({"line_start", "line_end", "word_boundary", "not_word_boundary"})
    /\ vm' = GuardedStep(TestPlace(Op, vm.cptr), At(vm.pc + 1))
REOP_prev ==
    /\ Exec({"prev"})
    /\ vm' = GuardedStep(vm.cptr > 0, [At(vm.pc + 1) EXCEPT !.cptr = PREV_CHAR(@)])
REOP_split ==
    /\ Exec({"split_goto_first", "split_next_first"})
    /\ LET go == Op.op = "split_goto_first"
       IN  vm' = [At(IF go THEN Go(Op.d) ELSE vm.pc + 1) EXCEPT
                    !.states = push_state("split", IF go THEN vm.pc + 1 ELSE Go(Op.d), 0, vm)]
REOP_lookahead ==
    /\ Exec({"lookahead", "negative_lookahead"})
    /\ vm' = [At(vm.pc + 1) EXCEPT !.states = push_state(Op.op, Go(Op.d), 0, vm)]
REOP_goto == Exec({"goto"}) /\ vm' = At(Go(Op.d))
REOP_save ==
    /\ Exec({"save_start", "save_end"})
    /\ vm' = [At(vm.pc + 1) EXCEPT !.capture[Op.n][IF Op.op = "save_start" THEN 1 ELSE 2] = vm.cptr]
REOP_save_reset ==
    /\ Exec({"save_reset"})
    /\ vm' = [At(vm.pc + 1) EXCEPT
                !.capture = [k \in DOMAIN @ |-> IF k \in Op.n..Op.last THEN <<None, None>> ELSE @[k]]]
REOP_push ==
    /\ Exec({"push_i32", "push_char_pos"})
    /\ vm' = [At(vm.pc + 1) EXCEPT
                !.stack = Append(@, IF Op.op = "push_i32" THEN Op.n ELSE vm.cptr)]
REOP_drop ==
    /\ Exec({"drop"})
    /\ vm' = [At(vm.pc + 1) EXCEPT !.stack = SubSeq(@, 1, Len(@) - 1)]
REOP_loop ==
    /\ Exec({"loop"})
    /\ LET left == vm.stack[Len(vm.stack)] - 1
       IN  vm' = [At(IF left # 0 THEN Go(Op.d) ELSE vm.pc + 1) EXCEPT !.stack[Len(vm.stack)] = left]
REOP_bne_char_pos ==
    /\ Exec({"bne_char_pos"})
    /\ LET top == Len(vm.stack)
       IN  vm' = [At(IF vm.stack[top] # vm.cptr THEN Go(Op.d) ELSE vm.pc + 1) EXCEPT
                    !.stack = SubSeq(@, 1, top - 1)]
REOP_back_reference ==
    /\ Exec({"back_reference", "backward_back_reference"})
    /\ LET j == Compare(Op.n, Op.op = "backward_back_reference")
       IN  vm' = GuardedStep(j # None, [At(vm.pc + 1) EXCEPT !.cptr = j])
REOP_simple_greedy_quant ==
    /\ Exec({"simple_greedy_quant"})
    /\ LET run == RunGreedy(Op.max, vm.cptr, 0)
           m == [At(Go(Op.d)) EXCEPT !.cptr = run.cptr]
       IN  vm' = GuardedStep(run.q >= Op.min,
                    IF run.q = Op.min THEN m
                    ELSE [m EXCEPT !.states = push_state("greedy", vm.pc, run.q - Op.min, m)])

RegexpNext ==
    \/ REOP_match \/ REOP_char \/ REOP_assert \/ REOP_prev \/ REOP_split \/ REOP_lookahead
    \/ REOP_goto \/ REOP_save \/ REOP_save_reset \/ REOP_push \/ REOP_drop \/ REOP_loop
    \/ REOP_bne_char_pos \/ REOP_back_reference \/ REOP_simple_greedy_quant

-----------------------------------------------------------------------------
Result ==
    IF vm.ret = "no" THEN NoMatch
    ELSE [start |-> vm.capture[0][1], end |-> vm.capture[0][2],
          caps |-> [k \in 1..job.re.caps - 1 |->
                      IF None \in {vm.capture[k][1], vm.capture[k][2]} THEN <<>> ELSE vm.capture[k]]]
Promised == FirstMatch(job.t, job.re.caps - 1, job.f, job.text, 0)

\* The compiled code, run by the machine, finds the match that the pattern denotes:
\* whether and where it starts; where it ends, unless a quantified term can be empty
\* (bne_char_pos leaves the loop where ECMAScript tries the other ways of the term); and
\* the captures, unless one is inside a repeated term (they are reset before the
\* loop, not in each turn). A back reference makes the start depend on these too.
MatchesAsSpecified ==
    vm.ret # "run" =>
        LET oneCapture == \A q \in Quants(job.t) : q[4] > 1 => Groups(q) = {}
            advances == \A q \in Quants(job.t) : ~CanBeEmpty(q[2])
        IN  /\ (oneCapture /\ advances) \/ ~Has(job.t, "back") => Result.start = Promised.start
            /\ oneCapture /\ advances => Result = Promised

\* compute_stack_size walks the code once, from top to bottom; no path of the machine
\* through it, with its jumps and its backtracking, needs more of the stack that
\* lre_exec allocates, or pops an empty one.
StackSizeSuffices ==
    /\ Len(vm.stack) <= job.re.stack
    /\ \A k \in DOMAIN vm.states : Len(vm.states[k].stack) <= job.re.stack
    /\ vm.ret = "run" /\ Op.op \in {"drop", "loop", "bne_char_pos"} => vm.stack # <<>>
=============================================================================
