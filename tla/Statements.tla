-------------------------------- MODULE Statements --------------------------------
(***************************************************************************)
(* What the statements of a function mean.  A statement is a tuple whose    *)
(* first component names it; what an expression computes is not modelled,   *)
(* only that evaluating it is an event with an outcome: "true" or "false"   *)
(* for the truth of its value, "throw" for an exception.  An execution is   *)
(* the sequence of its events, and the meaning of a statement is given by   *)
(* replaying such a log: the operators below read the log from position k   *)
(* and return how the statement completes and the position they reached, or *)
(* the completion Bad when the statement would not have met these events.   *)
(*                                                                          *)
(*   expression: <<"call", id>>  <<"true">>  <<"undefined">>                *)
(*               <<"and", e, f>>  <<"or", e, f>>  <<"closure", x>>          *)
(*   statement:  <<"expr", e>>  <<"block", ss>>  <<"let", x>>               *)
(*               <<"if", e, s>>  <<"ifelse", e, s, t>>                      *)
(*               <<"while", l, e, s>>  <<"do", l, s, e>>                    *)
(*               <<"for", l, init, test, step, s>>                          *)
(*               <<"of", l, id, s>>  <<"in", l, id, s>>                     *)
(*               <<"switch", e, clauses>>  <<"label", l, s>>                *)
(*               <<"try", s, c, f>>   where c, f may be None                *)
(*               <<"break", l>>  <<"continue", l>>                          *)
(*               <<"return", e>>   where e may be None   <<"throw", e>>     *)
(*                                                                          *)
(* An expression, statement or step that is absent is None, an absent label *)
(* is NoLabel.                                                              *)
(***************************************************************************)
EXTENDS Integers, Sequences, SequencesExt

None == <<>>
NoLabel == ""

\* The values that are told apart: undefined, true, and what an event gave.
Undef == [id |-> "undefined", truth |-> FALSE]
True == [id |-> "true", truth |-> TRUE]
Value(id, out) == [id |-> id, truth |-> out = "true"]

Normal == <<"normal">>
Bad == <<"bad">>
Throws(id) == <<"throw", Value(id, "throw")>>

\* The outcome of the event id at position k of the log.
Ask(log, k, id) ==
    IF k <= Len(log) /\ log[k].id = id THEN log[k].out ELSE "bad"

\* An event whose value is used, as a completion.
Event(log, k, id) ==
    LET out == Ask(log, k, id)
    IN  [k |-> k + 1,
         c |-> IF out = "bad" THEN Bad
               ELSE IF out = "throw" THEN Throws(id)
               ELSE <<"value", Value(id, out)>>]

RECURSIVE Eval(_, _, _)
Eval(e, log, k) ==
    CASE e[1] = "call" -> Event(log, k, e[2])
      [] e[1] = "true" -> [k |-> k, c |-> <<"value", True>>]
      [] e[1] = "undefined" -> [k |-> k, c |-> <<"value", Undef>>]
      [] e[1] = "closure" -> Event(log, k, e[2])
      [] e[1] \in {"and", "or"} ->
            LET l == Eval(e[2], log, k)
            IN  IF l.c[1] = "value" /\ l.c[2].truth = (e[1] = "and")
                THEN Eval(e[3], log, l.k) ELSE l

\* Does a loop with this label go on after its body completes with c?
GoesOn(c, label) ==
    \/ c = Normal
    \/ c[1] = "continue" /\ c[2] \in {NoLabel, label}

\* How the loop completes when it does not go on.
Ends(c, label) ==
    IF c[1] = "break" /\ c[2] \in {NoLabel, label} THEN Normal ELSE c

\* Leaving a for-of loop before its end calls the iterator's return method:
\* what that throws replaces the completion, unless that is an exception.
Closed(r, log, id) ==
    LET out == Ask(log, r.k, id)
    IN  IF r.c = Bad THEN r
        ELSE [k |-> r.k + 1,
              c |-> IF out = "bad" THEN Bad
                    ELSE IF out = "throw" /\ r.c[1] # "throw" THEN Throws(id)
                    ELSE r.c]

RECURSIVE Exec(_, _, _), ExecAll(_, _, _), Loop(_, _, _), Enum(_, _, _), Select(_, _, _, _)

ExecAll(ss, log, k) ==
    IF ss = <<>> THEN [k |-> k, c |-> Normal]
    ELSE LET Then(r) == IF r.c = Normal THEN ExecAll(Tail(ss), log, r.k) ELSE r
         IN  Then(Exec(Head(ss), log, k))

\* The loops with a test, from the test on: a record of the test, the body and
\* the step that runs between the body and the next test.
Loop(w, log, k) ==
    LET t == IF w.test = None THEN [k |-> k, c |-> <<"value", True>>]
             ELSE Eval(w.test, log, k)
        b == Exec(w.body, log, t.k)
        s == IF w.step = None THEN [k |-> b.k, c |-> <<"value", True>>]
             ELSE Eval(w.step, log, b.k)
    IN  IF t.c[1] # "value" THEN t
        ELSE IF ~t.c[2].truth THEN [k |-> t.k, c |-> Normal]
        ELSE IF ~GoesOn(b.c, w.label) THEN [b EXCEPT !.c = Ends(b.c, w.label)]
        ELSE IF s.c[1] # "value" THEN s
        ELSE Loop(w, log, s.k)

\* The loops over an enumeration, from the request of the next item on.
Enum(s, log, k) ==
    LET n == Event(log, k, s[3].next)
        store == Event(log, n.k, s[3].store)
        b == IF store.c[1] = "value" THEN Exec(s[4], log, store.k) ELSE store
        left == [b EXCEPT !.c = Ends(b.c, s[2])]
    IN  IF n.c[1] # "value" THEN n
        ELSE IF ~n.c[2].truth THEN [k |-> n.k, c |-> Normal]
        ELSE IF GoesOn(b.c, s[2]) THEN Enum(s, log, b.k)
        ELSE IF s[1] = "in" THEN left
        ELSE Closed(left, log, s[3].close)

\* The clause of a switch that is selected, 0 for none, trying from i on.
Select(clauses, i, log, k) ==
    IF i > Len(clauses) THEN
        [k |-> k, c |-> Normal,
         at |-> IF \E j \in DOMAIN clauses : clauses[j].test = None
                THEN CHOOSE j \in DOMAIN clauses : clauses[j].test = None ELSE 0]
    ELSE IF clauses[i].test = None THEN Select(clauses, i + 1, log, k)
    ELSE LET t == Eval(clauses[i].test, log, k)
         IN  IF t.c[1] # "value" THEN [k |-> t.k, c |-> t.c, at |-> 0]
             ELSE IF t.c[2].truth THEN [k |-> t.k, c |-> Normal, at |-> i]
             ELSE Select(clauses, i + 1, log, t.k)

\* The statements of the clauses from i on, which fall through.
RECURSIVE Bodies(_, _)
Bodies(clauses, i) ==
    IF i > Len(clauses) THEN <<>> ELSE clauses[i].body \o Bodies(clauses, i + 1)

\* A completion that uses the value of e, or the exception e throws.
With(e, log, k, kind) ==
    LET r == Eval(e, log, k)
    IN  IF r.c[1] = "value" THEN [r EXCEPT !.c = <<kind, r.c[2]>>] ELSE r

Exec(s, log, k) ==
    CASE s[1] = "expr" ->
            LET r == Eval(s[2], log, k)
            IN  IF r.c[1] = "value" THEN [r EXCEPT !.c = Normal] ELSE r
      [] s[1] = "let" -> [k |-> k, c |-> Normal]
      [] s[1] = "block" -> ExecAll(s[2], log, k)
      [] s[1] \in {"if", "ifelse"} ->
            LET t == Eval(s[2], log, k)
            IN  IF t.c[1] # "value" THEN t
                ELSE IF t.c[2].truth THEN Exec(s[3], log, t.k)
                ELSE IF s[1] = "if" THEN [t EXCEPT !.c = Normal]
                ELSE Exec(s[4], log, t.k)
      [] s[1] = "while" ->
            Loop([label |-> s[2], test |-> s[3], step |-> None, body |-> s[4]], log, k)
      [] s[1] = "for" ->
            Loop([label |-> s[2], test |-> s[4], step |-> s[5], body |-> s[6]], log, k)
      [] s[1] = "do" ->
            LET b == Exec(s[3], log, k)
            IN  IF GoesOn(b.c, s[2])
                THEN Loop([label |-> s[2], test |-> s[4], step |-> None, body |-> s[3]], log, b.k)
                ELSE [b EXCEPT !.c = Ends(b.c, s[2])]
      [] s[1] \in {"of", "in"} ->
            LET e == Event(log, k, s[3].start)
            IN  IF e.c[1] # "value" THEN e ELSE Enum(s, log, e.k)
      [] s[1] = "switch" ->
            LET e == Eval(s[2], log, k)
                t == Select(s[3], 1, log, e.k)
                b == IF t.at = 0 THEN [k |-> t.k, c |-> Normal]
                     ELSE ExecAll(Bodies(s[3], t.at), log, t.k)
            IN  IF e.c[1] # "value" THEN e
                ELSE IF t.c # Normal THEN [k |-> t.k, c |-> t.c]
                ELSE [b EXCEPT !.c = IF b.c = <<"break", NoLabel>> THEN Normal ELSE b.c]
      [] s[1] = "label" ->
            LET r == Exec(s[3], log, k)
            IN  [r EXCEPT !.c = IF r.c = <<"break", s[2]>> THEN Normal ELSE r.c]
      [] s[1] = "try" ->
            LET b == Exec(s[2], log, k)
                c == IF b.c[1] = "throw" /\ s[3] # None THEN Exec(s[3], log, b.k) ELSE b
                f == Exec(s[4], log, c.k)
            IN  IF s[4] = None \/ c.c = Bad THEN c
                ELSE IF f.c = Normal THEN [k |-> f.k, c |-> c.c] ELSE f
      [] s[1] \in {"break", "continue"} -> [k |-> k, c |-> s]
      [] s[1] = "return" ->
            IF s[2] = None THEN [k |-> k, c |-> <<"return", Undef>>]
            ELSE With(s[2], log, k, "return")
      [] s[1] = "throw" -> With(s[2], log, k, "throw")

\* The body of a function met these events and ended with this result:
\* <<"return", v>> or <<"throw", v>>.
Meant(body, log, result) ==
    LET Ended(r) == /\ r.k = Len(log) + 1
                    /\ result = IF r.c = Normal THEN <<"return", Undef>> ELSE r.c
    IN  Ended(ExecAll(body, log, 1))

-----------------------------------------------------------------------------
(***************************************************************************)
(* The code the parser of QuickJS emits for the statements of a function.   *)
(* The emission state is the code so far, the number of labels, the scopes  *)
(* (the current one, the parent of each, the scope of each variable) and    *)
(* the stack of break entries, the innermost first.  An instruction has an  *)
(* opcode, a number (label or scope) and the names of the events it is.     *)
(***************************************************************************)

Ins(op, n, id, aux) == [op |-> op, n |-> n, id |-> id, aux |-> aux]

EmptyCode == [code |-> <<>>, labels |-> 0, scope |-> 0, parent |-> <<>>,
              vars |-> <<>>, top |-> <<>>]

Op(op) == Ins(op, 0, "", "")
OpTo(op, n) == Ins(op, n, "", "")
Label(l) == IF l < 0 THEN <<>> ELSE <<OpTo("label", l)>>

\* Instructions one after the other.
emit(st, ins) == [st EXCEPT !.code = @ \o ins]

emit_op(st, op) == emit(st, <<Op(op)>>)
emit_with(st, op, n) == emit(st, <<OpTo(op, n)>>)

Stops == {"return", "return_undef", "throw", "goto", "ret", "tail_call"}

js_is_live_code(st) == st.code = <<>> \/ Last(st.code).op \notin Stops

new_label(st) == [st EXCEPT !.labels = @ + 1]

emit_label(st, l) == emit(st, Label(l))

\* A jump to a known label: nothing in dead code.
emit_goto(st, op, l) == IF js_is_live_code(st) THEN emit_with(st, op, l) ELSE st

\* A jump to a label that is created for it, -1 in dead code.
emit_goto_new(st, op) ==
    IF js_is_live_code(st)
    THEN [st |-> emit_with(new_label(st), op, st.labels + 1), l |-> st.labels + 1]
    ELSE [st |-> st, l |-> -1]

push_scope(st) ==
    LET n == Len(st.parent) + 1
    IN  emit_with([st EXCEPT !.parent = Append(@, st.scope), !.scope = n], "enter_scope", n)

pop_scope(st) ==
    [emit_with(st, "leave_scope", st.scope) EXCEPT !.scope = st.parent[st.scope]]

RECURSIVE close_scopes(_, _, _)
close_scopes(st, scope, stop) ==
    IF scope > stop
    THEN close_scopes(emit_with(st, "leave_scope", scope), st.parent[scope], stop)
    ELSE st

push_break_entry(st, name, brk, cont, drop) ==
    [st EXCEPT !.top = <<[name |-> name, brk |-> brk, cont |-> cont, drop |-> drop,
                          fin |-> -1, scope |-> st.scope, iter |-> FALSE]>> \o @]

pop_break_entry(st) == [st EXCEPT !.top = Tail(@)]

emit_times(st, op, n) == emit(st, [i \in 1..n |-> Op(op)])

\* Does not close the iterators it passes.
RECURSIVE BreakFrom_Drops(_, _, _, _, _)
BreakFrom_Drops(st, i, scope, name, is_cont) ==
    LET be == st.top[i]
        closed == close_scopes(st, scope, be.scope)
        target == IF is_cont THEN be.cont ELSE be.brk
        left == IF be.iter THEN emit_times(closed, "drop", be.drop)
                ELSE emit_times(closed, "drop", be.drop)
        ran == IF be.fin = -1 THEN left
               ELSE emit(left, <<Op("undefined"), OpTo("gosub", be.fin), Op("drop")>>)
    IN  IF target # -1 /\ (name = NoLabel \/ be.name = name)
        THEN emit_goto(closed, "goto", target)
        ELSE BreakFrom_Drops(ran, i + 1, be.scope, name, is_cont)

\* The way out of the entries from the i-th on.
RECURSIVE BreakFrom(_, _, _, _, _)
BreakFrom(st, i, scope, name, is_cont) ==
    LET be == st.top[i]
        closed == close_scopes(st, scope, be.scope)
        target == IF is_cont THEN be.cont ELSE be.brk
        left == IF be.iter THEN emit_times(emit_op(closed, "iterator_close"), "drop", be.drop - 3)
                ELSE emit_times(closed, "drop", be.drop)
        ran == IF be.fin = -1 THEN left
               ELSE emit(left, <<Op("undefined"), OpTo("gosub", be.fin), Op("drop")>>)
    IN  IF target # -1 /\ (name = NoLabel \/ be.name = name)
        THEN emit_goto(closed, "goto", target)
        ELSE BreakFrom(ran, i + 1, be.scope, name, is_cont)

emit_break(st, name, is_cont) == BreakFrom(st, 1, st.scope, name, is_cont)

\* The finally blocks and iterators a return passes: hasval tells that the
\* returned value is on the stack, drop what lies below it and is to go.
RECURSIVE ReturnFrom(_, _, _, _)
ReturnFrom(st, i, hasval, drop) ==
    IF i > Len(st.top) THEN emit_op(st, IF hasval THEN "return" ELSE "return_undef")
    ELSE LET be == st.top[i]
             s1 == IF ~be.iter THEN st
                   ELSE emit(st, (IF hasval THEN <<>> ELSE <<Op("undefined")>>)
                                 \o <<Op("iterator_close_return"), Op("iterator_close")>>)
             h1 == hasval \/ be.iter
             d1 == (IF be.iter THEN -3 ELSE drop) + be.drop
             s2 == emit_times(s1, IF h1 THEN "nip" ELSE "drop", d1)
             s3 == IF h1 THEN emit_goto(s2, "gosub", be.fin)
                   ELSE emit(s2, <<Op("undefined"), OpTo("gosub", be.fin)>>)
         IN  IF be.fin = -1 THEN ReturnFrom(s1, i + 1, h1, d1)
             ELSE ReturnFrom(s3, i + 1, TRUE, 0)

emit_return(st, hasval) == ReturnFrom(st, 1, hasval, 0)

RECURSIVE js_parse_expr(_, _)
js_parse_expr(st, e) ==
    CASE e[1] = "call" -> emit(st, <<Ins("call", 0, e[2], "")>>)
      [] e[1] = "true" -> emit_op(st, "push_true")
      [] e[1] = "undefined" -> emit_op(st, "undefined")
      [] e[1] = "closure" ->
            emit(st, <<Ins("fclosure", st.vars[e[2]], e[2], "")>>)
      [] e[1] \in {"and", "or"} ->
            LET l == st.labels + 1
                s1 == js_parse_expr(new_label(st), e[2])
                s2 == emit(s1, <<Op("dup"), OpTo(IF e[1] = "and" THEN "if_false" ELSE "if_true", l),
                                 Op("drop")>>)
            IN  emit_label(js_parse_expr(s2, e[3]), l)

RECURSIVE Statement(_, _), StatementList(_, _), Clauses(_, _, _, _, _), Cases(_, _, _, _)

StatementList(st, ss) ==
    IF ss = <<>> THEN st ELSE StatementList(Statement(st, Head(ss)), Tail(ss))

js_parse_block(st, ss) ==
    IF ss = <<>> THEN st ELSE pop_scope(StatementList(push_scope(st), ss))

\* A try or catch block with its entry, and what follows it when its end is live.
Guarded(st, ss, fin, end) ==
    LET s1 == push_break_entry(st, NoLabel, -1, -1, 1)
        s2 == pop_break_entry(js_parse_block([s1 EXCEPT !.top[1].fin = fin], ss))
    IN  [st |-> s2, fin |-> fin, end |-> end]

AfterGuarded(g) ==
    IF js_is_live_code(g.st)
    THEN emit(g.st, <<Op("drop"), Op("undefined"), OpTo("gosub", g.fin), Op("drop"),
                      OpTo("goto", g.end)>>)
    ELSE g.st

js_parse_try(st, s) ==
    LET n == st.labels
        catch == n + 1
        catch2 == n + 2
        fin == n + 3
        end == n + 4
        s1 == emit_goto([st EXCEPT !.labels = n + 4], "catch", catch)
        s2 == AfterGuarded(Guarded(s1, s[2][2], fin, end))
        s3 == emit(push_scope(s2), <<OpTo("label", catch), Op("drop"), OpTo("catch", catch2)>>)
        s4 == Guarded(push_scope(s3), s[3][2], fin, end)
        s5 == AfterGuarded([s4 EXCEPT !.st = pop_scope(pop_scope(s4.st))])
        s6 == IF s[3] = None THEN emit_label(s2, catch) ELSE emit_label(s5, catch2)
        s7 == emit(s6, <<OpTo("gosub", fin), Op("throw"), OpTo("label", fin)>>)
        s8 == pop_break_entry(js_parse_block(push_break_entry(s7, NoLabel, -1, -1, 2), s[4][2]))
    IN  emit(IF s[4] = None THEN s7 ELSE s8, <<Op("ret"), OpTo("label", end)>>)

\* The code of chunk from st on, moved behind what was emitted later.
Moved(st, chunk, later) == emit(later, SubSeq(chunk.code, Len(st.code) + 1, Len(chunk.code)))

js_parse_for_in_of(st, s) ==
    LET is_of == s[1] = "of"
        n == st.labels
        cont == n + 1
        body == n + 2
        brk == n + 3
        next == n + 4
        expr == n + 5
        s1 == push_break_entry(push_scope([st EXCEPT !.labels = n + 5]), s[2], brk, cont,
                               IF is_of THEN 3 ELSE 1)
        s2 == emit_with([s1 EXCEPT !.top[1].scope = st.scope, !.top[1].iter = is_of], "goto", expr)
        chunk == <<OpTo("label", next), Ins("store", 0, s[3].store, ""), OpTo("goto", body)>>
        s3 == close_scopes(emit(s2, <<OpTo("label", expr), Op("get_var")>>), s1.scope, st.scope)
        start == Ins(IF is_of THEN "for_of_start" ELSE "for_in_start", 0, s[3].start, s[3].close)
        s4 == emit(s3, <<start, OpTo("goto", cont)>> \o chunk \o <<OpTo("label", body)>>)
        s5 == close_scopes(Statement(s4, s[4]), s1.scope, st.scope)
        s6 == emit(s5, <<OpTo("label", cont),
                         Ins(IF is_of THEN "for_of_next" ELSE "for_in_next", 0, s[3].next, ""),
                         OpTo("if_false", next), Op("drop"), OpTo("label", brk),
                         Op(IF is_of THEN "iterator_close" ELSE "drop")>>)
    IN  pop_scope(pop_break_entry(s6))

js_parse_for(st, s) ==
    LET n == st.labels
        no_test == s[4] = None
        body == n + 3
        test == IF no_test THEN body ELSE n + 1
        cont == IF s[5] = None THEN test ELSE n + 2
        brk == n + 4
        p == push_scope([st EXCEPT !.labels = n + 4])
        s1 == IF s[3] = None THEN p
              ELSE close_scopes([p EXCEPT !.vars = (s[3][2] :> p.scope) @@ @], p.scope, st.scope)
        s2 == push_break_entry(s1, s[2], brk, cont, 0)
        s3 == IF no_test THEN s2
              ELSE emit_goto(js_parse_expr(emit_label(s2, test), s[4]), "if_false", brk)
        s4 == IF s[5] = None THEN s3 ELSE emit_goto(s3, "goto", body)
        c1 == emit_op(js_parse_expr(emit_label(s4, cont), s[5]), "drop")
        chunk == IF s[5] = None THEN s4 ELSE IF no_test THEN c1 ELSE emit_goto(c1, "goto", test)
        moves == ~no_test /\ s[5] # None
        s5 == Statement(emit_label(IF moves THEN [s4 EXCEPT !.labels = chunk.labels] ELSE chunk,
                                   body), s[6])
        s6 == close_scopes(s5, p.scope, st.scope)
        s7 == IF moves THEN Moved(s4, chunk, s6) ELSE emit_goto(s6, "goto", cont)
    IN  pop_scope(pop_break_entry(emit_label(s7, brk)))

\* Consecutive case clauses from the i-th on, whose bodies but the last are
\* empty; label1 is where a match among them jumps.
Cases(st, clauses, i, label1) ==
    LET s1 == emit_op(js_parse_expr(emit_op(st, "dup"), clauses[i].test), "strict_eq")
        more == clauses[i].body = <<>> /\ i < Len(clauses) /\ clauses[i + 1].test # None
        new == emit_goto_new(s1, "if_true")
        last == emit_goto_new(s1, "if_false")
    IN  IF ~more THEN [st |-> emit_label(last.st, label1), l |-> last.l, i |-> i]
        ELSE IF label1 < 0 THEN Cases(new.st, clauses, i + 1, new.l)
        ELSE Cases(emit_goto(s1, "if_true", label1), clauses, i + 1, label1)

\* The clauses from the i-th on: label_case is where a failed test jumps,
\* default the position of the default clause's label, 0 before it.
Clauses(st, clauses, i, label_case, default) ==
    IF i > Len(clauses) THEN [st |-> st, l |-> label_case, d |-> default]
    ELSE LET skip == IF label_case >= 0 THEN emit_goto_new(st, "goto") ELSE [st |-> st, l |-> -1]
             c == Cases(emit_label(skip.st, label_case), clauses, i, skip.l)
             g == IF label_case < 0 THEN emit_goto_new(st, "goto") ELSE [st |-> st, l |-> label_case]
             d == emit_with(g.st, "label", 0)
         IN  IF clauses[i].test # None
             THEN Clauses(StatementList(c.st, clauses[c.i].body), clauses, c.i + 1, c.l, default)
             ELSE Clauses(StatementList(d, clauses[i].body), clauses, i + 1, g.l, Len(d.code))

js_parse_switch(st, s) ==
    LET brk == st.labels + 1
        s1 == push_break_entry(push_scope(js_parse_expr(new_label(st), s[2])), NoLabel, brk, -1, 1)
        c == Clauses(s1, s[3], 1, -1, 0)
        s2 == IF c.d > 0 THEN [c.st EXCEPT !.code[c.d].n = c.l] ELSE emit_label(c.st, c.l)
    IN  pop_scope(pop_break_entry(emit(s2, <<OpTo("label", brk), Op("drop")>>)))

js_parse_if(st, s) ==
    LET t == emit_goto_new(js_parse_expr(push_scope(st), s[2]), "if_false")
        s1 == Statement(t.st, s[3])
        g == emit_goto_new(s1, "goto")
        s2 == Statement(emit_label(g.st, t.l), s[4])
    IN  pop_scope(IF s[1] = "if" THEN emit_label(s1, t.l) ELSE emit_label(s2, g.l))

js_parse_while(st, s) ==
    LET cont == st.labels + 1
        brk == st.labels + 2
        s1 == push_break_entry([st EXCEPT !.labels = brk], s[2], brk, cont, 0)
        s2 == emit_goto(js_parse_expr(emit_label(s1, cont), s[3]), "if_false", brk)
    IN  pop_break_entry(emit_label(emit_goto(Statement(s2, s[4]), "goto", cont), brk))

js_parse_do(st, s) ==
    LET cont == st.labels + 1
        brk == st.labels + 2
        again == st.labels + 3
        s1 == push_break_entry([st EXCEPT !.labels = again], s[2], brk, cont, 0)
        s2 == emit_label(Statement(emit_label(s1, again), s[3]), cont)
    IN  pop_break_entry(emit_label(emit_goto(js_parse_expr(s2, s[4]), "if_true", again), brk))

js_parse_label(st, s) ==
    LET brk == st.labels + 1
        s1 == push_break_entry(new_label(st), s[2], brk, -1, 0)
    IN  pop_break_entry(emit_label(Statement(s1, s[3]), brk))

\* The first arm is never taken: it has the state evaluated before the descent.
Statement(st, s) ==
    CASE st.labels < 0 -> st
      [] s[1] = "expr" -> emit_op(js_parse_expr(st, s[2]), "drop")
      [] s[1] = "let" -> [st EXCEPT !.vars = (s[2] :> st.scope) @@ @]
      [] s[1] = "block" -> js_parse_block(st, s[2])
      [] s[1] \in {"if", "ifelse"} -> js_parse_if(st, s)
      [] s[1] = "while" -> js_parse_while(st, s)
      [] s[1] = "do" -> js_parse_do(st, s)
      [] s[1] = "for" -> js_parse_for(st, s)
      [] s[1] \in {"of", "in"} -> js_parse_for_in_of(st, s)
      [] s[1] = "switch" -> js_parse_switch(st, s)
      [] s[1] = "label" -> js_parse_label(st, s)
      [] s[1] = "try" -> js_parse_try(st, s)
      [] s[1] = "break" -> emit_break(st, s[2], FALSE)
      [] s[1] = "continue" -> emit_break(st, s[2], TRUE)
      [] s[1] = "return" ->
            IF s[2] = None THEN emit_return(st, FALSE)
            ELSE emit_return(js_parse_expr(st, s[2]), TRUE)
      [] s[1] = "throw" -> emit_op(js_parse_expr(st, s[2]), "throw")

\* The code of a function with this body.
js_parse_function(body) ==
    LET s1 == StatementList(EmptyCode, body)
    IN  IF js_is_live_code(s1) THEN emit_return(s1, FALSE) ELSE s1
=============================================================================
