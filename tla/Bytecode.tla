-------------------------------- MODULE Bytecode --------------------------------
(***************************************************************************)
(* From the code the parser emits to the code that runs: the two passes     *)
(* that remove dead code, thread jumps and resolve labels                   *)
(* (resolve_variables and resolve_labels) and the computation of the stack  *)
(* size.  Each is a loop over the code, given here by one turn of it: c is  *)
(* the state of the loop, with the code it reads, the code it has put out,  *)
(* the number of references to each label and whether the code at pos can   *)
(* be reached.                                                              *)
(***************************************************************************)
EXTENDS Statements, FiniteSets

Jumps == {"goto", "if_false", "if_true", "catch", "gosub"}

LabelRefs(code, l) == Cardinality({i \in DOMAIN code : code[i].op \in Jumps /\ code[i].n = l})

LabelPos(code, l) == CHOOSE i \in DOMAIN code : code[i].op = "label" /\ code[i].n = l

Captured(code) == {code[i].n : i \in {j \in DOMAIN code : code[j].op = "fclosure"}}

Emitted(body) ==
    LET st == js_parse_function(body)
    IN  [phase |-> "variables", code |-> st.code, pos |-> 1, out |-> <<>>, dead |-> FALSE,
         refs |-> [l \in 1..st.labels |-> LabelRefs(st.code, l)],
         addr |-> [l \in 1..st.labels |-> 0],
         scopes |-> Len(st.parent), level |-> <<>>, work |-> <<>>, size |-> 0]

-----------------------------------------------------------------------------
(* What both passes use. *)

At(code, p) == IF p <= Len(code) THEN code[p].op ELSE "end"

\* The first position from p on that does not hold op.
Beyond(code, p, op) ==
    CHOOSE q \in p..(Len(code) + 1) : At(code, q) # op /\ \A r \in p..(q - 1) : At(code, r) = op

\* The first instruction of a label.
FirstAt(code, l) == Beyond(code, LabelPos(code, l), "label")

\* The pass goes on at p, having put ins into the new code.
Goes(c, p, ins) == [c EXCEPT !.pos = p, !.out = @ \o ins]

update_label(c, l, d) == [c EXCEPT !.refs[l] = @ + d]

\* One instruction of the code that cannot be reached: it ends at a label that
\* is still referenced, and its jumps no longer count.
skip_dead_code(c) ==
    LET i == c.code[c.pos]
    IN  IF i.op = "label" /\ c.refs[i.n] > 0 THEN [c EXCEPT !.dead = FALSE]
        ELSE IF i.op \in Jumps THEN [update_label(c, i.n, -1) EXCEPT !.pos = @ + 1]
        ELSE [c EXCEPT !.pos = @ + 1]

\* Where a label leads, through labels and gotos.
RECURSIVE get_label_pos(_, _, _)
get_label_pos(code, l, fuel) ==
    LET p == FirstAt(code, l)
    IN  IF At(code, p) = "goto" /\ fuel > 0 THEN get_label_pos(code, code[p].n, fuel - 1) ELSE p

-----------------------------------------------------------------------------
(* resolve_variables *)

\* The end of a chain of tests dup if(l) drop, each leading to the next.
RECURSIVE LastTest(_, _, _)
LastTest(code, l, op) ==
    LET p == get_label_pos(code, l, 20)
    IN  IF At(code, p) = "dup" /\ At(code, p + 1) = op /\ At(code, p + 2) = "drop"
        THEN LastTest(code, code[p + 1].n, op) ELSE p

ScopeCode(code, i) ==
    IF i.n \notin Captured(code) THEN <<>>
    ELSE <<Ins(IF i.op = "enter_scope" THEN "set_loc_uninitialized" ELSE "close_loc", i.n, "", "")>>

resolve_variables(c) ==
    LET p == c.pos
        i == c.code[p]
        same == Goes(c, p + 1, <<i>>)
        op == At(c.code, p + 1)
        test == LastTest(c.code, c.code[p + 1].n, op)
    IN  IF i.op = "gosub" /\ At(c.code, LabelPos(c.code, i.n) + 1) = "ret" THEN
            update_label(Goes(c, p + 1, <<>>), i.n, -1)
        ELSE IF i.op \in Stops THEN [same EXCEPT !.dead = TRUE]
        ELSE IF i.op \in {"enter_scope", "leave_scope"} THEN Goes(c, p + 1, ScopeCode(c.code, i))
        ELSE IF i.op = "dup" /\ op \in {"if_false", "if_true"} /\ At(c.code, p + 2) = "drop"
                /\ At(c.code, test) = op THEN
            update_label(update_label(Goes(c, p + 3, <<c.code[test]>>), c.code[p + 1].n, -1),
                         c.code[test].n, 1)
        ELSE same

-----------------------------------------------------------------------------
(* resolve_labels *)

\* The label at the end of a chain of gotos and the instruction there.
RECURSIVE JumpTarget(_, _, _)
JumpTarget(code, l, fuel) ==
    LET p == FirstAt(code, l)
        op == At(code, p)
    IN  IF op = "goto" /\ fuel > 1 THEN JumpTarget(code, code[p].n, fuel - 1)
        ELSE IF op = "goto" THEN [l |-> code[p].n, op |-> op]
        ELSE IF op = "drop" /\ At(code, Beyond(code, p, "drop")) = "return_undef"
        THEN [l |-> l, op |-> "return_undef"]
        ELSE [l |-> l, op |-> op]

find_jump_target(code, l) == JumpTarget(code, l, 10)

\* Is the label, or a goto to it, what follows at p?
code_has_label(code, p, l) ==
    LET q == Beyond(code, p, "label")
    IN  \/ \E r \in p..(q - 1) : code[r].n = l
        \/ At(code, q) = "goto" /\ code[q].n = l

Jump(op, l) == Ins(op, l, "", "")

\* A goto to l whose reference is taken back, with p behind it.
GotoCode(c, p, l) ==
    LET t == find_jump_target(c.code, l)
    IN  IF code_has_label(c.code, p, t.l) THEN Goes(c, p, <<>>)
        ELSE IF t.op \in {"return", "return_undef", "throw"} THEN
            [Goes(c, p, <<Jump(t.op, 0)>>) EXCEPT !.dead = TRUE]
        ELSE [update_label(Goes(c, p, <<Jump("goto", t.l)>>), t.l, 1) EXCEPT !.dead = TRUE]

\* A test i whose reference is taken back, with p behind it.
IfCode(c, i, p) ==
    LET t == find_jump_target(c.code, i.n)
        other == IF i.op = "if_true" THEN "if_false" ELSE "if_true"
    IN  IF code_has_label(c.code, p, t.l) THEN Goes(c, p, <<Jump("drop", 0)>>)
        ELSE IF At(c.code, p) = "goto" /\ code_has_label(c.code, p + 1, t.l) THEN
            Goes(c, p + 1, <<Jump(other, c.code[p].n)>>)
        ELSE update_label(Goes(c, p, <<Jump(i.op, t.l)>>), t.l, 1)

\* A constant at p - 1 and a test of it at p.
ConstantTest(c, truth, p) ==
    LET i == c.code[p]
        d == update_label(c, i.n, -1)
    IN  IF truth = (i.op = "if_true") THEN GotoCode(d, p + 1, i.n) ELSE Goes(d, p + 1, <<>>)

resolve_labels(c) ==
    LET p == c.pos
        i == c.code[p]
        same == Goes(c, p + 1, <<i>>)
        next == At(c.code, p + 1)
        test == next \in {"if_false", "if_true"}
    IN  CASE i.op = "label" -> [Goes(c, p + 1, <<>>) EXCEPT !.addr[i.n] = Len(c.out) + 1]
          [] i.op = "call" /\ next = "return" ->
                [Goes(c, p + 2, <<[i EXCEPT !.op = "tail_call"]>>) EXCEPT !.dead = TRUE]
          [] i.op \in {"return", "return_undef", "throw"} -> [same EXCEPT !.dead = TRUE]
          [] i.op = "goto" -> GotoCode(update_label(c, i.n, -1), p + 1, i.n)
          [] i.op \in {"if_true", "if_false"} -> IfCode(update_label(c, i.n, -1), i, p + 1)
          [] i.op = "drop" /\ next = "return_undef" -> Goes(c, p + 1, <<>>)
          [] i.op = "push_true" /\ test -> ConstantTest(c, TRUE, p + 1)
          [] i.op = "undefined" /\ next = "drop" -> Goes(c, p + 2, <<>>)
          [] i.op = "undefined" /\ next = "return" -> Goes(c, p + 2, <<Jump("return_undef", 0)>>)
          [] i.op = "undefined" /\ test -> ConstantTest(c, FALSE, p + 1)
          [] OTHER -> same

-----------------------------------------------------------------------------
(* compute_stack_size *)

\* What an instruction takes from the stack and puts there.
OpcodeInfo(op) ==
    CASE op \in {"drop", "throw", "return", "ret", "if_true", "if_false", "store"} -> <<1, 0>>
      [] op \in {"undefined", "push_true", "get_var", "call", "fclosure", "catch"} -> <<0, 1>>
      [] op = "dup" -> <<1, 2>>
      [] op \in {"nip", "strict_eq"} -> <<2, 1>>
      [] op = "for_in_start" -> <<1, 1>>
      [] op \in {"for_of_start", "for_in_next"} -> <<1, 3>>
      [] op = "for_of_next" -> <<3, 5>>
      [] op = "iterator_close" -> <<3, 0>>
      [] op = "iterator_close_return" -> <<4, 4>>
      [] OTHER -> <<0, 0>>

Larger(c, n) == [c EXCEPT !.size = IF n > @ THEN n ELSE @]

\* The instruction at p is reached with n values on the stack.
ss_check(c, p, n) ==
    IF c.phase # "stack" THEN c
    ELSE IF p \notin DOMAIN c.level THEN [c EXCEPT !.phase = "rejected"]
    ELSE IF c.level[p] = -1 THEN [Larger(c, n) EXCEPT !.level[p] = n, !.work = Append(@, p)]
    ELSE IF c.level[p] # n THEN [c EXCEPT !.phase = "rejected"]
    ELSE Larger(c, n)

\* The exploration of one instruction.
compute_stack_size(c) ==
    LET p == Last(c.work)
        i == c.code[p]
        info == OpcodeInfo(i.op)
        n == c.level[p] - info[1] + info[2]
        d == Larger([c EXCEPT !.work = Front(@)], n)
        to == IF i.op \in Jumps THEN c.addr[i.n] ELSE 0
    IN  IF c.level[p] < info[1] THEN [c EXCEPT !.phase = "rejected"]
        ELSE IF i.op \in Stops \ {"goto"} THEN d
        ELSE IF i.op = "goto" THEN ss_check(d, to, n)
        ELSE IF i.op = "gosub" THEN ss_check(ss_check(d, to, n + 1), p + 1, n)
        ELSE IF i.op \in Jumps THEN ss_check(ss_check(d, to, n), p + 1, n)
        ELSE ss_check(d, p + 1, n)

-----------------------------------------------------------------------------
(* js_create_function: the passes in order. *)

Unresolved(c) == \E i \in DOMAIN c.out : c.out[i].op \in Jumps /\ c.addr[c.out[i].n] = 0

NextPass(c) ==
    CASE c.phase = "variables" ->
            [c EXCEPT !.phase = "labels", !.code = c.out, !.out = <<>>, !.pos = 1, !.dead = FALSE]
      [] c.phase = "labels" ->
            IF Unresolved(c) THEN [c EXCEPT !.phase = "unresolved"]
            ELSE [c EXCEPT !.phase = "stack", !.code = c.out, !.out = <<>>, !.dead = FALSE,
                           !.level = [i \in DOMAIN c.out |-> IF i = 1 THEN 0 ELSE -1],
                           !.work = <<1>>]
      [] c.phase = "stack" -> [c EXCEPT !.phase = "ready"]

PassStep(c) ==
    IF c.phase = "stack" THEN IF c.work = <<>> THEN NextPass(c) ELSE compute_stack_size(c)
    ELSE IF c.pos > Len(c.code) THEN NextPass(c)
    ELSE IF c.dead THEN skip_dead_code(c)
    ELSE IF c.phase = "variables" THEN resolve_variables(c)
    ELSE resolve_labels(c)

\* Up to n steps, halved so that the evaluation does not nest deeply.
RECURSIVE Steps(_, _)
Steps(c, n) ==
    IF c.phase \in {"ready", "rejected", "unresolved"} \/ n = 0 THEN c
    ELSE IF n = 1 THEN PassStep(c)
    ELSE Steps(Steps(c, n \div 2), n - n \div 2)

js_create_function(body) ==
    LET c == Steps(Emitted(body), 1024)
    IN  [phase |-> c.phase, code |-> c.code, addr |-> c.addr, scopes |-> c.scopes,
         level |-> c.level, size |-> c.size]

-----------------------------------------------------------------------------
(***************************************************************************)
(* JS_CallInternal on the compiled function: one action per kind of         *)
(* instruction, and the loop that unwinds the stack for an exception.  A    *)
(* slot of the stack is a value, a catch offset, a return address of a      *)
(* finally block or an iterator, which carries the event its return method  *)
(* is.  The log keeps the events with their outcomes and, for a closure,    *)
(* the variable cell it captured and how often its scope had been entered.  *)
(***************************************************************************)

CONSTANTS Functions,  \* the bodies that are compiled, a sequence
          Compiled,   \* what js_create_function makes of them
          Tests,      \* the events that can be "false"
          Throwers,   \* the events that can be "throw"
          MaxEvents   \* the events of one execution

VARIABLES fn,   \* the number of the function
          vm    \* the interpreter's state

bytecodeVars == <<fn, vm>>

ASSUME CompiledAssumption ==
    Compiled = [f \in DOMAIN Functions |-> js_create_function(Functions[f])]

BytecodeInit ==
    /\ fn \in DOMAIN Functions
    /\ LET c == Compiled[fn]
       IN  vm = [pc |-> 1, stack |-> <<>>, log |-> <<>>, exc |-> Undef, result |-> None,
                 cell |-> [s \in 1..c.scopes |-> 0], cells |-> 0,
                 entered |-> [s \in 1..c.scopes |-> 0], raised |-> 0,
                 mode |-> IF c.phase = "ready" THEN "run" ELSE c.phase]

Slot(tag, n, v) == [tag |-> tag, n |-> n, v |-> v]
V(v) == Slot("value", 0, v)

Top == Last(vm.stack)
Pop(n) == SubSeq(vm.stack, 1, Len(vm.stack) - n)

I == Compiled[fn].code[vm.pc]
Running(op) == vm.mode = "run" /\ I.op = op
Target == Compiled[fn].addr[I.n]

Outcomes(id) == {"true"} \cup (IF id \in Tests THEN {"false"} ELSE {})
                         \cup (IF id \in Throwers THEN {"throw"} ELSE {})

Entry(id, out) == [id |-> id, out |-> out, cell |-> 0, era |-> <<0, 0>>]
Log(v, id, out) == [v EXCEPT !.log = Append(@, Entry(id, out))]

\* The events that an execution may still meet.
Room == Len(vm.log) < MaxEvents

\* goto exception, with this value and this stack.
Raise(v, exc, stack) ==
    [v EXCEPT !.mode = "unwind", !.exc = exc, !.stack = stack, !.raised = @ + 1]

Step(stack) == [vm EXCEPT !.stack = stack, !.pc = @ + 1]

Returns(v, value) == [v EXCEPT !.mode = "done", !.result = <<"return", value>>, !.stack = <<>>]

Same == UNCHANGED fn

\* An event id whose outcome Then handles and whose exception leaves this stack.
Happens(id, stack, Then(_)) ==
    /\ Room
    /\ \E out \in Outcomes(id) :
          vm' = IF out = "throw" THEN Raise(Log(vm, id, out), Value(id, out), stack)
                ELSE Log(Then(out), id, out)
    /\ Same

OP_call ==
    Running("call")
    /\ Happens(I.id, vm.stack, LAMBDA out : Step(Append(vm.stack, V(Value(I.id, out)))))

OP_tail_call ==
    Running("tail_call") /\ Happens(I.id, vm.stack, LAMBDA out : Returns(vm, Value(I.id, out)))

OP_store ==
    Running("store") /\ Happens(I.id, Pop(1), LAMBDA out : Step(Pop(1)))

OP_push ==
    /\ \/ Running("undefined") /\ vm' = Step(Append(vm.stack, V(Undef)))
       \/ Running("push_true") /\ vm' = Step(Append(vm.stack, V(True)))
       \/ Running("get_var") /\ vm' = Step(Append(vm.stack, V(Undef)))
       \/ Running("dup") /\ vm' = Step(Append(vm.stack, Top))
    /\ Same

OP_pop ==
    /\ \/ Running("drop") /\ vm' = Step(Pop(1))
       \/ Running("nip") /\ vm' = Step(Append(Pop(2), Top))
       \/ Running("strict_eq") /\ vm' = Step(Append(Pop(2), Top))
    /\ Same

OP_jump ==
    /\ \/ Running("goto") /\ vm' = [vm EXCEPT !.pc = Target]
       \/ /\ \/ Running("if_true")
             \/ Running("if_false")
          /\ vm' = IF Top.v.truth = (I.op = "if_true")
                   THEN [Step(Pop(1)) EXCEPT !.pc = Target] ELSE Step(Pop(1))
    /\ Same

OP_catch == Running("catch") /\ vm' = Step(Append(vm.stack, Slot("catch", Target, Undef))) /\ Same

OP_gosub ==
    /\ Running("gosub")
    /\ vm' = [vm EXCEPT !.stack = Append(@, Slot("address", vm.pc + 1, Undef)), !.pc = Target]
    /\ Same

\* A value where a return address should be would be an internal error.
OP_ret ==
    /\ Running("ret")
    /\ vm' = IF Top.tag = "address" THEN [vm EXCEPT !.stack = Pop(1), !.pc = Top.n]
             ELSE Raise(vm, Value("invalid ret value", "throw"), vm.stack)
    /\ Same

OP_throw == Running("throw") /\ vm' = Raise(vm, Top.v, Pop(1)) /\ Same

OP_return ==
    /\ \/ Running("return") /\ vm' = Returns(vm, Top.v)
       \/ Running("return_undef") /\ vm' = Returns(vm, Undef)
    /\ Same

OP_for_in_start ==
    Running("for_in_start")
    /\ Happens(I.id, vm.stack, LAMBDA out : Step(Append(Pop(1), V(Undef))))

OP_for_in_next ==
    Running("for_in_next")
    /\ Happens(I.id, vm.stack,
               LAMBDA out : Step(vm.stack \o <<V(Undef), V(IF out = "true" THEN Undef ELSE True)>>))

OP_for_of_start ==
    Running("for_of_start")
    /\ Happens(I.id, vm.stack,
               LAMBDA out : Step(Pop(1) \o <<Slot("iterator", 0, Value(I.aux, "true")),
                                             V(Undef), Slot("catch", 0, Undef)>>))

\* js_for_of_next: an iterator that is done or threw is forgotten.
OP_for_of_next ==
    /\ Running("for_of_next")
    /\ LET n == Len(vm.stack)
           forgot == [vm.stack EXCEPT ![n - 2] = V(Undef)]
       IN  Happens(I.id, forgot,
                   LAMBDA out : Step(IF out = "true" THEN vm.stack \o <<V(Undef), V(Undef)>>
                                     ELSE forgot \o <<V(Undef), V(True)>>))

\* iter_obj next catch_offset ->
OP_iterator_close ==
    /\ Running("iterator_close")
    /\ LET it == vm.stack[Len(vm.stack) - 2]
       IN  IF it.tag = "iterator"
           THEN Happens(it.v.id, Pop(2), LAMBDA out : Step(Pop(3)))
           ELSE vm' = Step(Pop(3)) /\ Same

\* iter_obj next catch_offset ... ret_val -> ret_val iter_obj next catch_offset
OP_iterator_close_return ==
    /\ Running("iterator_close_return")
    /\ LET c == CHOOSE i \in 0..(Len(vm.stack) - 1) :
                   /\ i = 0 \/ vm.stack[i].tag = "catch"
                   /\ \A j \in (i + 1)..(Len(vm.stack) - 1) : vm.stack[j].tag # "catch"
       IN  vm' = IF c < 3 THEN Raise(vm, Value("iterator_close_return", "throw"), Pop(1))
                 ELSE Step(SubSeq(vm.stack, 1, c - 3) \o <<Top>> \o SubSeq(vm.stack, c - 2, c))
    /\ Same

\* A closure over the variable of a scope: the cell it shares with the others
\* that were made since the variable was closed.
OP_fclosure ==
    /\ Running("fclosure") /\ Room
    /\ LET s == I.n
           c == IF vm.cell[s] = 0 THEN vm.cells + 1 ELSE vm.cell[s]
       IN  vm' = [Step(Append(vm.stack, V(Value(I.id, "true"))))
                    EXCEPT !.cell[s] = c, !.cells = IF c > @ THEN c ELSE @,
                           !.log = Append(@, [id |-> I.id, out |-> "true", cell |-> c,
                                              era |-> <<vm.entered[s], vm.raised>>])]
    /\ Same

OP_scope ==
    /\ \/ Running("set_loc_uninitialized") /\ vm' = [Step(vm.stack) EXCEPT !.entered[I.n] = @ + 1]
       \/ Running("close_loc") /\ vm' = [Step(vm.stack) EXCEPT !.cell[I.n] = 0]
    /\ Same

\* exception: the stack is popped down to a handler; an iterator on the way is
\* closed, and what its return method throws is ignored.
Unwind ==
    /\ vm.mode = "unwind"
    /\ IF vm.stack = <<>> THEN
           vm' = [vm EXCEPT !.mode = "done", !.result = <<"throw", vm.exc>>]
       ELSE IF Top.tag # "catch" THEN vm' = [vm EXCEPT !.stack = Pop(1)]
       ELSE IF Top.n > 0 THEN
           vm' = [vm EXCEPT !.stack = Append(Pop(1), V(vm.exc)), !.pc = Top.n, !.mode = "run"]
       ELSE LET it == vm.stack[Len(vm.stack) - 2]
            IN  IF it.tag # "iterator" THEN vm' = [vm EXCEPT !.stack = Pop(2)]
                ELSE /\ Room
                     /\ \E out \in Outcomes(it.v.id) :
                            vm' = [Log(vm, it.v.id, out) EXCEPT !.stack = Pop(2)]
    /\ Same

BytecodeNext ==
    \/ OP_call \/ OP_tail_call \/ OP_store \/ OP_push \/ OP_pop \/ OP_jump
    \/ OP_catch \/ OP_gosub \/ OP_ret \/ OP_throw \/ OP_return
    \/ OP_for_in_start \/ OP_for_in_next \/ OP_for_of_start \/ OP_for_of_next
    \/ OP_iterator_close \/ OP_iterator_close_return
    \/ OP_fclosure \/ OP_scope \/ Unwind

BytecodeSpec == BytecodeInit /\ [][BytecodeNext]_bytecodeVars

-----------------------------------------------------------------------------
\* A function that returned or threw did what its statements mean: the same
\* events in the same order, every finally block and every iterator's return
\* method run exactly once on the way out, and the same result.  This is about
\* the break entries of the parser, gosub and ret, the optimisations of
\* resolve_variables and resolve_labels, and the unwinding of exceptions.
RunsAsMeant == vm.mode = "done" => Meant(Functions[fn], vm.log, vm.result)

\* Every jump has its target when the passes are over, and the interpreter never
\* has more on its stack than compute_stack_size computed for the instruction.
StackAsComputed ==
    /\ vm.mode # "unresolved"
    /\ vm.mode = "run" =>
          LET c == Compiled[fn]
          IN  /\ vm.pc \in DOMAIN c.code
              /\ Len(vm.stack) <= c.level[vm.pc]
              /\ c.level[vm.pc] <= c.size

Captures(i, j) == i < j /\ vm.log[i].cell > 0 /\ vm.log[j].cell > 0 /\ vm.log[i].id = vm.log[j].id

\* Two executions of a block give the closures made in them a variable of their
\* own, when no exception left the block in between: break, continue and the
\* end of the block close the variables that were captured.
FreshUnlessThrown ==
    \A i, j \in DOMAIN vm.log :
        Captures(i, j) /\ vm.log[i].era[1] # vm.log[j].era[1] /\ vm.log[i].era[2] = vm.log[j].era[2]
            => vm.log[i].cell # vm.log[j].cell

\* Two iterations of a for loop give the closures made in them a variable of
\* their own ("close the closures before the next iteration").
FreshPerIteration ==
    \A i, j \in DOMAIN vm.log :
        Captures(i, j) /\ (\E k \in i..j : vm.log[k].id = "step")
            => vm.log[i].cell # vm.log[j].cell

\* No function whose statements are correct is refused because two ways to one
\* instruction differ in the depth of the stack ("must push return value to
\* keep same stack size").
NoneRefused == vm.mode # "rejected"
=============================================================================
