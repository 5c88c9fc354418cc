------------------------------ MODULE Closures ------------------------------
(***************************************************************************)
(* Captured variables of QuickJS (src/qjs/quickjs.c).  A function captures *)
(* a variable through a JSVarRef: while the frame of the variable exists,  *)
(* the reference points into the frame and is on the frame's list; when    *)
(* the frame ends, or the scope of the variable in a loop, the reference   *)
(* is detached and keeps the value itself.  Frames are calls, or the       *)
(* frames of generators and async functions, which outlive the call.      *)
(* Objects that hold references in the same way are the mapped arguments   *)
(* object and the object a with statement or an eval writes through.       *)
(*                                                                         *)
(* env.truth is not part of the program: it is the value of each variable  *)
(* the script means, whoever wrote it last.                                *)
(***************************************************************************)
EXTENDS Integers, Sequences, SequencesExt, FiniteSetsExt

CONSTANTS Frames,       \* how many frames may exist at a time: 1..n
          Locals,       \* the variables of a function
          Args,         \* its arguments
          Vals,         \* the values of a variable
          Undef,        \* JS_UNDEFINED, one of Vals
          Refs,         \* the JSVarRefs: 1..n
          Holders,      \* closures and objects with references: 1..n
          Cells         \* variables that exist at a time: 1..n

VARIABLE env

Slots == Locals \cup Args
SlotSeq == SetToSeq(Slots)

\* fn 0 is the script.
NoFrame == [live |-> FALSE, gen |-> FALSE, fn |-> 0, list |-> <<>>,
            buf |-> [s \in Slots |-> Undef], cell |-> [s \in Slots |-> 0]]
NoRef == [count |-> 0, detached |-> FALSE, frame |-> 0, slot |-> CHOOSE s \in Slots : TRUE, value |-> Undef]
NoHolder == [kind |-> "none", held |-> FALSE, refs |-> <<>>, cells |-> <<>>]

Running(m) == Last(m.stack)
FreeRefs(m) == {r \in Refs : m.ref[r].count = 0}
UsedCells(m) == {m.frame[f].cell[s] : f \in {g \in Frames : m.frame[g].live}, s \in Slots}
                \cup UNION {ToSet(m.holder[h].cells) : h \in Holders}
FreeCells(m) == Cells \ UsedCells(m)

\* The n-th smallest of a set of numbers.
Nth(S, n) == CHOOSE x \in S : Cardinality({y \in S : y <= x}) = n

-----------------------------------------------------------------------------
(* References *)

\* Makes another reference to a variable that has one.
get_var_ref_Another(m, f, s) ==
    LET r == Min(FreeRefs(m))
    IN  [m EXCEPT !.ref[r] = [count |-> 1, detached |-> FALSE, frame |-> f, slot |-> s, value |-> Undef],
                  !.frame[f].list = Append(@, r), !.got = r]

\* The reference to slot s of frame f, in got: the one on the list if there is
\* one.
get_var_ref(m, f, s) ==
    LET open == {r \in ToSet(m.frame[f].list) : m.ref[r].slot = s}
        r == IF open # {} THEN CHOOSE x \in open : TRUE ELSE Min(FreeRefs(m))
    IN  IF open # {} THEN [m EXCEPT !.ref[r].count = @ + 1, !.got = r]
        ELSE [m EXCEPT !.ref[r] = [count |-> 1, detached |-> FALSE, frame |-> f, slot |-> s, value |-> Undef],
                       !.frame[f].list = Append(@, r), !.got = r]

free_var_ref(m, r) ==
    LET x == m.ref[r]
    IN  IF x.count > 1 THEN [m EXCEPT !.ref[r].count = @ - 1]
        ELSE IF x.detached THEN [m EXCEPT !.ref[r] = NoRef]
        ELSE [m EXCEPT !.ref[r] = NoRef, !.frame[x.frame].list = SelectSeq(@, LAMBDA y : y # r)]

Detached(m, r) ==
    [m EXCEPT !.ref[r].detached = TRUE, !.ref[r].value = m.frame[m.ref[r].frame].buf[m.ref[r].slot]]

\* The frame goes away: its list is not used any more.
close_var_refs(m, f) == FoldLeft(Detached, m, m.frame[f].list)

close_lexical_var(m, f, s) ==
    [FoldLeft(Detached, m, SelectSeq(m.frame[f].list, LAMBDA r : m.ref[r].slot = s))
        EXCEPT !.frame[f].list = SelectSeq(@, LAMBDA r : m.ref[r].slot # s)]

\* *var_ref->pvalue
Value(m, r) ==
    LET x == m.ref[r] IN IF x.detached THEN x.value ELSE m.frame[x.frame].buf[x.slot]

set_value(m, r, v) ==
    LET x == m.ref[r]
    IN  IF x.detached THEN [m EXCEPT !.ref[r].value = v] ELSE [m EXCEPT !.frame[x.frame].buf[x.slot] = v]

-----------------------------------------------------------------------------
(* Functions and the objects that hold references *)

\* What a new function or object captures: slot s of the running frame, or
\* reference i of the function that is running.
Local(s) == [local |-> TRUE, slot |-> s, i |-> 0]
Outer(i) == [local |-> FALSE, slot |-> CHOOSE s \in Slots : TRUE, i |-> i]

Captures(m) ==
    LET fn == m.frame[Running(m)].fn
    IN  {Local(s) : s \in Slots} \cup (IF fn = 0 THEN {} ELSE {Outer(i) : i \in DOMAIN m.holder[fn].refs})

\* One closure_var of js_closure2, for holder h.
Capture(m, h, cv) ==
    LET f == Running(m)
        outer == m.holder[m.frame[f].fn]
        n == IF cv.local THEN get_var_ref(m, f, cv.slot)
             ELSE [m EXCEPT !.got = outer.refs[cv.i], !.ref[outer.refs[cv.i]].count = @ + 1]
        cell == IF cv.local THEN m.frame[f].cell[cv.slot] ELSE outer.cells[cv.i]
    IN  [n EXCEPT !.holder[h].refs = Append(@, n.got), !.holder[h].cells = Append(@, cell), !.got = 0]

js_closure2(m, h, kind, cvs) ==
    FoldLeft(LAMBDA n, cv : Capture(n, h, cv), [m EXCEPT !.holder[h].kind = kind, !.holder[h].held = TRUE], cvs)

\* The holder is freed when nothing refers to it: the script or, for a
\* function, a frame.
js_bytecode_function_finalizer(m, h) ==
    IF h = 0 THEN m
    ELSE IF m.holder[h].held \/ \E f \in Frames : m.frame[f].live /\ m.frame[f].fn = h THEN m
    ELSE [FoldLeft(free_var_ref, m, m.holder[h].refs) EXCEPT !.holder[h] = NoHolder]
-----------------------------------------------------------------------------
(* Steps of a script *)

\* A frame for a call of h; its variables are new ones.
NewFrame(m, h, gen, args) ==
    LET f == Min({g \in Frames : ~m.frame[g].live})
        cell == [s \in Slots |-> Nth(FreeCells(m), CHOOSE i \in DOMAIN SlotSeq : SlotSeq[i] = s)]
        buf == [s \in Slots |-> IF s \in Args THEN args[s] ELSE Undef]
    IN  [m EXCEPT !.frame[f] = [live |-> TRUE, gen |-> gen, fn |-> h, list |-> <<>>, buf |-> buf, cell |-> cell],
                  !.stack = IF gen THEN @ ELSE Append(@, f),
                  !.truth = [c \in Cells |-> IF \E s \in Slots : cell[s] = c
                                             THEN buf[CHOOSE s \in Slots : cell[s] = c] ELSE @[c]]]

MayCall(h) == /\ env.holder[h].kind = "function" /\ env.holder[h].held
              /\ \E f \in Frames : ~env.frame[f].live
              /\ Cardinality(FreeCells(env)) >= Cardinality(Slots)

\* Variables nobody can reach any more have no value.
Step(m) == env' = [m EXCEPT !.truth = [c \in Cells |-> IF c \in UsedCells(m) THEN @[c] ELSE Undef]]

JS_CallInternal(h) ==
    /\ MayCall(h)
    /\ \E args \in [Args -> Vals] : Step(NewFrame(env, h, FALSE, args))

\* A call of a generator or an async function: the frame is made and waits.
async_func_init(h) ==
    /\ MayCall(h)
    /\ \E args \in [Args -> Vals] : Step(NewFrame(env, h, TRUE, args))

async_func_resume(f) ==
    /\ env.frame[f].live /\ env.frame[f].gen /\ f \notin ToSet(env.stack)
    /\ Step([env EXCEPT !.stack = Append(@, f)])

\* yield and await leave the frame as it is.
Suspend ==
    /\ env.frame[Running(env)].gen
    /\ Step([env EXCEPT !.stack = Front(@)])

\* The frame f ends: what it captured keeps its value.
Ended(m, f) ==
    js_bytecode_function_finalizer([close_var_refs(m, f) EXCEPT !.frame[f] = NoFrame], m.frame[f].fn)

\* The running function returns or throws.  The frame of a generator is freed
\* by its caller.
Return ==
    /\ Len(env.stack) > 1
    /\ Step(Ended([env EXCEPT !.stack = Front(@)], Running(env)))

\* A generator that waits is freed.
async_func_free(f) ==
    /\ env.frame[f].live /\ env.frame[f].gen /\ f \notin ToSet(env.stack)
    /\ Step(Ended(env, f))

NewHolder == Min({h \in Holders : env.holder[h].kind = "none"})
MayHold == /\ \E h \in Holders : env.holder[h].kind = "none"
           /\ Cardinality(FreeRefs(env)) >= Cardinality(Slots)

\* OP_fclosure
js_closure ==
    /\ MayHold
    /\ \E c \in Captures(env), d \in Captures(env) :
          Step(js_closure2(env, NewHolder, "function", IF c = d THEN <<c>> ELSE <<c, d>>))

\* OP_make_loc_ref, OP_make_arg_ref, OP_make_var_ref_ref
make_ref ==
    /\ MayHold
    /\ \E c \in Captures(env) : Step(js_closure2(env, NewHolder, "object", <<c>>))

\* The arguments object of a sloppy function shares the arguments.
js_build_mapped_arguments ==
    /\ MayHold
    /\ env.frame[Running(env)].fn # 0
    /\ Step(js_closure2(env, NewHolder, "object", SetToSeq({Local(s) : s \in Args})))

\* The script drops its last reference to a function or an object.
Drop(h) ==
    /\ env.holder[h].held
    /\ Step(js_bytecode_function_finalizer([env EXCEPT !.holder[h].held = FALSE], h))

\* OP_put_loc, OP_put_arg
put_loc(s, v) ==
    LET f == Running(env)
    IN  Step([env EXCEPT !.frame[f].buf[s] = v, !.truth[env.frame[f].cell[s]] = v])

\* A write through reference i of holder h: by the function itself when it
\* runs (OP_put_var_ref), or to a property of an object (JS_PROP_VARREF).
put_var_ref(h, i, v) ==
    /\ i \in DOMAIN env.holder[h].refs
    /\ \/ env.holder[h].kind = "object" /\ env.holder[h].held
       \/ env.frame[Running(env)].fn = h
    /\ Step([set_value(env, env.holder[h].refs[i], v) EXCEPT !.truth[env.holder[h].cells[i]] = v])

\* OP_close_loc at the end of a scope: the slot is then used for the variable
\* of the next iteration, which starts with the same value.
close_loc(s) ==
    LET f == Running(env)
        c == Min(FreeCells(env))
    IN  /\ FreeCells(env) # {}
        /\ Step([close_lexical_var(env, f, s) EXCEPT !.frame[f].cell[s] = c, !.truth[c] = env.frame[f].buf[s]])

ClosuresInit ==
    env = NewFrame([frame |-> [f \in Frames |-> NoFrame], stack |-> <<>>, ref |-> [r \in Refs |-> NoRef],
                    holder |-> [h \in Holders |-> NoHolder], truth |-> [c \in Cells |-> Undef], got |-> 0],
                   0, FALSE, [s \in Args |-> Undef])

ClosuresNext ==
    \/ \E h \in Holders : JS_CallInternal(h) \/ async_func_init(h) \/ Drop(h)
    \/ \E f \in Frames : async_func_resume(f) \/ async_func_free(f)
    \/ Suspend
    \/ Return
    \/ js_closure
    \/ make_ref
    \/ js_build_mapped_arguments
    \/ \E s \in Slots, v \in Vals : put_loc(s, v)
    \/ \E h \in Holders, i \in 1..2, v \in Vals : put_var_ref(h, i, v)
    \/ \E s \in Locals : close_loc(s)

-----------------------------------------------------------------------------
(* Properties *)

\* Every route to a variable shows what was last written to it: the frame, the
\* functions and objects that captured it at different times, and the ones
\* that captured it from another function, before and after the frame or the
\* iteration that made it has ended (get_var_ref shares one reference,
\* close_var_refs and close_lexical_var detach it).
SharedVariables ==
    /\ \A f \in Frames : env.frame[f].live =>
          \A s \in Slots : env.frame[f].buf[s] = env.truth[env.frame[f].cell[s]]
    /\ \A h \in Holders : \A i \in DOMAIN env.holder[h].refs :
          Value(env, env.holder[h].refs[i]) = env.truth[env.holder[h].cells[i]]

\* A reference is counted once for every holder, and as long as it is not
\* detached its frame exists and lists it exactly once: no reference points
\* into a frame that is gone, and no frame lists a reference that is freed or
\* detached (free_var_ref, close_lexical_var).
RefsFollowFrames ==
    /\ \A r \in Refs :
          LET x == env.ref[r]
          IN  /\ x.count = Cardinality({<<h, i>> \in Holders \X (1..2) : i \in DOMAIN env.holder[h].refs /\ env.holder[h].refs[i] = r})
              /\ x.count > 0 /\ ~x.detached =>
                    env.frame[x.frame].live /\ r \in ToSet(env.frame[x.frame].list)
    /\ \A f \in Frames :
          /\ IsInjective(env.frame[f].list)
          /\ \A r \in ToSet(env.frame[f].list) :
                env.ref[r].count > 0 /\ ~env.ref[r].detached /\ env.ref[r].frame = f
=============================================================================
