-------------------------------- MODULE Promises --------------------------------
(***************************************************************************)
(* Promises, the job queue and async functions of the script engine        *)
(* (src/qjs/quickjs.c).                                                    *)
(*                                                                         *)
(* A promise is settled through a PAIR of resolving functions that share   *)
(* one already_resolved flag; resolving with a thenable hands the right to *)
(* settle to a job, which makes a new pair.  js is the state of the        *)
(* engine; calls is the stack of native calls that wait for script code to *)
(* return.  Script code may use any promise, and any pair that was given   *)
(* to it, whenever it runs.  The promises are taken from Pool in order,    *)
(* which bounds a behaviour.                                               *)
(***************************************************************************)
EXTENDS Naturals, Sequences, FiniteSets

CONSTANTS Pool,         \* a sequence of distinct promise identities
          Plain,        \* a value that is no thenable
          Thenable,     \* an object with a "then" method of its own
          BadThen,      \* an object whose "then" getter throws
          Error,        \* an exception
          Undefined,
          AsyncFns,     \* calls of async functions
          MaxPairs      \* bound on the number of pairs

VARIABLES js, calls
promiseVars == <<js, calls>>

Made == DOMAIN js.promise
Fresh(s) == Pool[Cardinality(DOMAIN s.promise) + 1]
Room(s, n) == /\ Cardinality(DOMAIN s.promise) + n <= Len(Pool)
              /\ Len(s.pair) + n <= MaxPairs
Objects == Made \cup {Thenable, BadThen}
PromiseValues == Objects \cup {Plain}

NoHandler == <<"undefined">>
NoReactions == <<<<>>, <<>>>>
Pending == [state |-> "pending", result |-> Undefined, handled |-> FALSE,
            reactions |-> NoReactions]

(***************************************************************************)
(* Jobs and settlement, as functions of the engine's state.  FALSE / TRUE  *)
(* stand for is_reject; a list index is 1 for fulfil and 2 for reject.     *)
(***************************************************************************)
Side(rej) == IF rej THEN 2 ELSE 1

JS_EnqueueJob(s, job) == [s EXCEPT !.jobs = Append(@, job)]

ReactionJob(rd, rej, value) ==
    [kind |-> "reaction", cap |-> rd.cap, handler |-> rd.handler,
     rej |-> rej, arg |-> value]

\* The early return for a promise that is not pending ("should never
\* happen") is recorded in again.
fulfill_or_reject_promise(s, p, value, rej) ==
    IF s.promise[p].state # "pending" THEN [s EXCEPT !.again = TRUE]
    ELSE LET rds == s.promise[p].reactions[Side(rej)]
         IN  [s EXCEPT
               !.promise[p] = [state |-> IF rej THEN "rejected" ELSE "fulfilled",
                               result |-> value, handled |-> s.promise[p].handled,
                               reactions |-> NoReactions],
               !.unhandled = IF rej /\ ~s.promise[p].handled THEN @ \cup {p} ELSE @,
               !.jobs = @ \o [i \in DOMAIN rds |-> ReactionJob(rds[i], rej, value)]]

js_create_resolving_functions(s, p, given) ==
    [s EXCEPT !.pair = Append(@, [promise |-> p, already |-> FALSE, given |-> given])]

\* Mutant: the two functions of a pair do not share the flag, so that the
\* second call is not stopped.
resolve_function_call_Unshared(s, i, rej, value) ==
    fulfill_or_reject_promise(s, s.pair[i].promise, value, rej)

js_promise_resolve_function_call(s, i, rej, value) ==
    LET p  == s.pair[i].promise
        s1 == [s EXCEPT !.pair[i] = [s.pair[i] EXCEPT !.already = TRUE]]
    IN  IF s.pair[i].already THEN s
        ELSE IF rej \/ value \notin (DOMAIN s.promise \cup {Thenable, BadThen})
             THEN fulfill_or_reject_promise(s1, p, value, rej)
        ELSE IF value \in {p, BadThen}
             THEN fulfill_or_reject_promise(s1, p, Error, TRUE)
        ELSE JS_EnqueueJob(s1, [kind |-> "thenable", promise |-> p, thenable |-> value])

js_new_promise_capability(s, given) ==
    LET p == Fresh(s)
        m == [q \in DOMAIN s.promise \cup {p} |-> IF q = p THEN Pending ELSE s.promise[q]]
    IN  js_create_resolving_functions([s EXCEPT !.promise = m], p, given)

perform_promise_then(s, p, handlers, cap) ==
    LET rd  == [k \in 1 .. 2 |-> [cap |-> cap, handler |-> handlers[k]]]
        q   == s.promise[p]
        q1  == [q EXCEPT !.handled = TRUE]
        rej == q.state = "rejected"
    IN  IF q.state = "pending"
        THEN [s EXCEPT !.promise[p] = [q1 EXCEPT !.reactions =
                                         [k \in 1 .. 2 |-> Append(q.reactions[k], rd[k])]]]
        ELSE JS_EnqueueJob(
                 [s EXCEPT !.promise[p] = q1,
                           !.unhandled = IF rej /\ ~q.handled THEN @ \ {p} ELSE @],
                 ReactionJob(rd[Side(rej)], rej, q.result))

\* Promise.resolve / Promise.reject: the state, and the promise returned.
js_promise_resolve(s, value, rej) ==
    IF ~rej /\ value \in DOMAIN s.promise THEN <<s, value>>
    ELSE LET s1 == js_new_promise_capability(s, FALSE)
         IN  <<js_promise_resolve_function_call(s1, Len(s1.pair), rej, value), Fresh(s)>>

(***************************************************************************)
(* Script code: runs as the script itself (calls empty) or inside a call.  *)
(***************************************************************************)
PromiseInit ==
    /\ js = [promise |-> <<>>, pair |-> <<>>, jobs |-> <<>>, unhandled |-> {},
             fn |-> [f \in AsyncFns |-> [state |-> "none", cap |-> 0]], again |-> FALSE]
    /\ calls = <<>>

\* new Promise(executor); an executor that throws rejects through its pair.
js_promise_constructor(throws) ==
    /\ Room(js, 1)
    /\ LET s == js_new_promise_capability(js, TRUE)
       IN  js' = IF throws THEN js_promise_resolve_function_call(s, Len(s.pair), TRUE, Error)
                 ELSE s
    /\ UNCHANGED calls

CallResolvingFunction(i, rej, value) ==
    /\ js.pair[i].given
    /\ js' = js_promise_resolve_function_call(js, i, rej, value)
    /\ js' # js
    /\ UNCHANGED calls

PromiseResolve(value, rej) ==
    /\ Room(js, 1)
    /\ js' = js_promise_resolve(js, value, rej)[1]
    /\ js' # js
    /\ UNCHANGED calls

\* catch is then with an undefined first handler.
js_promise_then(p, handlers) ==
    /\ Room(js, 1)
    /\ LET s == js_new_promise_capability(js, FALSE)
       IN  js' = perform_promise_then(s, p, handlers, Len(s.pair))
    /\ UNCHANGED calls

js_promise_finally(p) == js_promise_then(p, <<<<"finally", FALSE>>, <<"finally", TRUE>>>>)

js_async_function_call(f) ==
    /\ js.fn[f].state = "none" /\ Room(js, 1)
    /\ LET s == js_new_promise_capability(js, FALSE)
       IN  js' = [s EXCEPT !.fn[f] = [state |-> "running", cap |-> Len(s.pair)]]
    /\ calls' = Append(calls, [kind |-> "async", fn |-> f])

(***************************************************************************)
(* The body of an async function comes back to js_async_function_resume:   *)
(* it returned, it threw, or it awaits a value.                            *)
(***************************************************************************)
Top == calls[Len(calls)]
Return == calls' = SubSeq(calls, 1, Len(calls) - 1)

AsyncAwait(value) ==
    /\ calls # <<>> /\ Top.kind = "async"
    /\ (value \notin Made => Room(js, 1))
    /\ LET f == Top.fn
           r == js_promise_resolve(js, value, FALSE)
       IN  js' = [perform_promise_then(r[1], r[2], <<<<"await", f>>, <<"await", f>>>>, 0)
                    EXCEPT !.fn[f].state = "awaiting"]
    /\ Return

AsyncDone(throws, value) ==
    /\ calls # <<>> /\ Top.kind = "async"
    /\ js' = [js_promise_resolve_function_call(js, js.fn[Top.fn].cap, throws, value)
                EXCEPT !.fn[Top.fn].state = "done"]
    /\ Return

(***************************************************************************)
(* The host runs the first job when no script code is running.             *)
(***************************************************************************)
\* What promise_reaction_job does with the handler's result.
Finish(s, cap, rej, value) ==
    IF cap = 0 THEN s ELSE js_promise_resolve_function_call(s, cap, rej, value)

RunReaction(s, job) ==
    LET h == job.handler IN
    \/ /\ h[1] = "undefined"
       /\ js' = Finish(s, job.cap, job.rej, job.arg)
       /\ UNCHANGED calls
    \/ /\ h[1] \in {"value", "throw"}          \* the thunks of finally
       /\ js' = Finish(s, job.cap, h[1] = "throw", h[2])
       /\ UNCHANGED calls
    \/ /\ h[1] \in {"resolve", "reject"}       \* a pair passed to then as handlers
       /\ js' = Finish(js_promise_resolve_function_call(s, h[2], h[1] = "reject", job.arg),
                       job.cap, FALSE, Undefined)
       /\ UNCHANGED calls
    \/ /\ h[1] \in {"user", "finally"}
       /\ js' = s
       /\ calls' = <<job>>
    \/ /\ h[1] = "await"                       \* js_async_function_resolve_call
       /\ js' = [s EXCEPT !.fn[h[2]].state =
                   IF s.fn[h[2]].state = "awaiting" THEN "running" ELSE "broken"]
       /\ calls' = <<[kind |-> "async", fn |-> h[2]]>>

\* js_promise_resolve_thenable_job.  The promise that then returns for a
\* promise is dropped at once, so its capability is left out.
RunThenable(s, job) ==
    LET s1 == js_create_resolving_functions(s, job.promise, job.thenable = Thenable)
        i  == Len(s1.pair)
    IN  /\ Len(s1.pair) <= MaxPairs
        /\ IF job.thenable = Thenable
           THEN js' = s1 /\ calls' = <<[kind |-> "then", cap |-> i]>>
           ELSE /\ js' = perform_promise_then(s1, job.thenable,
                                              <<<<"resolve", i>>, <<"reject", i>>>>, 0)
                /\ UNCHANGED calls

JS_ExecutePendingJob ==
    /\ calls = <<>> /\ js.jobs # <<>>
    /\ LET job == Head(js.jobs)
           s   == [js EXCEPT !.jobs = Tail(@)]
       IN  \/ job.kind = "reaction" /\ RunReaction(s, job)
           \/ job.kind = "thenable" /\ RunThenable(s, job)

\* A handler of then, or the then method of a thenable, comes back.
HandlerReturns(throws, value) ==
    /\ calls # <<>>
    /\ \/ /\ Top.kind = "reaction" /\ Top.handler[1] = "user"
          /\ js' = Finish(js, Top.cap, throws, value)
       \/ /\ Top.kind = "then"
          /\ js' = IF throws THEN js_promise_resolve_function_call(js, Top.cap, TRUE, value)
                   ELSE js
    /\ Return

\* js_promise_then_finally_func: the value or exception passes through once
\* what onFinally returned has settled.
FinallyReturns(throws, value) ==
    /\ calls # <<>> /\ Top.kind = "reaction" /\ Top.handler[1] = "finally"
    /\ \/ /\ throws
          /\ js' = Finish(js, Top.cap, TRUE, value)
       \/ /\ ~throws
          /\ Room(js, IF value \in Made THEN 1 ELSE 2)
          /\ LET r     == js_promise_resolve(js, value, FALSE)
                 s     == js_new_promise_capability(r[1], FALSE)
                 thunk == <<IF Top.handler[2] THEN "throw" ELSE "value", Top.arg>>
             IN  js' = Finish(perform_promise_then(s, r[2], <<thunk, NoHandler>>, Len(s.pair)),
                              Top.cap, FALSE, Fresh(r[1]))
    /\ Return

\* How script code comes back: <<it threw, the value or exception>>.
Outcomes == {<<TRUE, Error>>} \cup ({FALSE} \X (Made \cup {Plain}))

PromiseNext ==
    \/ \E throws \in BOOLEAN : js_promise_constructor(throws)
    \/ \E i \in DOMAIN js.pair, rej \in BOOLEAN, v \in PromiseValues :
          CallResolvingFunction(i, rej, v)
    \/ \E v \in PromiseValues : PromiseResolve(v, FALSE)
    \/ PromiseResolve(Plain, TRUE)
    \/ \E p \in Made, h \in {<<<<"user">>, NoHandler>>, <<NoHandler, <<"user">>>>} :
          js_promise_then(p, h)
    \/ \E p \in Made : js_promise_finally(p)
    \/ \E f \in AsyncFns : js_async_function_call(f)
    \/ \E v \in PromiseValues : AsyncAwait(v)
    \/ \E o \in Outcomes : AsyncDone(o[1], o[2])
    \/ JS_ExecutePendingJob
    \/ \E o \in Outcomes : HandlerReturns(o[1], o[2]) \/ FinallyReturns(o[1], o[2])

PromiseSpec == PromiseInit /\ [][PromiseNext]_promiseVars

(***************************************************************************)
(* Properties                                                              *)
(***************************************************************************)
Rights(p) == Cardinality({i \in DOMAIN js.pair : js.pair[i].promise = p /\ ~js.pair[i].already})
             + Cardinality({j \in DOMAIN js.jobs : js.jobs[j].kind = "thenable"
                                                   /\ js.jobs[j].promise = p})

\* fulfill_or_reject_promise never meets a promise that is already settled
\* (the comment there says "should never happen"): a pending promise is in
\* the hands of exactly one unused pair or thenable job, a settled one of none.
SettledOnce ==
    /\ ~js.again
    /\ \A p \in Made : Rights(p) = IF js.promise[p].state = "pending" THEN 1 ELSE 0

\* The registered reactions and queued jobs that will resume async function f.
Holders(f) ==
    Cardinality(UNION {{p} \X {k \in DOMAIN js.promise[p].reactions[1] :
                                  js.promise[p].reactions[1][k].handler = <<"await", f>>} : p \in Made})
    + Cardinality({j \in DOMAIN js.jobs : js.jobs[j].kind = "reaction"
                                           /\ js.jobs[j].handler = <<"await", f>>})

\* A reaction is neither lost nor run twice: the two lists of a promise hold
\* the same capabilities and are empty once it is settled, and an async
\* function that awaits is held by exactly one registered reaction or queued
\* job.  js_async_function_resolve_call resumes the function without a
\* check, so a second holder would run it while it runs or after its end.
ReactionsOnce ==
    /\ \A p \in Made :
          LET r == js.promise[p].reactions
          IN  /\ [k \in DOMAIN r[1] |-> r[1][k].cap] = [k \in DOMAIN r[2] |-> r[2][k].cap]
              /\ js.promise[p].state # "pending" => r[1] = <<>>
    /\ \A f \in AsyncFns :
          /\ js.fn[f].state # "broken"
          /\ Holders(f) = IF js.fn[f].state = "awaiting" THEN 1 ELSE 0

\* The rejection tracker of the host knows exactly the rejected promises that
\* no then, catch or await has handled (fulfill_or_reject_promise reports a
\* rejection, perform_promise_then takes it back).
UnhandledExact ==
    js.unhandled = {p \in Made : js.promise[p].state = "rejected" /\ ~js.promise[p].handled}

-----------------------------------------------------------------------------
(***************************************************************************)
(* Promise.all, allSettled, any and race (src/qjs/quickjs.c): the loop     *)
(* over the iterable, which calls then on every element, and the element   *)
(* functions, which an element may call at any time after that, also       *)
(* before the loop is over, and more than once.                            *)
(*                                                                         *)
(* comb.count is remainingElementsCount, comb.values the array of values   *)
(* ("hole" where nothing was stored), comb.called the flags of the element *)
(* functions, one per function.                                            *)
(***************************************************************************)

CONSTANT MaxElements        \* bound on the length of the iterable
VARIABLE comb

CombKinds == {"all", "allSettled", "any", "race"}
CombInit ==
    \E k \in CombKinds :
        comb = [kind |-> k, loop |-> "running", index |-> 0, count |-> 1,
                values |-> <<>>, called |-> <<>>, result |-> "pending"]

\* resolving_funcs[rej] of the result's capability; only the first call counts.
CallResult(c, rej) ==
    IF c.result # "pending" THEN c
    ELSE [c EXCEPT !.result = IF rej THEN "rejected" ELSE "fulfilled"]

js_promise_all_resolve_element(c, i, rej) ==
    LET c1 == [c EXCEPT !.called[i][rej] = TRUE,
                        !.values[i] = IF rej THEN "reason" ELSE "value",
                        !.count = @ - 1]
    IN  IF c.called[i][rej] THEN c
        ELSE IF c1.count = 0 THEN CallResult(c1, c.kind = "any") ELSE c1

\* What then receives for element i: a closure of the element, or one of the
\* resolving functions of the result.
ElementCall(c, i, rej) ==
    IF c.kind = "allSettled" \/ (c.kind = "all" /\ ~rej) \/ (c.kind = "any" /\ rej)
    THEN js_promise_all_resolve_element(c, i, rej)
    ELSE CallResult([c EXCEPT !.called[i][rej] = TRUE], rej)

\* fail_reject: any exception ends the loop and rejects the result.
CombFails ==
    /\ comb.loop = "running"
    /\ comb' = CallResult([comb EXCEPT !.loop = "failed"], TRUE)

AddElement ==
    /\ comb.loop = "running" /\ comb.kind # "race" /\ comb.index < MaxElements
    /\ comb' = [comb EXCEPT
                  !.index = @ + 1,
                  !.count = @ + 1,
                  !.values = Append(@, "hole"),
                  !.called = Append(@, [rej \in BOOLEAN |-> FALSE])]

IterationDone ==
    /\ comb.loop = "running" /\ comb.kind # "race"
    /\ LET c == [comb EXCEPT !.loop = "done", !.count = @ - 1]
       IN  comb' = IF c.count = 0 THEN CallResult(c, c.kind = "any") ELSE c

\* One turn of the loop of race, which passes the result's own functions.
js_promise_race ==
    /\ comb.loop = "running" /\ comb.kind = "race"
    /\ \/ /\ comb.index < MaxElements
          /\ comb' = [comb EXCEPT !.index = @ + 1,
                                  !.values = Append(@, "hole"),
                                  !.called = Append(@, [rej \in BOOLEAN |-> FALSE])]
       \/ comb' = [comb EXCEPT !.loop = "done"]

\* An element calls back.  For allSettled the two closures of an element have
\* a flag each, so the element is taken to call only one of the two, as a
\* promise does.
ElementSettles(i, rej) ==
    /\ comb.kind = "allSettled" => ~comb.called[i][~rej]
    /\ comb' = ElementCall(comb, i, rej)
    /\ comb' # comb

CombNext ==
    \/ CombFails
    \/ AddElement
    \/ IterationDone
    \/ js_promise_race
    \/ \E i \in DOMAIN comb.called, rej \in BOOLEAN : ElementSettles(i, rej)

CombSpec == CombInit /\ [][CombNext]_comb

(***************************************************************************)
(* Properties                                                              *)
(***************************************************************************)
Answered(i) == CASE comb.kind = "all"        -> comb.called[i][FALSE]
                 [] comb.kind = "any"        -> comb.called[i][TRUE]
                 [] comb.kind = "allSettled" -> comb.called[i][FALSE] \/ comb.called[i][TRUE]
                 [] comb.kind = "race"       -> FALSE

ByCount == comb.kind # "race" /\ comb.result = IF comb.kind = "any" THEN "rejected" ELSE "fulfilled"

\* The result of all and allSettled is fulfilled, and that of any rejected,
\* only after the loop has seen every element and every element has stored
\* its value: the count starts at one so that elements that answer while the
\* loop runs do not complete it.
CompleteWhenSettled ==
    ByCount /\ comb.loop # "failed"
        => /\ comb.loop = "done"
           /\ \A i \in DOMAIN comb.called : Answered(i) /\ comb.values[i] # "hole"

\* The result does not stay pending once the loop is done and every element
\* has answered, whatever the order of the answers.
SettledWhenComplete ==
    /\ comb.loop = "done" /\ comb.kind # "race"
    /\ \A i \in DOMAIN comb.called : Answered(i)
    => comb.result # "pending"

\* fulfill_or_reject_promise never meets a promise that is already settled; a
\* reaction is neither lost nor run twice (perform_promise_then,
\* js_async_function_resolve_call); the rejection tracker knows exactly the
\* rejected promises that nothing has handled; and the result of Promise.all,
\* allSettled and any is settled by the count exactly when all elements have
\* been seen and answered (js_promise_all).
PromisesSound ==
    /\ SettledOnce /\ ReactionsOnce /\ UnhandledExact
    /\ CompleteWhenSettled /\ SettledWhenComplete
=============================================================================
