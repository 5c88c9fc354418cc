----------------------------- MODULE Generators -----------------------------
(***************************************************************************)
(* Generator objects and async generator objects (src/qjs/quickjs.c).      *)
(*                                                                         *)
(* gen is a generator, ag an async generator: its state, the frame of its  *)
(* function, its queue of requests (the number and type of each), whether  *)
(* resume_next is inside its loop, whether the body of the function is     *)
(* running, and the reaction that will call it back.  While a body runs it *)
(* may call the methods of its own generator.                              *)
(***************************************************************************)
EXTENDS Naturals, Sequences

CONSTANT MaxRequests        \* bound on the number of calls
VARIABLES gen, ag
genVars == <<gen, ag>>

Magic == {"next", "return", "throw"}
GenInit ==
    /\ gen = [state |-> "start", frame |-> "live", calls |-> 0, answer |-> "none"]
    /\ ag = [state |-> "start", frame |-> "live", queue |-> <<>>, loop |-> FALSE,
             body |-> FALSE, waits |-> "none", made |-> 0, answers |-> <<>>]

(***************************************************************************)
(* js_generator_next                                                       *)
(***************************************************************************)
Freed(f) == IF f = "live" THEN "freed" ELSE "freed twice"
\* Running the function on a frame that is gone is recorded in the frame.
Resumed(f) == IF f = "live" THEN "live" ELSE "resumed after free"

free_generator_stack(g) ==
    IF g.state = "completed" THEN g
    ELSE [g EXCEPT !.state = "completed", !.frame = Freed(@)]

\* What a finished generator answers.
DoneAnswer(magic) == IF magic = "throw" THEN "throw" ELSE "done"

js_generator_next(magic) ==
    /\ gen.calls < MaxRequests
    /\ gen' = CASE gen.state = "executing" ->
                     [gen EXCEPT !.calls = @ + 1, !.answer = "running error"]
                [] gen.state = "completed" ->
                     [gen EXCEPT !.calls = @ + 1, !.answer = DoneAnswer(magic)]
                [] gen.state = "start" /\ magic # "next" ->
                     [free_generator_stack(gen)
                        EXCEPT !.calls = @ + 1, !.answer = DoneAnswer(magic)]
                [] OTHER ->
                     [gen EXCEPT !.calls = @ + 1, !.state = "executing", !.frame = Resumed(@)]
    /\ UNCHANGED ag

\* async_func_resume comes back to js_generator_next.
GeneratorReturns(outcome) ==
    /\ gen.state = "executing"
    /\ gen' = CASE outcome = "yield" -> [gen EXCEPT !.state = "yield", !.answer = "yield"]
                [] outcome = "yield*" -> [gen EXCEPT !.state = "yield*", !.answer = "yield"]
                [] outcome \in {"done", "throw"} ->
                     [free_generator_stack([gen EXCEPT !.state = "yield"])
                        EXCEPT !.answer = outcome]
    /\ UNCHANGED ag

(***************************************************************************)
(* The async generator                                                     *)
(***************************************************************************)
\* The request at the head of the queue gets its answer and leaves.
js_async_generator_resolve_or_reject(s, answer) ==
    [s EXCEPT !.queue = Tail(@), !.answers = Append(@, <<Head(s.queue)[1], answer>>)]

js_async_generator_complete(s) ==
    IF s.state = "completed" THEN s
    ELSE [s EXCEPT !.state = "completed", !.frame = Freed(@)]

\* Mutant: a call while the function runs or awaits restarts the loop.
js_async_generator_next_Restarts(magic) ==
    /\ ag.made < MaxRequests /\ (ag.loop => ag.body)
    /\ ag' = [ag EXCEPT !.made = @ + 1, !.queue = Append(@, <<ag.made + 1, magic>>),
                        !.loop = TRUE]
    /\ UNCHANGED gen

js_async_generator_next(magic) ==
    /\ ag.made < MaxRequests /\ (ag.loop => ag.body)
    /\ ag' = [ag EXCEPT !.made = @ + 1, !.queue = Append(@, <<ag.made + 1, magic>>),
                        !.loop = @ \/ ag.state # "executing"]
    /\ UNCHANGED gen

\* One turn of the loop of js_async_generator_resume_next, up to the point
\* where the body runs.  Only the end of the queue, a reaction to wait for or
\* an answer of a completed generator leave the loop.
js_async_generator_resume_next ==
    /\ ag.loop /\ ~ag.body
    /\ LET magic == Head(ag.queue)[2]
           Run   == [ag EXCEPT !.state = "executing", !.body = TRUE, !.frame = Resumed(@)]
       IN  ag' = CASE ag.queue = <<>> -> [ag EXCEPT !.loop = FALSE]
                   [] ag.queue # <<>> /\ ag.state = "awaiting_return" -> [ag EXCEPT !.loop = FALSE]
                   [] ag.queue # <<>> /\ ag.state = "start" /\ magic # "next" ->
                        js_async_generator_complete(ag)
                   [] ag.queue # <<>> /\ ag.state = "completed" /\ magic = "return" ->
                        [ag EXCEPT !.state = "awaiting_return", !.waits = "return",
                                   !.loop = FALSE]
                   [] ag.queue # <<>> /\ ag.state = "completed" /\ magic # "return" ->
                        [js_async_generator_resolve_or_reject(ag, DoneAnswer(magic))
                           EXCEPT !.loop = FALSE]
                   [] OTHER -> Run
    /\ UNCHANGED gen

\* The body comes back: it yields, awaits, ends or throws.
AsyncBodyReturns(outcome) ==
    /\ ag.body
    /\ LET s == [ag EXCEPT !.body = FALSE]
       IN  ag' = CASE outcome \in {"yield", "yield*"} ->
                        js_async_generator_resolve_or_reject([s EXCEPT !.state = outcome], "yield")
                   [] outcome = "await" -> [s EXCEPT !.waits = "await", !.loop = FALSE]
                   [] outcome \in {"done", "throw"} ->
                        js_async_generator_resolve_or_reject(
                            js_async_generator_complete(s), outcome)
    /\ UNCHANGED gen

\* The promise that was awaited settles: the request of a "return" is
\* answered, or the function goes on.
js_async_generator_resolve_function(rej) ==
    /\ ag.waits # "none" /\ ~ag.loop
    /\ LET s == [ag EXCEPT !.waits = "none"]
       IN  ag' = IF ag.waits = "return"
                 THEN js_async_generator_resolve_or_reject(
                          [s EXCEPT !.state = "completed"], IF rej THEN "throw" ELSE "done")
                 ELSE [s EXCEPT !.loop = TRUE, !.body = TRUE, !.frame = Resumed(@)]
    /\ UNCHANGED gen

GenNext ==
    \/ \E m \in Magic : js_generator_next(m)
    \/ \E o \in {"yield", "yield*", "done", "throw"} : GeneratorReturns(o)
    \/ \E m \in Magic : js_async_generator_next(m)
    \/ js_async_generator_resume_next
    \/ \E o \in {"yield", "yield*", "await", "done", "throw"} : AsyncBodyReturns(o)
    \/ \E rej \in BOOLEAN : js_async_generator_resolve_function(rej)

GenSpec == GenInit /\ [][GenNext]_genVars

(***************************************************************************)
(* Properties                                                              *)
(***************************************************************************)
\* The frame of a generator function is freed once, when the generator
\* completes, and never run after that (async_func_free asserts that the
\* function is not running).
FramesLive ==
    /\ gen.frame = IF gen.state = "completed" THEN "freed" ELSE "live"
    /\ ag.frame = IF ag.state \in {"completed", "awaiting_return"} THEN "freed" ELSE "live"

\* The assertions of js_async_generator_resolve_function hold and the request
\* to be answered is still at the head: the body runs only in state EXECUTING
\* and for the head of the queue, a reaction of await meets EXECUTING, and a
\* reaction of return meets AWAITING_RETURN with its "return" at the head.
CallbacksMeetTheirState ==
    /\ ag.body => ag.state = "executing" /\ ag.queue # <<>> /\ ag.waits = "none"
    /\ ag.waits = "await" => ag.state = "executing" /\ ag.queue # <<>>
    /\ ag.waits = "return" => /\ ag.state = "awaiting_return"
                              /\ ag.queue # <<>> /\ Head(ag.queue)[2] = "return"

\* Only a completed generator leaves a request with nothing left to answer
\* it: in every other state the loop, the body or a reaction is under way
\* while the queue is not empty.
NoRequestStranded ==
    ag.queue # <<>> /\ ag.state # "completed" => ag.loop \/ ag.body \/ ag.waits # "none"
=============================================================================
