-------------------------- MODULE GeneratorsProofs --------------------------
(* The frame of a generator and the requests of an async generator, for any    *)
(* number of calls. The three properties need each other and a fourth part     *)
(* that none of them states: who is under way in each state.                   *)
EXTENDS Generators, TLAPS

Gens ==
    [state : {"start", "yield", "yield*", "executing", "completed"},
     frame : {"live", "freed"}, calls : Nat,
     answer : {"none", "running error", "yield", "done", "throw"}]

AsyncGens ==
    [state : {"start", "yield", "yield*", "executing", "awaiting_return", "completed"},
     frame : {"live", "freed"}, queue : Seq(Nat \X Magic), loop : BOOLEAN, body : BOOLEAN,
     waits : {"none", "await", "return"}, made : Nat,
     answers : Seq(Nat \X {"yield", "done", "throw"})]

\* A function that runs is in its body or waits for a promise; the body runs
\* inside the loop, and a function that waits has left it.
UnderWay ==
    /\ ag.body => ag.loop
    /\ ag.state = "executing" => ag.body \/ ag.waits = "await"
    /\ ag.state = "awaiting_return" => ag.waits = "return"
    /\ ag.waits = "await" => ~ag.loop

GenInv ==
    /\ gen \in Gens /\ ag \in AsyncGens
    /\ FramesLive /\ CallbacksMeetTheirState /\ NoRequestStranded
    /\ UnderWay

-----------------------------------------------------------------------------
\* A sequence with one more element.
LEMMA AppendSeq ==
  ASSUME NEW S, NEW q \in Seq(S), NEW e \in S
  PROVE  /\ Append(q, e) \in Seq(S) /\ Len(Append(q, e)) = Len(q) + 1
         /\ \A i \in 1 .. Len(q) : Append(q, e)[i] = q[i]
         /\ Append(q, e)[Len(q) + 1] = e
OBVIOUS

\* A new generator satisfies the invariant.
LEMMA GenInitHolds == GenInit => GenInv
<1> SUFFICES ASSUME GenInit PROVE GenInv
  OBVIOUS
<1>1. gen \in Gens
  BY DEF GenInit, Gens
<1>2. ag \in AsyncGens
  BY DEF GenInit, AsyncGens
<1> QED
  BY <1>1, <1>2 DEF GenInit, GenInv, FramesLive, CallbacksMeetTheirState, NoRequestStranded, UnderWay

\* A step of the generator leaves the async generator as it was, and the other
\* way round.
LEMMA NextKeeps ==
  ASSUME GenInv, NEW m \in Magic, js_generator_next(m)
  PROVE  GenInv'
<1>1. gen \in Gens /\ ag' = ag /\ gen.frame = IF gen.state = "completed" THEN "freed" ELSE "live"
  BY DEF GenInv, FramesLive, js_generator_next
<1>2. gen' \in Gens /\ gen'.frame = IF gen'.state = "completed" THEN "freed" ELSE "live"
  <2>0. PICK n \in Nat : n = gen.calls + 1
    <3>1. gen.calls \in Nat
      BY <1>1, Zenon DEF Gens
    <3> QED
      BY <3>1
  <2>1. CASE gen.state \in {"executing", "completed"}
    <3>1. PICK a \in {"running error", "done", "throw"} :
            gen' = [gen EXCEPT !.calls = n, !.answer = a]
      BY <1>1, <2>0, <2>1, Zenon DEF js_generator_next, DoneAnswer
    <3> QED
      BY <1>1, <3>1, Zenon DEF Gens
  <2>2. CASE gen.state = "start" /\ m # "next"
    <3>1. free_generator_stack(gen) = [gen EXCEPT !.state = "completed", !.frame = "freed"]
      BY <1>1, <2>2 DEF free_generator_stack, Freed
    <3>2. PICK g \in Gens : g = free_generator_stack(gen) /\ g.calls = gen.calls
                             /\ g.state = "completed" /\ g.frame = "freed"
      BY <1>1, <3>1, Zenon DEF Gens
    <3>3. PICK a \in {"done", "throw"} : gen' = [g EXCEPT !.calls = n, !.answer = a]
      BY <1>1, <2>0, <2>2, <3>2, Zenon DEF js_generator_next, DoneAnswer
    <3> QED
      BY <3>2, <3>3, Zenon DEF Gens
  <2>3. CASE gen.state \in {"yield", "yield*"} \/ (gen.state = "start" /\ m = "next")
    <3>1. gen' = [gen EXCEPT !.calls = n, !.state = "executing", !.frame = "live"]
      BY <1>1, <2>0, <2>3, Zenon DEF js_generator_next, Resumed
    <3> QED
      BY <1>1, <3>1, Zenon DEF Gens
  <2> QED
    BY <1>1, <2>1, <2>2, <2>3, Zenon DEF Gens
<1> QED
  BY <1>1, <1>2 DEF GenInv, FramesLive, CallbacksMeetTheirState, NoRequestStranded, UnderWay

\* The function of the generator yields, ends or throws.
LEMMA ReturnsKeeps ==
  ASSUME GenInv, NEW o \in {"yield", "yield*", "done", "throw"}, GeneratorReturns(o)
  PROVE  GenInv'
<1>1. gen \in Gens /\ ag' = ag /\ gen.frame = "live" /\ gen.state = "executing"
  BY DEF GenInv, FramesLive, GeneratorReturns
<1>2. gen' \in Gens /\ gen'.frame = IF gen'.state = "completed" THEN "freed" ELSE "live"
  BY <1>1, Zenon DEF GeneratorReturns, Gens, free_generator_stack, Freed
<1> QED
  BY <1>1, <1>2 DEF GenInv, FramesLive, CallbacksMeetTheirState, NoRequestStranded, UnderWay
-----------------------------------------------------------------------------
\* The invariant of the async generator follows from its fields.
LEMMA FieldsSuffice ==
  ASSUME GenInv, gen' = gen, ag' \in AsyncGens,
         ag'.frame = IF ag'.state \in {"completed", "awaiting_return"} THEN "freed" ELSE "live",
         CallbacksMeetTheirState', NoRequestStranded', UnderWay'
  PROVE  GenInv'
BY DEF GenInv, FramesLive

\* Answering a request takes it from the queue and changes nothing else.
LEMMA Answering ==
  ASSUME NEW s \in AsyncGens, s.queue # <<>>, NEW a \in {"yield", "done", "throw"}
  PROVE  LET r == js_async_generator_resolve_or_reject(s, a)
         IN  /\ r \in AsyncGens
             /\ r.state = s.state /\ r.frame = s.frame /\ r.loop = s.loop
             /\ r.body = s.body /\ r.waits = s.waits
             /\ r.queue = Tail(s.queue)
<1>1. Head(s.queue) \in Nat \X Magic /\ Tail(s.queue) \in Seq(Nat \X Magic)
  BY DEF AsyncGens
<1>2. PICK q \in Seq(Nat \X Magic) : q = Tail(s.queue)
  BY <1>1, Zenon
<1>3. <<Head(s.queue)[1], a>> \in Nat \X {"yield", "done", "throw"}
  BY <1>1
<1>4. PICK b \in Seq(Nat \X {"yield", "done", "throw"}) :
        b = Append(s.answers, <<Head(s.queue)[1], a>>)
  <2>1. s.answers \in Seq(Nat \X {"yield", "done", "throw"})
    BY DEF AsyncGens
  <2> QED
    BY <1>3, <2>1, AppendSeq, Zenon
<1>5. js_async_generator_resolve_or_reject(s, a) = [s EXCEPT !.queue = q, !.answers = b]
  BY <1>2, <1>4 DEF js_async_generator_resolve_or_reject
<1> QED
  BY <1>2, <1>5, Zenon DEF AsyncGens

\* A new request starts the loop, unless the function runs or waits.
LEMMA AsyncNextKeeps ==
  ASSUME GenInv, NEW m \in Magic, js_async_generator_next(m)
  PROVE  GenInv'
<1>1. ag \in AsyncGens /\ gen' = gen
  BY DEF GenInv, js_async_generator_next
<1>2. PICK q \in Seq(Nat \X Magic) : q = Append(ag.queue, <<ag.made + 1, m>>)
  <2>1. ag.queue \in Seq(Nat \X Magic) /\ ag.made + 1 \in Nat
    BY <1>1 DEF AsyncGens
  <2>2. <<ag.made + 1, m>> \in Nat \X Magic
    BY <2>1
  <2> QED
    BY <2>1, <2>2, AppendSeq, Zenon
<1>3. q # <<>> /\ (ag.queue # <<>> => Head(q) = Head(ag.queue))
  BY <1>1, <1>2 DEF AsyncGens
<1>4. PICK b \in BOOLEAN : b = (ag.loop \/ ag.state # "executing")
  BY <1>1, Zenon DEF AsyncGens
<1>5. PICK n \in Nat : n = ag.made + 1
  BY <1>1 DEF AsyncGens
<1>9. ag' = [ag EXCEPT !.made = n, !.queue = q, !.loop = b]
  BY <1>1, <1>2, <1>4, <1>5 DEF js_async_generator_next
<1>6. /\ ag' \in AsyncGens /\ ag'.queue = q /\ ag'.loop = b
      /\ ag'.state = ag.state /\ ag'.frame = ag.frame /\ ag'.body = ag.body
      /\ ag'.waits = ag.waits
  BY <1>1, <1>9, Zenon DEF AsyncGens
<1>7. CallbacksMeetTheirState'
  BY <1>3, <1>6 DEF GenInv, CallbacksMeetTheirState
<1>8. NoRequestStranded' /\ UnderWay'
  BY <1>4, <1>6, Zenon DEF GenInv, CallbacksMeetTheirState, NoRequestStranded, UnderWay
<1> QED
  BY <1>1, <1>6, <1>7, <1>8, FieldsSuffice DEF GenInv, FramesLive
\* One turn of the loop: the body is entered, the loop left, or one request
\* answered.
LEMMA TurnKeeps ==
  ASSUME GenInv, js_async_generator_resume_next
  PROVE  GenInv'
<1>1. /\ ag \in AsyncGens /\ gen' = gen /\ ag.loop /\ ~ag.body
      /\ ag.waits # "await" /\ ag.state # "executing"
      /\ ag.frame = IF ag.state \in {"completed", "awaiting_return"} THEN "freed" ELSE "live"
  BY DEF GenInv, FramesLive, UnderWay, js_async_generator_resume_next
<1> DEFINE magic == Head(ag.queue)[2]
<1>2. CASE ag.queue = <<>> \/ ag.state = "awaiting_return"
  <2>1. ag' = [ag EXCEPT !.loop = FALSE]
    BY <1>1, <1>2 DEF js_async_generator_resume_next
  <2>2. /\ ag' \in AsyncGens /\ ag'.loop = FALSE /\ ag'.queue = ag.queue
        /\ ag'.state = ag.state /\ ag'.frame = ag.frame /\ ag'.body = ag.body
        /\ ag'.waits = ag.waits
    BY <1>1, <2>1, Zenon DEF AsyncGens
  <2>3. CallbacksMeetTheirState'
    BY <2>2 DEF GenInv, CallbacksMeetTheirState
  <2>4. NoRequestStranded' /\ UnderWay'
    BY <1>1, <1>2, <2>2 DEF GenInv, NoRequestStranded, UnderWay
  <2> QED
    BY <1>1, <2>2, <2>3, <2>4, FieldsSuffice
<1>3. CASE ag.queue # <<>> /\ ag.state = "start" /\ magic # "next"
  <2>1. ag' = [ag EXCEPT !.state = "completed", !.frame = "freed"]
    BY <1>1, <1>3 DEF js_async_generator_resume_next, js_async_generator_complete, Freed
  <2>2. /\ ag' \in AsyncGens /\ ag'.loop = ag.loop /\ ag'.queue = ag.queue
        /\ ag'.state = "completed" /\ ag'.frame = "freed" /\ ag'.body = ag.body
        /\ ag'.waits = ag.waits
    BY <1>1, <2>1, Zenon DEF AsyncGens
  <2>3. ag.waits = "none"
    BY <1>1, <1>3 DEF GenInv, CallbacksMeetTheirState, AsyncGens
  <2>4. CallbacksMeetTheirState' /\ NoRequestStranded' /\ UnderWay'
    BY <1>1, <2>2, <2>3 DEF CallbacksMeetTheirState, NoRequestStranded, UnderWay
  <2> QED
    BY <1>1, <2>2, <2>4, FieldsSuffice
<1>4. CASE ag.queue # <<>> /\ ag.state = "completed" /\ magic = "return"
  <2>1. ag' = [ag EXCEPT !.state = "awaiting_return", !.waits = "return", !.loop = FALSE]
    BY <1>1, <1>4 DEF js_async_generator_resume_next
  <2>2. /\ ag' \in AsyncGens /\ ag'.loop = FALSE /\ ag'.queue = ag.queue
        /\ ag'.state = "awaiting_return" /\ ag'.frame = ag.frame /\ ag'.body = ag.body
        /\ ag'.waits = "return"
    BY <1>1, <2>1, Zenon DEF AsyncGens
  <2>3. CallbacksMeetTheirState' /\ NoRequestStranded' /\ UnderWay'
    BY <1>1, <1>4, <2>2 DEF CallbacksMeetTheirState, NoRequestStranded, UnderWay
  <2> QED
    BY <1>1, <1>4, <2>2, <2>3, FieldsSuffice
<1>5. CASE ag.queue # <<>> /\ ag.state = "completed" /\ magic # "return"
  <2>1. PICK a \in {"done", "throw"} : a = DoneAnswer(magic)
    BY DEF DoneAnswer
  <2>2. PICK r : r = js_async_generator_resolve_or_reject(ag, a)
    OBVIOUS
  <2>3. /\ r \in AsyncGens /\ r.state = ag.state /\ r.frame = ag.frame
        /\ r.body = ag.body /\ r.waits = ag.waits
    BY <1>1, <1>5, <2>2, Answering
  <2>4. ag' = [r EXCEPT !.loop = FALSE]
    BY <1>1, <1>5, <2>1, <2>2 DEF js_async_generator_resume_next
  <2>5. /\ ag' \in AsyncGens /\ ag'.loop = FALSE /\ ag'.state = "completed"
        /\ ag'.frame = ag.frame /\ ag'.body = ag.body /\ ag'.waits = ag.waits
    BY <1>5, <2>3, <2>4, Zenon DEF AsyncGens
  <2>6. ag.waits = "none"
    BY <1>1, <1>5 DEF GenInv, CallbacksMeetTheirState, AsyncGens
  <2>7. CallbacksMeetTheirState' /\ NoRequestStranded' /\ UnderWay'
    BY <1>1, <2>5, <2>6 DEF CallbacksMeetTheirState, NoRequestStranded, UnderWay
  <2> QED
    BY <1>1, <1>5, <2>5, <2>7, FieldsSuffice
<1>6. CASE /\ ag.queue # <<>>
           /\ ag.state \in {"yield", "yield*"} \/ (ag.state = "start" /\ magic = "next")
  <2>1. ag' = [ag EXCEPT !.state = "executing", !.body = TRUE, !.frame = "live"]
    BY <1>1, <1>6, Zenon DEF js_async_generator_resume_next, Resumed
  <2>2. /\ ag' \in AsyncGens /\ ag'.loop = ag.loop /\ ag'.queue = ag.queue
        /\ ag'.state = "executing" /\ ag'.frame = "live" /\ ag'.body = TRUE
        /\ ag'.waits = ag.waits
    BY <1>1, <2>1, Zenon DEF AsyncGens
  <2>3. ag.waits = "none"
    BY <1>1, <1>6 DEF GenInv, CallbacksMeetTheirState, AsyncGens
  <2>4. CallbacksMeetTheirState' /\ NoRequestStranded' /\ UnderWay'
    BY <1>1, <1>6, <2>2, <2>3 DEF CallbacksMeetTheirState, NoRequestStranded, UnderWay
  <2> QED
    BY <1>1, <2>2, <2>4, FieldsSuffice
<1> QED
  BY <1>1, <1>2, <1>3, <1>4, <1>5, <1>6 DEF AsyncGens
\* The body comes back with the request it runs for still at the head.
LEMMA BodyKeeps ==
  ASSUME GenInv, NEW o \in {"yield", "yield*", "await", "done", "throw"}, AsyncBodyReturns(o)
  PROVE  GenInv'
<1>1. /\ ag \in AsyncGens /\ gen' = gen /\ ag.loop /\ ag.body /\ ag.waits = "none"
      /\ ag.state = "executing" /\ ag.frame = "live" /\ ag.queue # <<>>
  BY DEF GenInv, FramesLive, CallbacksMeetTheirState, UnderWay, AsyncBodyReturns
<1>s. PICK s : s = [ag EXCEPT !.body = FALSE]
  BY Zenon
<1>2. /\ s \in AsyncGens /\ s.body = FALSE /\ s.loop = ag.loop /\ s.waits = "none"
      /\ s.queue = ag.queue /\ s.state = "executing" /\ s.frame = "live"
  BY <1>1, <1>s, Zenon DEF AsyncGens
<1>3. CASE o = "await"
  <2>1. ag' = [s EXCEPT !.waits = "await", !.loop = FALSE]
    BY <1>s, <1>3 DEF AsyncBodyReturns
  <2>2. /\ ag' \in AsyncGens /\ ag'.loop = FALSE /\ ag'.queue = ag.queue
        /\ ag'.state = "executing" /\ ag'.frame = "live" /\ ag'.body = FALSE
        /\ ag'.waits = "await"
    BY <1>2, <2>1, Zenon DEF AsyncGens
  <2>3. CallbacksMeetTheirState' /\ NoRequestStranded' /\ UnderWay'
    BY <1>1, <2>2 DEF CallbacksMeetTheirState, NoRequestStranded, UnderWay
  <2> QED
    BY <1>1, <2>2, <2>3, FieldsSuffice
<1>4. CASE o # "await"
  <2>1. PICK t \in AsyncGens, a \in {"yield", "done", "throw"} :
          /\ ag' = js_async_generator_resolve_or_reject(t, a)
          /\ t.queue = ag.queue /\ t.loop = ag.loop /\ t.body = FALSE /\ t.waits = "none"
          /\ \/ t.state \in {"yield", "yield*"} /\ t.frame = "live"
             \/ t.state = "completed" /\ t.frame = "freed"
    <3>1. CASE o \in {"yield", "yield*"}
      <4>t. PICK t : t = [s EXCEPT !.state = o]
        BY Zenon
      <4>1. /\ t \in AsyncGens /\ t.queue = ag.queue /\ t.loop = ag.loop /\ t.body = FALSE
            /\ t.waits = "none" /\ t.state = o /\ t.frame = "live"
        BY <1>2, <3>1, <4>t, Zenon DEF AsyncGens
      <4>2. ag' = js_async_generator_resolve_or_reject(t, "yield")
        BY <1>s, <3>1, <4>t DEF AsyncBodyReturns
      <4> QED
        BY <3>1, <4>1, <4>2
    <3>2. CASE o \in {"done", "throw"}
      <4>1. js_async_generator_complete(s) = [s EXCEPT !.state = "completed", !.frame = "freed"]
        BY <1>2 DEF js_async_generator_complete, Freed
      <4>t. PICK t : t = js_async_generator_complete(s)
        OBVIOUS
      <4>2. /\ t \in AsyncGens /\ t.queue = ag.queue /\ t.loop = ag.loop /\ t.body = FALSE
            /\ t.waits = "none" /\ t.state = "completed" /\ t.frame = "freed"
        BY <1>2, <4>1, <4>t, Zenon DEF AsyncGens
      <4>3. ag' = js_async_generator_resolve_or_reject(t, o)
        BY <1>s, <3>2, <4>t DEF AsyncBodyReturns
      <4> QED
        BY <3>2, <4>2, <4>3
    <3> QED
      BY <1>4, <3>1, <3>2, Zenon
  <2>2. /\ ag' \in AsyncGens /\ ag'.state = t.state /\ ag'.frame = t.frame
        /\ ag'.loop = t.loop /\ ag'.body = t.body /\ ag'.waits = t.waits
    BY <1>1, <2>1, Answering, Zenon
  <2>3. CallbacksMeetTheirState' /\ NoRequestStranded' /\ UnderWay'
    BY <1>1, <2>1, <2>2 DEF CallbacksMeetTheirState, NoRequestStranded, UnderWay
  <2> QED
    BY <1>1, <2>1, <2>2, <2>3, FieldsSuffice
<1> QED
  BY <1>3, <1>4

\* The promise that was waited for settles.
LEMMA ResolveKeeps ==
  ASSUME GenInv, NEW rej \in BOOLEAN, js_async_generator_resolve_function(rej)
  PROVE  GenInv'
<1>1. ag \in AsyncGens /\ gen' = gen /\ ag.waits # "none" /\ ~ag.loop /\ ag.queue # <<>>
  BY DEF GenInv, CallbacksMeetTheirState, js_async_generator_resolve_function, AsyncGens
<1>s. PICK s : s = [ag EXCEPT !.waits = "none"]
  BY Zenon
<1>2. /\ s \in AsyncGens /\ s.waits = "none" /\ s.body = ag.body /\ s.loop = ag.loop
      /\ s.queue = ag.queue /\ s.state = ag.state /\ s.frame = ag.frame
  BY <1>1, <1>s, Zenon DEF AsyncGens
<1>3. CASE ag.waits = "return"
  <2>1. ag.state = "awaiting_return" /\ ag.frame = "freed" /\ ~ag.body
    BY <1>3 DEF GenInv, CallbacksMeetTheirState, FramesLive
  <2>t. PICK t : t = [s EXCEPT !.state = "completed"]
    BY Zenon
  <2>2. /\ t \in AsyncGens /\ t.queue = ag.queue /\ t.loop = ag.loop /\ t.body = ag.body
        /\ t.waits = "none" /\ t.state = "completed" /\ t.frame = "freed"
    BY <1>2, <2>1, <2>t, Zenon DEF AsyncGens
  <2>3. PICK a \in {"yield", "done", "throw"} : ag' = js_async_generator_resolve_or_reject(t, a)
    BY <1>s, <1>3, <2>t DEF js_async_generator_resolve_function
  <2>4. /\ ag' \in AsyncGens /\ ag'.state = "completed" /\ ag'.frame = "freed"
        /\ ag'.loop = ag.loop /\ ag'.body = ag.body /\ ag'.waits = "none"
    BY <1>1, <2>2, <2>3, Answering
  <2>5. CallbacksMeetTheirState' /\ NoRequestStranded' /\ UnderWay'
    BY <1>1, <2>1, <2>4 DEF CallbacksMeetTheirState, NoRequestStranded, UnderWay
  <2> QED
    BY <1>1, <2>4, <2>5, FieldsSuffice
<1>4. CASE ag.waits = "await"
  <2>1. ag.state = "executing" /\ ag.frame = "live"
    BY <1>4 DEF GenInv, CallbacksMeetTheirState, FramesLive
  <2>2. ag' = [s EXCEPT !.loop = TRUE, !.body = TRUE, !.frame = "live"]
    BY <1>s, <1>2, <1>4, <2>1 DEF js_async_generator_resolve_function, Resumed
  <2>3. /\ ag' \in AsyncGens /\ ag'.loop = TRUE /\ ag'.queue = ag.queue
        /\ ag'.state = "executing" /\ ag'.frame = "live" /\ ag'.body = TRUE
        /\ ag'.waits = "none"
    BY <1>2, <2>1, <2>2, Zenon DEF AsyncGens
  <2>4. CallbacksMeetTheirState' /\ NoRequestStranded' /\ UnderWay'
    BY <1>1, <2>3 DEF CallbacksMeetTheirState, NoRequestStranded, UnderWay
  <2> QED
    BY <1>1, <2>3, <2>4, FieldsSuffice
<1> QED
  BY <1>1, <1>3, <1>4 DEF AsyncGens

-----------------------------------------------------------------------------
\* Every step keeps the invariant.
LEMMA GenInvariant == GenSpec => []GenInv
<1>1. GenInv /\ [GenNext]_genVars => GenInv'
  <2> SUFFICES ASSUME GenInv, [GenNext]_genVars PROVE GenInv'
    OBVIOUS
  <2>1. CASE GenNext
    BY <2>1, NextKeeps, ReturnsKeeps, AsyncNextKeeps, TurnKeeps, BodyKeeps, ResolveKeeps DEF GenNext
  <2>2. CASE UNCHANGED genVars
    BY <2>2 DEF genVars, GenInv, FramesLive, CallbacksMeetTheirState, NoRequestStranded, UnderWay
  <2> QED
    BY <2>1, <2>2
<1> QED
  BY <1>1, GenInitHolds, PTL DEF GenSpec

\* However often a generator is called, also by its own body, its frame is
\* freed once and not run afterwards (free_generator_stack and
\* js_async_generator_complete free, js_generator_next and
\* js_async_generator_resume_next resume), and the assertions of
\* js_async_generator_resolve_function hold.
THEOREM FrameFreedOnce == GenSpec => [](FramesLive /\ CallbacksMeetTheirState)
<1>1. GenInv => FramesLive /\ CallbacksMeetTheirState
  BY DEF GenInv
<1> QED
  BY <1>1, GenInvariant, PTL

\* A request that js_async_generator_next queued is left with nobody to answer
\* it only by a completed generator, for any number of requests.
THEOREM RequestsAreServed == GenSpec => []NoRequestStranded
BY GenInvariant, PTL DEF GenInv
=============================================================================
