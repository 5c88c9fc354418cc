-------------------------------- MODULE MCServing --------------------------------
(* Instances of ServerLifecycle for TLC: two datasources with streams.           *)
EXTENDS ServerLifecycle, TLC, NotifWriter

CONSTANTS da, db, hc, ht, hs, jt, js

\* hc: a handler of a query without, ht: with a transaction; hs: one of a script;
\* jt, js: jobs of type exec, in a transaction, and javascript.

\* The two scripts acquire connections of both datasources, in opposite orders.
CrossedPlan ==
    (hc :> <<da>>) @@ (ht :> <<db>>) @@ (hs :> <<da, db>>) @@ (js :> <<db, da>>) @@ (jt :> <<da>>)
MCPlan == [w \in Workers |-> CrossedPlan[w]]

\* A script that acquires two connections of the same datasource.
TwicePlan == [w \in Workers |-> <<da, da>>]

-----------------------------------------------------------------------------
(* The server from Start to Stop (ServerLifecycle), and one writer of a stream that   *)
(* it serves (NotifWriter). The two share nothing: a behaviour is about one of them   *)
(* and leaves the other where it began. The writer has a queue of two payloads and    *)
(* five calls of accept: the queue can overflow before, while and after the loop      *)
(* drains it, and accept is still called after the queue has been closed.             *)

VARIABLE subject    \* "server" or "writer"

servingVars == <<subject, vars, writerVars>>

Serves(A) == subject = "server" /\ A /\ UNCHANGED <<subject, writerVars>>
Writes(A) == subject = "writer" /\ A /\ UNCHANGED <<subject, vars>>

ServingInit == subject \in {"server", "writer"} /\ Init /\ WriterInit
ServingNext == Serves(Next) \/ Writes(WriterNext)

\* The fairness of FairSpec and of FairWriterSpec.
ServingFairness ==
    /\ WF_servingVars(Serves(StopSteps))
    /\ \A w \in Workers :
         /\ WF_servingVars(Serves(Acquire(w)))
         /\ WF_servingVars(Serves(AcquireRefused(w)))
         /\ WF_servingVars(Serves(bgctx = "done" /\ End(w)))
    /\ \A g \in Goroutines : WF_servingVars(Writes(CloseQ(g)))

ServingSpec == ServingInit /\ [][ServingNext]_servingVars /\ ServingFairness
=============================================================================
