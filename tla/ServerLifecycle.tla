---------------------------- MODULE ServerLifecycle ----------------------------
(* APIServer.Start and Stop (server.go), with all that happens between them to   *)
(* the connections of the datasources (datasources.go): the endpoint handlers     *)
(* and jobs that take them out of the pools, directly, in a transaction or from   *)
(* a script, and the connections hijacked for the notification dispatchers.       *)
(* Start can fail at each of its steps. The inside of a dispatcher is the         *)
(* business of NotifStreams.                                                      *)
EXTENDS Naturals, Sequences, FiniteSets

CONSTANTS
    Sources,        \* datasources of the configuration
    StreamSources,  \* those with streams
    Workers,        \* invocations of endpoints and jobs that can go on at a time
    Jobs,           \* those that are jobs, run by cron
    Tx,             \* those that run their query in a transaction
    Scripts,        \* those that are javascript
    Plan,           \* the datasources each acquires connections of, in this order
    MaxConns        \* size of each pool

ASSUME ConfigAssumption ==
    /\ StreamSources \subseteq Sources
    /\ Jobs \subseteq Workers /\ Tx \subseteq Workers /\ Scripts \subseteq Workers \ Tx
    /\ Plan \in [Workers -> Seq(Sources) \ {<<>>}]
    /\ \A w \in Workers \ Scripts : Len(Plan[w]) = 1
    /\ MaxConns \in Nat \ {0}
ASSUME FinitenessAssumption == IsFiniteSet(Workers)

VARIABLES
    pc,        \* position of the goroutine that calls Start, then Stop
    failedAt,  \* the step at which Start returned an error
    bgctx,     \* the context of all background tasks
    pool,      \* d.pools
    listener,  \* the connection hijacked from each pool
    nd,        \* a.nd, the dispatchers
    cron,      \* a.c
    srv,       \* a.srv
    wpc,       \* position of each worker
    pos,       \* number of the acquisition it is at, or was at last
    conns,     \* the pools it will release a connection to at its end
    leaked     \* number of connections out of a pool that nobody will release

server == <<pc, failedAt, bgctx, pool, listener, nd, cron, srv>>
workers == <<wpc, pos, conns, leaked>>
vars == <<server, workers>>

Positions == {"connect", "hijack", "jobs", "cron", "http", "running", "failed", "stopCron", "cancel",
              "stopDispatchers", "shutdown", "wait", "closePools", "stopped", "stopFailed"}

TypeOK ==
    /\ pc \in Positions
    /\ failedAt \in {"no", "connect", "dispatchers", "jobs", "http"}
    /\ bgctx \in {"live", "done"}
    /\ pool \in [Sources -> {"none", "open", "closing", "closed"}]
    /\ listener \in [Sources -> {"none", "open", "closed"}]
    /\ nd \in [Sources -> {"none", "running", "stopped"}]
    /\ cron \in {"new", "running", "stopped"}
    /\ srv \in {"nil", "serving", "shut"}
    /\ wpc \in [Workers -> {"idle", "acquire", "run"}]
    /\ pos \in [Workers -> Nat]
    /\ \A w \in Workers : pos[w] <= Len(Plan[w]) /\ (wpc[w] # "idle" => pos[w] > 0)
    /\ conns \in [Workers -> SUBSET Sources]
    /\ leaked \in [Sources -> 0..MaxConns]

Init ==
    /\ pc = "connect" /\ failedAt = "no" /\ bgctx = "live"
    /\ pool = [d \in Sources |-> "none"]
    /\ listener = [d \in Sources |-> "none"]
    /\ nd = [d \in Sources |-> "none"]
    /\ cron = "new" /\ srv = "nil"
    /\ wpc = [w \in Workers |-> "idle"]
    /\ pos = [w \in Workers |-> 0]
    /\ conns = [w \in Workers |-> {}]
    /\ leaked = [d \in Sources |-> 0]

\* The connections out of a pool; a hijacked one is no longer the pool's.
Out(d) == Cardinality({w \in Workers : d \in conns[w]}) + leaked[d]

Handlers == Workers \ Jobs

-----------------------------------------------------------------------------
(* Start.                                                                      *)

Fail(step) == pc' = "failed" /\ failedAt' = step

\* Faulty variant: the pools opened before the failure stay open.
Connect_NoUndo(d) ==
    /\ pc = "connect" /\ pool[d] = "none"
    /\ \/ /\ pool' = [pool EXCEPT ![d] = "open"]
          /\ UNCHANGED <<pc, failedAt>>
       \/ Fail("connect") /\ UNCHANGED pool
    /\ UNCHANGED <<bgctx, listener, nd, cron, srv, workers>>

\* datasources.start connects to one datasource; on an error it closes all others.
Connect(d) ==
    /\ pc = "connect" /\ pool[d] = "none"
    /\ \/ /\ pool' = [pool EXCEPT ![d] = "open"]
          /\ UNCHANGED <<pc, failedAt>>
       \/ /\ pool' = [e \in Sources |-> IF pool[e] = "open" THEN "closed" ELSE pool[e]]
          /\ Fail("connect")
    /\ UNCHANGED <<bgctx, listener, nd, cron, srv, workers>>

Connected ==
    /\ pc = "connect" /\ \A d \in Sources : pool[d] = "open"
    /\ pc' = "hijack"
    /\ UNCHANGED <<failedAt, bgctx, pool, listener, nd, cron, srv, workers>>

\* connsToClose: the connections whose dispatcher was started are closed on errors.
CloseConns(ls) == [d \in Sources |-> IF nd[d] = "running" THEN "closed" ELSE ls[d]]

\* startNotifDispatchers: a connection is taken out of the pool ...
Hijack(d) ==
    /\ pc = "hijack" /\ listener[d] = "none"
    /\ \A e \in Sources : listener[e] = "open" => nd[e] = "running"
    /\ \/ /\ listener' = [listener EXCEPT ![d] = "open"]
          /\ UNCHANGED <<pc, failedAt>>
       \/ /\ listener' = CloseConns(listener)
          /\ Fail("dispatchers")
    /\ UNCHANGED <<bgctx, pool, nd, cron, srv, workers>>

\* ... and nd.start listens on its channels.
StartDispatcher(d) ==
    /\ pc = "hijack" /\ listener[d] = "open" /\ nd[d] = "none"
    /\ \/ /\ nd' = [nd EXCEPT ![d] = "running"]
          /\ UNCHANGED <<pc, failedAt, listener>>
       \/ /\ listener' = CloseConns(listener)
          /\ Fail("dispatchers")
          /\ UNCHANGED nd
    /\ UNCHANGED <<bgctx, pool, cron, srv, workers>>

Dispatching ==
    /\ pc = "hijack" /\ \A d \in StreamSources : nd[d] = "running"
    /\ pc' = "jobs"
    /\ UNCHANGED <<failedAt, bgctx, pool, listener, nd, cron, srv, workers>>

\* setupJobs, then a.c.Start()
SetupJobs ==
    /\ pc = "jobs"
    /\ (pc' = "cron" /\ UNCHANGED failedAt) \/ Fail("jobs")
    /\ UNCHANGED <<bgctx, pool, listener, nd, cron, srv, workers>>

StartCron ==
    /\ pc = "cron"
    /\ cron' = "running" /\ pc' = "http"
    /\ UNCHANGED <<failedAt, bgctx, pool, listener, nd, srv, workers>>

\* net.Listen, then a.srv.Serve
StartHTTP ==
    /\ pc = "http"
    /\ \/ srv' = "serving" /\ pc' = "running" /\ UNCHANGED failedAt
       \/ Fail("http") /\ UNCHANGED srv
    /\ UNCHANGED <<bgctx, pool, listener, nd, cron, workers>>

Start ==
    \/ \E d \in Sources : Connect(d)
    \/ Connected
    \/ \E d \in StreamSources : Hijack(d) \/ StartDispatcher(d)
    \/ Dispatching \/ SetupJobs \/ StartCron \/ StartHTTP

-----------------------------------------------------------------------------
(* Stop.                                                                       *)

\* Stop does nothing if the HTTP server was not started.
CallStop ==
    /\ pc \in {"running", "failed"}
    /\ pc' = IF srv = "nil" THEN "stopped" ELSE "stopCron"
    /\ UNCHANGED <<failedAt, bgctx, pool, listener, nd, cron, srv, workers>>

\* a.c.Stop() does not wait for the jobs that run.
StopCron ==
    /\ pc = "stopCron"
    /\ cron' = "stopped" /\ pc' = "cancel"
    /\ UNCHANGED <<failedAt, bgctx, pool, listener, nd, srv, workers>>

\* Faulty variant: the context of the background tasks is not cancelled.
Cancel_Forgotten ==
    /\ pc = "cancel"
    /\ pc' = "stopDispatchers"
    /\ UNCHANGED <<failedAt, bgctx, pool, listener, nd, cron, srv, workers>>

Cancel ==
    /\ pc = "cancel"
    /\ bgctx' = "done" /\ pc' = "stopDispatchers"
    /\ UNCHANGED <<failedAt, pool, listener, nd, cron, srv, workers>>

\* stopNotifDispatchers; NotifStreams shows that nd.stop returns.
StopDispatcher(d) ==
    /\ pc = "stopDispatchers" /\ nd[d] = "running"
    /\ nd' = [nd EXCEPT ![d] = "stopped"]
    /\ listener' = [listener EXCEPT ![d] = "closed"]
    /\ UNCHANGED <<pc, failedAt, bgctx, pool, cron, srv, workers>>

DispatchersStopped ==
    /\ pc = "stopDispatchers" /\ \A d \in Sources : nd[d] # "running"
    /\ pc' = "shutdown"
    /\ UNCHANGED <<failedAt, bgctx, pool, listener, nd, cron, srv, workers>>

\* a.srv.Shutdown(ctx) stops accepting requests ...
Shutdown ==
    /\ pc = "shutdown"
    /\ srv' = "shut" /\ pc' = "wait"
    /\ UNCHANGED <<failedAt, bgctx, pool, listener, nd, cron, workers>>

Quiet == \A w \in Handlers : wpc[w] = "idle"

\* ... and waits for the handlers, up to the timeout given to Stop.
Wait ==
    /\ pc = "wait"
    /\ \/ Quiet /\ srv' = "nil" /\ pc' = "closePools"
       \/ ~Quiet /\ pc' = "stopFailed" /\ UNCHANGED srv
    /\ UNCHANGED <<failedAt, bgctx, pool, listener, nd, cron, workers>>

\* datasources.stop: pool.Close() refuses further acquisitions ...
Close(d) ==
    /\ pc = "closePools" /\ pool[d] = "open"
    /\ \A e \in Sources : pool[e] # "closing"
    /\ pool' = [pool EXCEPT ![d] = "closing"]
    /\ UNCHANGED <<pc, failedAt, bgctx, listener, nd, cron, srv, workers>>

\* ... and waits for all connections to be released, before the next pool's turn.
Closed(d) ==
    /\ pc = "closePools" /\ pool[d] = "closing" /\ Out(d) = 0
    /\ pool' = [pool EXCEPT ![d] = "closed"]
    /\ UNCHANGED <<pc, failedAt, bgctx, listener, nd, cron, srv, workers>>

Stopped ==
    /\ pc = "closePools" /\ \A d \in Sources : pool[d] = "closed"
    /\ pc' = "stopped"
    /\ UNCHANGED <<failedAt, bgctx, pool, listener, nd, cron, srv, workers>>

StopSteps ==
    \/ StopCron \/ Cancel \/ DispatchersStopped \/ Shutdown \/ Wait \/ Stopped
    \/ \E d \in Sources : StopDispatcher(d) \/ Close(d) \/ Closed(d)

-----------------------------------------------------------------------------
(* Endpoint handlers and jobs: withConn, withTx and scripts.                   *)

Become(w, position) == wpc' = [wpc EXCEPT ![w] = position]
Source(w) == Plan[w][pos[w]]

\* A request or the schedule starts the worker.
Begin(w) ==
    /\ wpc[w] = "idle"
    /\ IF w \in Jobs THEN cron = "running" ELSE srv = "serving"
    /\ Become(w, "acquire") /\ pos' = [pos EXCEPT ![w] = 1]
    /\ UNCHANGED <<server, conns, leaked>>

\* Faulty variant: withConn and acquire ignore bgctx as well.
CtxDone_Never(w) == FALSE

\* The context of the acquisition: withTx uses the background context, and bgctx
\* only for the query.
CtxDone(w) == bgctx = "done" /\ w \notin Tx

\* A connection is free, or can be made. A script's second connection to the same
\* datasource replaces the first one in sctx.conns.
Acquire(w) ==
    /\ wpc[w] = "acquire" /\ ~CtxDone(w)
    /\ pool[Source(w)] = "open" /\ Out(Source(w)) < MaxConns
    /\ conns' = [conns EXCEPT ![w] = @ \cup {Source(w)}]
    /\ leaked' = IF Source(w) \in conns[w] THEN [leaked EXCEPT ![Source(w)] = @ + 1] ELSE leaked
    /\ Become(w, "run")
    /\ UNCHANGED <<server, pos>>

\* sctx.close, or the end of AcquireFunc and BeginTxFunc, releases the connections.
Finish(w) ==
    /\ conns' = [conns EXCEPT ![w] = {}]
    /\ pos' = [pos EXCEPT ![w] = 0]
    /\ Become(w, "idle")
    /\ UNCHANGED <<server, leaked>>

\* The acquisition fails: the context is done, the pool is closed, the datasource's
\* timeout is over or no connection can be made. A script may catch the error.
AcquireErr(w) ==
    /\ wpc[w] = "acquire"
    /\ \/ Finish(w)
       \/ w \in Scripts /\ Become(w, "run") /\ UNCHANGED <<server, pos, conns, leaked>>

AcquireRefused(w) ==
    wpc[w] = "acquire" /\ (CtxDone(w) \/ pool[Source(w)] # "open") /\ AcquireErr(w)

\* A script goes on to its next $sys.acquire.
AcquireNext(w) ==
    /\ wpc[w] = "run" /\ w \in Scripts /\ pos[w] < Len(Plan[w])
    /\ pos' = [pos EXCEPT ![w] = @ + 1]
    /\ Become(w, "acquire")
    /\ UNCHANGED <<server, conns, leaked>>

\* The queries are done, successfully or not.
End(w) == wpc[w] = "run" /\ Finish(w)

Work(w) == Begin(w) \/ Acquire(w) \/ AcquireErr(w) \/ AcquireNext(w) \/ End(w)

Next == Start \/ CallStop \/ StopSteps \/ \E w \in Workers : Work(w)

\* Stop goes on once it was called, and its timeout passes. A query ends after its
\* context is done; before that it may take forever. Scripts are taken to end, and
\* an acquisition to see a free connection, a done context and a closed pool.
Fairness ==
    /\ WF_vars(StopSteps)
    /\ \A w \in Workers :
         /\ WF_vars(Acquire(w))
         /\ WF_vars(AcquireRefused(w))
         /\ WF_vars(bgctx = "done" /\ End(w))

Spec == Init /\ [][Next]_vars
FairSpec == Spec /\ Fairness

-----------------------------------------------------------------------------
(* Properties.                                                                 *)

Clean ==
    /\ \A d \in Sources :
         /\ pool[d] \in {"none", "closed"} /\ Out(d) = 0
         /\ listener[d] # "open" /\ nd[d] # "running"
    /\ cron # "running"

\* When datasources.start fails, no connection is left: neither a pool nor anything
\* that would use one.
FailedConnectIsClean == failedAt = "connect" => Clean

\* When startNotifDispatchers fails for one of several datasources, the connections
\* it has taken for the others are closed; at most the one on which LISTEN failed is
\* left open.
FailedDispatchersLeaveOne ==
    failedAt = "dispatchers" =>
        \A d, e \in Sources : listener[d] = "open" /\ listener[e] = "open" => d = e

\* Once Stop has returned without an error, after a Start that had succeeded, all
\* pools are closed with all connections back, the dispatchers and their connections
\* gone, and no handler runs. Jobs may still run, but none gets a connection again.
StoppedIsClean ==
    pc = "stopped" /\ failedAt = "no" => Clean /\ \A w \in Handlers : wpc[w] = "idle"

\* What a Start that failed in either way, or a Stop that returned nil, leaves
\* behind is what these three say (datasources.start, startNotifDispatchers, Stop).
NothingLeftBehind == FailedConnectIsClean /\ FailedDispatchersLeaveOne /\ StoppedIsClean

\* server.go 153: "The server will wait for up to the specified timeout for database
\* queries to be cancelled and connections closed." Stop returns, whatever handlers,
\* jobs and scripts that wait for each other's connections are doing.
StopReturns == (pc = "stopCron") ~> (pc \in {"stopped", "stopFailed"})

\* Every handler and every job comes to its end after the cancellation of bgctx,
\* including those that acquire a connection for a transaction, which do not see it.
WorkersEnd == (bgctx = "done") ~> [](\A w \in Workers : wpc[w] = "idle")
=============================================================================
