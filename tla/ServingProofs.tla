----------------------------- MODULE ServingProofs -----------------------------
(* The safety properties of ServerLifecycle, for any datasources, pool sizes,     *)
(* endpoints, jobs and scripts, and of NotifWriter, for every Backlog and any      *)
(* number of calls of accept. The first are about the state after Start or Stop    *)
(* has returned; the inductive invariant says what each step of the two leaves     *)
(* behind, and that no connection is out of a pool that is not open. That of the   *)
(* writer says what closeQ knows at each of its steps: the mutex makes the flag    *)
(* qClosed and the state of the channel agree whenever nobody is between           *)
(* close(n.q) and n.qClosed = true.                                                *)
EXTENDS ServerLifecycle, NotifWriter, FiniteSetTheorems, TLAPS

\* Stop is at one of the positions, or has returned after a successful Start.
At(positions) == pc \in positions \/ (pc = "stopped" /\ failedAt = "no")

\* How far Start and Stop have come.
StartInv ==
    /\ pc \in {"connect", "hijack", "jobs", "cron"} => cron = "new"
    /\ pc \in {"connect", "hijack", "jobs", "cron", "http"} => srv = "nil"
    /\ pc = "connect" => \A d \in Sources : pool[d] \in {"none", "open"}
                                            /\ listener[d] = "none" /\ nd[d] = "none"
    /\ pc = "hijack" => \A d \in Sources \ StreamSources : listener[d] = "none"
    /\ pc = "hijack" => \A d, e \in Sources :
         listener[d] = "open" /\ nd[d] # "running" /\ listener[e] = "open" /\ nd[e] # "running" => d = e
    /\ pc = "failed" => failedAt # "no"
    /\ failedAt # "no" => pc \in {"failed", "stopped"} /\ srv = "nil"
    /\ failedAt = "connect" =>
         /\ cron = "new"
         /\ \A d \in Sources : pool[d] \in {"none", "closed"} /\ listener[d] = "none" /\ nd[d] = "none"
    /\ failedAt = "dispatchers" => \A d, e \in Sources :
         listener[d] = "open" /\ listener[e] = "open" => d = e
    /\ failedAt = "no" /\ pc \notin {"connect", "hijack"} =>
         \A d \in Sources : listener[d] = "open" => nd[d] = "running"

StopInv ==
    /\ pc \in {"running", "stopCron", "cancel", "stopDispatchers", "shutdown"} => srv = "serving"
    /\ pc \in {"wait", "stopFailed"} => srv = "shut"
    /\ At({"cancel", "stopDispatchers", "shutdown", "wait", "stopFailed", "closePools"}) =>
         cron = "stopped"
    /\ At({"shutdown", "wait", "stopFailed", "closePools"}) => \A d \in Sources : nd[d] # "running"
    /\ At({"closePools"}) => srv = "nil" /\ Quiet
    /\ At({}) => \A d \in Sources : pool[d] = "closed"

\* Nothing runs before cron or the HTTP server has been started, an idle worker has
\* no connection, and no connection is out of a pool that is not open or closing.
PoolInv ==
    /\ cron = "new" /\ srv = "nil" => \A w \in Workers : wpc[w] = "idle"
    /\ cron = "new" /\ srv = "nil" => \A d \in Sources : leaked[d] = 0
    /\ \A w \in Workers : wpc[w] = "idle" => conns[w] = {}
    /\ \A d \in Sources : pool[d] \in {"none", "closed"} =>
         leaked[d] = 0 /\ \A w \in Workers : d \notin conns[w]

IInv == TypeOK /\ StartInv /\ StopInv /\ PoolInv

-----------------------------------------------------------------------------
\* Out counts the workers that hold a connection of a pool, and those leaked.
LEMMA OutCounts ==
    ASSUME TypeOK, NEW d \in Sources
    PROVE  /\ Out(d) = 0 <=> leaked[d] = 0 /\ \A w \in Workers : d \notin conns[w]
           /\ Out(d) \in Nat
           /\ (\E w \in Workers : d \in conns[w]) => leaked[d] < Out(d)
<1> DEFINE H == {w \in Workers : d \in conns[w]}
<1>1. IsFiniteSet(H)
  BY FinitenessAssumption, FS_Subset
<1>2. Cardinality(H) \in Nat /\ (Cardinality(H) = 0 <=> H = {})
  BY <1>1, FS_CardinalityType, FS_EmptySet
<1>3. leaked[d] \in Nat
  BY ConfigAssumption DEF TypeOK
<1>4. H = {} <=> \A w \in Workers : d \notin conns[w]
  OBVIOUS
<1>5. Out(d) = Cardinality(H) + leaked[d]
  BY DEF Out
<1> QED
  <2> HIDE DEF H
  <2>1. Out(d) \in Nat /\ (Out(d) = 0 <=> leaked[d] = 0 /\ H = {})
    BY ONLY <1>2, <1>3, <1>5
  <2>2. H # {} => leaked[d] < Out(d)
    BY ONLY <1>2, <1>3, <1>5
  <2> QED
    BY <1>4, <2>1, <2>2

\* The steps of Start and Stop leave the workers alone, and conversely.
LEMMA Frames ==
    ASSUME [Next]_vars
    PROVE  \/ UNCHANGED workers /\ (Start \/ CallStop \/ StopSteps \/ UNCHANGED vars)
           \/ UNCHANGED server /\ \E w \in Workers : Work(w)
<1>1. CASE Start
  BY <1>1 DEF Start, Connect, Connected, Hijack, StartDispatcher, Dispatching, SetupJobs, StartCron, StartHTTP
<1>2. CASE CallStop \/ StopSteps
  BY <1>2 DEF CallStop, StopSteps, StopCron, Cancel, StopDispatcher, DispatchersStopped, Shutdown, Wait,
              Close, Closed, Stopped
<1>3. ASSUME NEW w \in Workers, Work(w) PROVE UNCHANGED server
  BY <1>3 DEF Work, Begin, Acquire, AcquireErr, AcquireNext, End, Finish
<1> QED
  BY <1>1, <1>2, <1>3 DEF Next, vars

\* Steps of Start.
LEMMA StartInductive ==
    ASSUME IInv, Start, UNCHANGED workers
    PROVE  IInv'
<1>0. TypeOK /\ StartInv /\ StopInv /\ PoolInv
  BY DEF IInv
<1> USE DEF workers, At, Quiet
<1>1. ASSUME NEW d \in Sources, Connect(d) PROVE IInv'
  <2>1. cron = "new" /\ srv = "nil" /\ failedAt = "no"
    BY <1>0, <1>1 DEF Connect, StartInv
  <2>2. \A e \in Sources : leaked[e] = 0 /\ \A w \in Workers : e \notin conns[w]
    BY <1>0, <2>1 DEF PoolInv
  <2>3. TypeOK'
    <3>1. pool' \in [Sources -> {"none", "open", "closing", "closed"}]
      BY <1>0, <1>1, ZenonT(30) DEF Connect, TypeOK
    <3>2. pc' \in Positions /\ failedAt' \in {"no", "connect", "dispatchers", "jobs", "http"}
      BY <1>0, <1>1 DEF Connect, Fail, TypeOK, Positions
    <3> QED
      BY <1>0, <1>1, <3>1, <3>2 DEF Connect, TypeOK
  <2>4. StartInv' /\ StopInv'
    <3>1. \A e \in Sources : pool[e] \in {"none", "open"} /\ listener[e] = "none" /\ nd[e] = "none"
      BY <1>0, <1>1 DEF Connect, StartInv
    <3>2. UNCHANGED <<listener, nd, cron, srv>>
      BY <1>1 DEF Connect
    <3>3. CASE pool' = [pool EXCEPT ![d] = "open"] /\ UNCHANGED <<pc, failedAt>>
      <4>1. \A e \in Sources : pool'[e] \in {"none", "open"}
        BY <1>0, <3>1, <3>3 DEF TypeOK
      <4> QED
        BY <1>0, <1>1, <2>1, <3>1, <3>2, <3>3, <4>1 DEF Connect, StartInv, StopInv
    <3>4. CASE /\ pool' = [e \in Sources |-> IF pool[e] = "open" THEN "closed" ELSE pool[e]]
               /\ Fail("connect")
      <4>1. \A e \in Sources : pool'[e] \in {"none", "closed"}
        BY <3>1, <3>4
      <4> QED
        BY <2>1, <3>1, <3>2, <3>4, <4>1 DEF Fail, StartInv, StopInv
    <3> QED
      BY <1>1, <3>3, <3>4 DEF Connect
  <2>5. PoolInv'
    BY <1>0, <1>1, <2>2 DEF Connect, PoolInv
  <2> QED
    BY <2>3, <2>4, <2>5 DEF IInv
<1>2. CASE Connected
  <2>1. TypeOK' /\ PoolInv'
    BY <1>0, <1>2 DEF Connected, TypeOK, Positions, PoolInv
  <2>2. StartInv' /\ StopInv'
    BY <1>0, <1>2 DEF Connected, StartInv, StopInv
  <2> QED
    BY <2>1, <2>2 DEF IInv
<1>3. ASSUME NEW d \in StreamSources, Hijack(d) PROVE IInv'
  <2>1. TypeOK' /\ PoolInv'
    <3>1. listener' \in [Sources -> {"none", "open", "closed"}]
      BY <1>0, <1>3, ConfigAssumption, Zenon DEF Hijack, CloseConns, TypeOK
    <3>2. pc' \in Positions /\ failedAt' \in {"no", "connect", "dispatchers", "jobs", "http"}
      BY <1>0, <1>3 DEF Hijack, Fail, TypeOK, Positions
    <3> QED
      BY <1>0, <1>3, <3>1, <3>2 DEF Hijack, TypeOK, PoolInv
  <2>2. StartInv' /\ StopInv'
    <3>0. /\ pc = "hijack" /\ failedAt = "no" /\ cron = "new" /\ srv = "nil" /\ d \in Sources
          /\ UNCHANGED <<pool, nd, cron, srv>>
          /\ \A e \in Sources : listener[e] = "open" => nd[e] = "running"
          /\ \A e \in Sources \ StreamSources : listener[e] = "none"
      BY <1>0, <1>3, ConfigAssumption DEF Hijack, StartInv
    <3>1. CASE listener' = [listener EXCEPT ![d] = "open"] /\ UNCHANGED <<pc, failedAt>>
      <4>1. \A e \in Sources : listener'[e] = IF e = d THEN "open" ELSE listener[e]
        BY <1>0, <3>1 DEF TypeOK
      <4> QED
        BY <3>0, <3>1, <4>1 DEF StartInv, StopInv
    <3>2. CASE listener' = CloseConns(listener) /\ Fail("dispatchers")
      <4>1. \A e \in Sources : listener'[e] # "open"
        BY <3>0, <3>2 DEF CloseConns
      <4> QED
        BY <3>0, <3>2, <4>1 DEF Fail, StartInv, StopInv
    <3> QED
      BY <1>3, <3>1, <3>2 DEF Hijack
  <2> QED
    BY <2>1, <2>2 DEF IInv
<1>4. ASSUME NEW d \in StreamSources, StartDispatcher(d) PROVE IInv'
  <2>1. TypeOK' /\ PoolInv'
    <3>1. listener' \in [Sources -> {"none", "open", "closed"}]
          /\ nd' \in [Sources -> {"none", "running", "stopped"}]
      BY <1>0, <1>4, ConfigAssumption, Zenon DEF StartDispatcher, CloseConns, TypeOK
    <3>2. pc' \in Positions /\ failedAt' \in {"no", "connect", "dispatchers", "jobs", "http"}
      BY <1>0, <1>4 DEF StartDispatcher, Fail, TypeOK, Positions
    <3> QED
      BY <1>0, <1>4, <3>1, <3>2 DEF StartDispatcher, TypeOK, PoolInv
  <2>2. StartInv' /\ StopInv'
    <3>0. /\ pc = "hijack" /\ failedAt = "no" /\ cron = "new" /\ srv = "nil" /\ d \in Sources
          /\ UNCHANGED <<pool, cron, srv>>
          /\ \A e \in Sources \ StreamSources : listener[e] = "none"
          /\ \A e, f \in Sources :
               listener[e] = "open" /\ nd[e] # "running" /\ listener[f] = "open" /\ nd[f] # "running" => e = f
      BY <1>0, <1>4, ConfigAssumption DEF StartDispatcher, StartInv
    <3>1. CASE nd' = [nd EXCEPT ![d] = "running"] /\ UNCHANGED <<pc, failedAt, listener>>
      <4>1. \A e \in Sources : nd'[e] = IF e = d THEN "running" ELSE nd[e]
        BY <1>0, <3>1 DEF TypeOK
      <4> QED
        BY <3>0, <3>1, <4>1 DEF StartInv, StopInv
    <3>2. CASE listener' = CloseConns(listener) /\ Fail("dispatchers") /\ UNCHANGED nd
      <4>1. \A e \in Sources : listener'[e] = "open" => listener[e] = "open" /\ nd[e] # "running"
        BY <3>2 DEF CloseConns
      <4> QED
        BY <3>0, <3>2, <4>1 DEF Fail, StartInv, StopInv
    <3> QED
      BY <1>4, <3>1, <3>2 DEF StartDispatcher
  <2> QED
    BY <2>1, <2>2 DEF IInv
<1>5. CASE Dispatching
  <2>1. TypeOK' /\ PoolInv'
    BY <1>0, <1>5 DEF Dispatching, TypeOK, Positions, PoolInv
  <2>2. \A d \in Sources : listener[d] = "open" => nd[d] = "running"
    BY <1>0, <1>5 DEF Dispatching, StartInv
  <2>3. StartInv' /\ StopInv'
    BY <1>0, <1>5, <2>2 DEF Dispatching, StartInv, StopInv
  <2> QED
    BY <2>1, <2>3 DEF IInv
<1>6. CASE SetupJobs \/ StartCron \/ StartHTTP
  <2>1. TypeOK' /\ PoolInv'
    BY <1>0, <1>6 DEF SetupJobs, StartCron, StartHTTP, Fail, TypeOK, Positions, PoolInv
  <2>2. StartInv' /\ StopInv'
    BY <1>0, <1>6 DEF SetupJobs, StartCron, StartHTTP, Fail, StartInv, StopInv
  <2> QED
    BY <2>1, <2>2 DEF IInv
<1> QED
  BY <1>1, <1>2, <1>3, <1>4, <1>5, <1>6 DEF Start

\* Steps of Stop. A pool counts as closed only when all its connections are back.
LEMMA StopInductive ==
    ASSUME IInv, CallStop \/ StopSteps, UNCHANGED workers
    PROVE  IInv'
<1>0. TypeOK /\ StartInv /\ StopInv /\ PoolInv
  BY DEF IInv
<1> USE DEF workers, At, Quiet
<1>1. CASE CallStop \/ StopCron \/ Cancel \/ DispatchersStopped
  <2>1. TypeOK' /\ PoolInv'
    BY <1>0, <1>1 DEF CallStop, StopCron, Cancel, DispatchersStopped, TypeOK, Positions, PoolInv
  <2>2. StartInv' /\ StopInv'
    BY <1>0, <1>1 DEF CallStop, StopCron, Cancel, DispatchersStopped, StartInv, StopInv
  <2> QED
    BY <2>1, <2>2 DEF IInv
<1>2. CASE Shutdown \/ Wait \/ Stopped
  <2>1. TypeOK' /\ PoolInv'
    BY <1>0, <1>2 DEF Shutdown, Wait, Stopped, TypeOK, Positions, PoolInv, StopInv
  <2>2. StartInv' /\ StopInv'
    BY <1>0, <1>2 DEF Shutdown, Wait, Stopped, StartInv, StopInv
  <2> QED
    BY <2>1, <2>2 DEF IInv
<1>3. ASSUME NEW d \in Sources, StopDispatcher(d) PROVE IInv'
  <2>1. TypeOK' /\ PoolInv'
    BY <1>0, <1>3 DEF StopDispatcher, TypeOK, Positions, PoolInv
  <2>2. StartInv' /\ StopInv'
    BY <1>0, <1>3 DEF StopDispatcher, TypeOK, StartInv, StopInv
  <2> QED
    BY <2>1, <2>2 DEF IInv
<1>4. ASSUME NEW d \in Sources, Close(d) \/ Closed(d) PROVE IInv'
  <2>1. TypeOK'
    BY <1>0, <1>4, Zenon DEF Close, Closed, TypeOK, Positions
  <2>2. StartInv' /\ StopInv'
    BY <1>0, <1>4 DEF Close, Closed, StartInv, StopInv
  <2>3. Closed(d) => leaked[d] = 0 /\ \A w \in Workers : d \notin conns[w]
    BY <1>0, OutCounts DEF Closed
  <2>4. PoolInv'
    BY <1>0, <1>4, <2>3 DEF Close, Closed, TypeOK, PoolInv
  <2> QED
    BY <2>1, <2>2, <2>4 DEF IInv
<1> QED
  BY <1>1, <1>2, <1>3, <1>4 DEF StopSteps

\* Steps of the workers.
LEMMA WorkInductive ==
    ASSUME IInv, NEW w \in Workers, Work(w), UNCHANGED server
    PROVE  IInv'
<1>0. TypeOK /\ StartInv /\ StopInv /\ PoolInv
  BY DEF IInv
<1> USE DEF server, At
<1>1. StartInv'
  BY <1>0 DEF StartInv
<1>2. Plan[w] \in Seq(Sources) /\ Len(Plan[w]) \in Nat \ {0}
  BY ConfigAssumption
<1>3. (cron = "new" /\ srv = "nil") => ~Work(w)
  BY <1>0 DEF PoolInv, Work, Begin, Acquire, AcquireErr, AcquireNext, End
<1>4. CASE Begin(w)
  <2>1. TypeOK'
    BY <1>0, <1>2, <1>4 DEF Begin, Become, TypeOK
  <2>2. StopInv'
    BY <1>0, <1>4 DEF Begin, Become, TypeOK, StopInv, Quiet, Handlers
  <2>3. PoolInv'
    BY <1>0, <1>3, <1>4 DEF Begin, Become, TypeOK, PoolInv
  <2> QED
    BY <1>1, <2>1, <2>2, <2>3 DEF IInv
<1>5. CASE Acquire(w)
  <2>6. pos[w] \in 1..Len(Plan[w])
    <3>1. pos[w] \in Nat /\ pos[w] <= Len(Plan[w]) /\ pos[w] > 0
      BY <1>0, <1>5 DEF Acquire, TypeOK
    <3> QED
      BY ONLY <1>2, <3>1
  <2> PICK d \in Sources : d = Source(w)
    BY <1>2, <2>6 DEF Source
  <2>1. /\ pool[d] = "open" /\ Out(d) < MaxConns /\ wpc[w] = "acquire" /\ pos' = pos
        /\ conns' = [conns EXCEPT ![w] = conns[w] \cup {d}]
        /\ leaked' = IF d \in conns[w] THEN [leaked EXCEPT ![d] = @ + 1] ELSE leaked
        /\ wpc' = [wpc EXCEPT ![w] = "run"]
    BY <1>5 DEF Acquire, Become
  <2>2. leaked'[d] \in 0..MaxConns /\ \A e \in Sources \ {d} : leaked'[e] = leaked[e]
    <3>1. leaked[d] \in Nat /\ leaked[d] <= MaxConns /\ MaxConns \in Nat
      BY <1>0, ConfigAssumption DEF TypeOK
    <3>2. d \in conns[w] => leaked[d] < Out(d) /\ Out(d) \in Nat
      BY <1>0, OutCounts
    <3>3. d \in conns[w] => leaked[d] + 1 <= MaxConns
      BY ONLY <2>1, <3>1, <3>2
    <3> QED
      BY <1>0, <2>1, <3>1, <3>3 DEF TypeOK
  <2>3. TypeOK'
    <3>1. leaked' \in [Sources -> 0..MaxConns]
      BY <1>0, <2>1, <2>2 DEF TypeOK
    <3> QED
      BY <1>0, <2>1, <3>1 DEF TypeOK
  <2>4. StopInv'
    BY <1>0, <2>1 DEF TypeOK, StopInv, Quiet, Handlers
  <2>5. PoolInv'
    BY <1>0, <1>3, <2>1, <2>2 DEF TypeOK, PoolInv
  <2> QED
    BY <1>1, <2>3, <2>4, <2>5 DEF IInv
<1>6. CASE wpc[w] # "idle" /\ Finish(w)
  <2>1. TypeOK'
    BY <1>0, <1>6, <1>2 DEF Finish, Become, TypeOK
  <2>2. StopInv' /\ PoolInv'
    BY <1>0, <1>6 DEF Finish, Become, TypeOK, StopInv, PoolInv, Quiet, Handlers
  <2> QED
    BY <1>1, <2>1, <2>2 DEF IInv
<1>7. CASE wpc[w] = "acquire" /\ Become(w, "run") /\ UNCHANGED <<pos, conns, leaked>>
  <2>1. TypeOK'
    BY <1>0, <1>7 DEF Become, TypeOK
  <2>2. StopInv' /\ PoolInv'
    BY <1>0, <1>3, <1>7 DEF Become, TypeOK, StopInv, PoolInv, Quiet, Handlers
  <2> QED
    BY <1>1, <2>1, <2>2 DEF IInv
<1>8. CASE AcquireNext(w)
  <2>1. TypeOK'
    BY <1>0, <1>2, <1>8 DEF AcquireNext, Become, TypeOK
  <2>2. StopInv' /\ PoolInv'
    BY <1>0, <1>3, <1>8 DEF AcquireNext, Become, TypeOK, StopInv, PoolInv, Quiet, Handlers
  <2> QED
    BY <1>1, <2>1, <2>2 DEF IInv
<1> QED
  BY <1>4, <1>5, <1>6, <1>7, <1>8 DEF Work, AcquireErr, End

\* The initial state.
LEMMA InitIInv == Init => IInv
<1> SUFFICES ASSUME Init PROVE IInv
  OBVIOUS
<1>1. TypeOK
  BY ConfigAssumption DEF Init, TypeOK, Positions
<1>2. StartInv /\ StopInv /\ PoolInv
  BY DEF Init, StartInv, StopInv, PoolInv, At
<1> QED
  BY <1>1, <1>2 DEF IInv

\* IInv is an invariant of the server.
THEOREM LifecycleInvariant == Spec => []IInv
<1>1. IInv /\ [Next]_vars => IInv'
  <2> SUFFICES ASSUME IInv, [Next]_vars PROVE IInv'
    OBVIOUS
  <2>1. CASE UNCHANGED vars
    BY <2>1 DEF IInv, TypeOK, StartInv, StopInv, PoolInv, At, Quiet, vars, server, workers
  <2> QED
    BY <2>1, Frames, StartInductive, StopInductive, WorkInductive
<1> QED
  BY <1>1, InitIInv, PTL DEF Spec

\* Types are kept for every configuration; in particular no more connections than
\* the pool has are lost to scripts that acquire one twice.
THEOREM LifecycleTypeOK == Spec => []TypeOK
<1>1. IInv => TypeOK
  BY DEF IInv
<1> QED
  BY <1>1, LifecycleInvariant, PTL

\* A failure to connect to any of any number of datasources leaves nothing behind.
THEOREM LifecycleFailedConnectIsClean == Spec => []FailedConnectIsClean
<1>1. IInv => FailedConnectIsClean
  <2> SUFFICES ASSUME IInv, failedAt = "connect" PROVE Clean
    BY DEF FailedConnectIsClean
  <2>1. cron = "new" /\ \A d \in Sources :
          pool[d] \in {"none", "closed"} /\ listener[d] = "none" /\ nd[d] = "none"
    BY DEF IInv, StartInv
  <2>2. \A d \in Sources : Out(d) = 0
    BY <2>1, OutCounts DEF IInv, PoolInv
  <2> QED
    BY <2>1, <2>2 DEF Clean
<1> QED
  BY <1>1, LifecycleInvariant, PTL

\* Of any number of connections taken for notifications, a failure to set them all up
\* leaves at most one open.
THEOREM LifecycleFailedDispatchersLeaveOne == Spec => []FailedDispatchersLeaveOne
<1>1. IInv => FailedDispatchersLeaveOne
  BY DEF IInv, StartInv, FailedDispatchersLeaveOne
<1> QED
  BY <1>1, LifecycleInvariant, PTL

\* A Stop that returns nil has closed everything, whatever handlers, jobs and
\* scripts were doing with the connections when it was called.
THEOREM LifecycleStoppedIsClean == Spec => []StoppedIsClean
<1>1. IInv => StoppedIsClean
  <2> SUFFICES ASSUME IInv, pc = "stopped", failedAt = "no"
               PROVE  Clean /\ \A w \in Handlers : wpc[w] = "idle"
    BY DEF StoppedIsClean
  <2>1. /\ cron = "stopped" /\ Quiet
        /\ \A d \in Sources : nd[d] # "running" /\ pool[d] = "closed"
    BY DEF IInv, StopInv, At
  <2>2. \A d \in Sources : listener[d] # "open"
    BY <2>1 DEF IInv, StartInv
  <2>3. \A d \in Sources : Out(d) = 0
    BY <2>1, OutCounts DEF IInv, PoolInv
  <2> QED
    BY <2>1, <2>2, <2>3 DEF Clean, Quiet
<1> QED
  BY <1>1, LifecycleInvariant, PTL

\* What is left behind by a Start that failed or a Stop that returned nil, for any
\* datasources, pool sizes, handlers, jobs and scripts.
THEOREM LifecycleNothingLeftBehind == Spec => []NothingLeftBehind
  BY LifecycleFailedConnectIsClean, LifecycleFailedDispatchersLeaveOne, LifecycleStoppedIsClean, PTL
     DEF NothingLeftBehind

-----------------------------------------------------------------------------
\* Which positions each goroutine can be in.
PlaceInv ==
    /\ gpc["dispatcher"] \notin {"loop", "done"}
    /\ gpc["handler"] # "accept"
    /\ \A g \in Goroutines : gpc[g] # "panicked"

\* The mutex is held exactly by the goroutine in the critical section.
MutexInv == \A g \in Goroutines : gpc[g] \in Critical <=> qMtx = g

\* The flag and the channel.
FlagInv ==
    /\ \A g \in Goroutines :
         /\ gpc[g] = "close" => ~closed /\ ~qClosed
         /\ gpc[g] = "set" => closed /\ ~qClosed
         /\ gpc[g] = "unlock" => closed /\ qClosed
    /\ (\A g \in Goroutines : gpc[g] # "set") => (closed <=> qClosed)

\* As long as the handler is in its loop, only an overflow leads to a close.
OverflowInv ==
    gpc["handler"] = "loop" /\ (closed \/ gpc["dispatcher"] # "accept") => refused

\* As long as accept may still send, nothing has been refused.
OfferInv ==
    ~closed /\ gpc["dispatcher"] = "accept" => offered = taken + Len(q)

WriterInv ==
    /\ WriterTypeOK
    /\ PlaceInv
    /\ MutexInv
    /\ FlagInv
    /\ OverflowInv
    /\ OfferInv
    /\ CloseOnce
    /\ NoGap
    /\ TooSlowIsOverflow
    /\ DoneIsClosed

USE BacklogAssumption, MaxOffersAssumption DEF Goroutines, Critical, WriterPositions

\* The initial state of a new writer satisfies the inductive invariant.
LEMMA InitWriterInv == WriterInit => WriterInv
<1> SUFFICES ASSUME WriterInit PROVE WriterInv
  OBVIOUS
<1>1. WriterTypeOK
  <2>1. gpc \in [Goroutines -> WriterPositions]
    BY DEF WriterInit
  <2>2. q \in Seq(Nat) /\ Len(q) <= Backlog
    BY DEF WriterInit
  <2> QED
    BY <2>1, <2>2, Zenon DEF WriterInit, WriterTypeOK
<1>2. PlaceInv /\ CloseOnce /\ DoneIsClosed
  BY DEF WriterInit, PlaceInv, CloseOnce, DoneIsClosed
<1>4. MutexInv
  BY DEF WriterInit, MutexInv
<1>5. FlagInv
  BY DEF WriterInit, FlagInv
<1>3. OverflowInv /\ OfferInv /\ NoGap /\ TooSlowIsOverflow
  BY DEF WriterInit, OverflowInv, OfferInv, NoGap, TooSlowIsOverflow
<1> QED
  BY <1>1, <1>2, <1>3, <1>4, <1>5 DEF WriterInv

\* A call of accept, up to the point where closeQ is called, preserves it.
LEMMA AcceptWriterInv == WriterInv /\ Accept => WriterInv'
<1> SUFFICES ASSUME WriterInv, Accept PROVE WriterInv'
  OBVIOUS
<1> USE DEF WriterInv, WriterTypeOK, Goto
<1>0. /\ gpc["dispatcher"] = "accept"
      /\ offered' = offered + 1
      /\ UNCHANGED <<closed, qClosed, qMtx, taken, tooSlow>>
  BY DEF Accept, Select
<1>1. CASE ~closed /\ Len(q) < Backlog
  <2>1. q' = Append(q, offered + 1) /\ UNCHANGED <<refused, gpc>>
    BY <1>0, <1>1 DEF Accept, Select
  <2>2. WriterTypeOK'
    BY <1>0, <1>1, <2>1
  <2>3. (PlaceInv /\ MutexInv /\ FlagInv /\ CloseOnce /\ DoneIsClosed)'
    BY <1>0, <2>1 DEF PlaceInv, MutexInv, FlagInv, CloseOnce, DoneIsClosed
  <2>4. (OverflowInv /\ TooSlowIsOverflow)'
    BY <1>0, <2>1 DEF OverflowInv, TooSlowIsOverflow
  <2>5. OfferInv' /\ NoGap'
    BY <1>0, <1>1, <2>1 DEF OfferInv, NoGap
  <2> QED
    BY <2>2, <2>3, <2>4, <2>5
<1>2. CASE closed \/ ~(Len(q) < Backlog)
  <2>1. /\ gpc' = [gpc EXCEPT !["dispatcher"] = "lock"]
        /\ UNCHANGED q
        /\ refused' \in BOOLEAN
        /\ refused => refused'
        /\ ~closed => refused'
    <3>1. CASE closed
      BY <1>0, <3>1 DEF Accept, Select
    <3>2. CASE ~closed
      <4>1. refused' = (refused \/ Len(q) >= Backlog) /\ UNCHANGED q
        BY <1>2, <3>2 DEF Accept, Select
      <4>2. Len(q) >= Backlog
        BY <1>2, <3>2
      <4>3. gpc' = [gpc EXCEPT !["dispatcher"] = "lock"]
        BY <1>2, <3>2 DEF Accept, Select
      <4> QED
        BY <3>2, <4>1, <4>2, <4>3, Zenon
    <3> QED
      BY <3>1, <3>2
  <2>2. WriterTypeOK'
    BY <1>0, <1>2, <2>1
  <2>3. (PlaceInv /\ MutexInv /\ FlagInv /\ CloseOnce /\ DoneIsClosed)'
    BY <1>0, <2>1 DEF PlaceInv, MutexInv, FlagInv, CloseOnce, DoneIsClosed
  <2>4. (OverflowInv /\ TooSlowIsOverflow)'
    BY <1>0, <2>1 DEF OverflowInv, TooSlowIsOverflow
  <2>5. OfferInv' /\ NoGap'
    BY <1>0, <1>2, <2>1 DEF OfferInv, NoGap
  <2> QED
    BY <2>2, <2>3, <2>4, <2>5
<1> QED
  BY <1>1, <1>2

\* So does every step of closeQ, whoever calls it.
LEMMA CloseQWriterInv == ASSUME NEW g \in Goroutines, WriterInv, CloseQ(g) PROVE WriterInv'
<1> USE DEF WriterInv
<1>1. CASE Lock(g)
  BY <1>1 DEF Lock, Goto, WriterTypeOK, PlaceInv, MutexInv, FlagInv, OverflowInv, OfferInv,
              CloseOnce, NoGap, TooSlowIsOverflow, DoneIsClosed
<1>2. CASE Test(g)
  BY <1>2 DEF Test, Goto, WriterTypeOK, PlaceInv, MutexInv, FlagInv, OverflowInv, OfferInv,
              CloseOnce, NoGap, TooSlowIsOverflow, DoneIsClosed
<1>3. CASE CloseCh(g)
  BY <1>3 DEF CloseCh, Goto, WriterTypeOK, PlaceInv, MutexInv, FlagInv, OverflowInv, OfferInv,
              CloseOnce, NoGap, TooSlowIsOverflow, DoneIsClosed
<1>4. CASE SetFlag(g)
  BY <1>4 DEF SetFlag, Goto, WriterTypeOK, PlaceInv, MutexInv, FlagInv, OverflowInv, OfferInv,
              CloseOnce, NoGap, TooSlowIsOverflow, DoneIsClosed
<1>5. CASE Unlock(g)
  BY <1>5 DEF Unlock, Goto, Return, WriterTypeOK, PlaceInv, MutexInv, FlagInv, OverflowInv, OfferInv,
              CloseOnce, NoGap, TooSlowIsOverflow, DoneIsClosed
<1> QED
  BY <1>1, <1>2, <1>3, <1>4, <1>5 DEF CloseQ

\* So does every step of the loop.
LEMMA LoopWriterInv == WriterInv /\ (Receive \/ SeeClosed \/ Leave) => WriterInv'
<1> SUFFICES ASSUME WriterInv, Receive \/ SeeClosed \/ Leave PROVE WriterInv'
  OBVIOUS
<1> USE DEF WriterInv
<1>1. CASE Receive
  <2> USE <1>1 DEF Receive, WriterTypeOK
  <2>1. WriterTypeOK'
    OBVIOUS
  <2>2. (PlaceInv /\ MutexInv /\ FlagInv /\ CloseOnce /\ DoneIsClosed)'
    BY DEF PlaceInv, MutexInv, FlagInv, CloseOnce, DoneIsClosed
  <2>3. (OverflowInv /\ TooSlowIsOverflow)'
    BY DEF OverflowInv, TooSlowIsOverflow
  <2>4. OfferInv' /\ NoGap'
    BY DEF OfferInv, NoGap
  <2> QED
    BY <2>1, <2>2, <2>3, <2>4
<1>2. CASE SeeClosed
  BY <1>2 DEF SeeClosed, Goto, WriterTypeOK, PlaceInv, MutexInv, FlagInv, OverflowInv, OfferInv,
              CloseOnce, NoGap, TooSlowIsOverflow, DoneIsClosed
<1>3. CASE Leave
  BY <1>3 DEF Leave, Goto, WriterTypeOK, PlaceInv, MutexInv, FlagInv, OverflowInv, OfferInv,
              CloseOnce, NoGap, TooSlowIsOverflow, DoneIsClosed
<1> QED
  BY <1>1, <1>2, <1>3

\* WriterInv is an invariant of the writer.
LEMMA WriterInductive == WriterSpec => []WriterInv
<1>1. WriterInv /\ [WriterNext]_writerVars => WriterInv'
  <2> SUFFICES ASSUME WriterInv, [WriterNext]_writerVars PROVE WriterInv'
    OBVIOUS
  <2>1. CASE WriterNext
    BY <2>1, AcceptWriterInv, CloseQWriterInv, LoopWriterInv DEF WriterNext
  <2>2. CASE UNCHANGED writerVars
    BY <2>2 DEF writerVars, WriterInv, WriterTypeOK, PlaceInv, MutexInv, FlagInv, OverflowInv, OfferInv,
                CloseOnce, NoGap, TooSlowIsOverflow, DoneIsClosed
  <2> QED
    BY <2>1, <2>2
<1> QED
  BY InitWriterInv, <1>1, PTL DEF WriterSpec

\* closeQ never closes the channel twice, for any queue capacity and any
\* interleaving of the dispatcher's accept with the handler's deferred function.
THEOREM WriterClosesOnce == WriterSpec => []CloseOnce
  BY WriterInductive, PTL DEF WriterInv

\* The queue holds the offers that follow the last one received, without a gap.
THEOREM WriterHasNoGap == WriterSpec => []NoGap
  BY WriterInductive, PTL DEF WriterInv

\* errTooSlow is returned only after an overflow.
THEOREM WriterTooSlowIsOverflow == WriterSpec => []TooSlowIsOverflow
  BY WriterInductive, PTL DEF WriterInv

\* A writer whose loop has returned is closed, and collects nothing more.
THEOREM WriterDoneIsClosed == WriterSpec => []DoneIsClosed
  BY WriterInductive, PTL DEF WriterInv

\* The four together: the queue of a stream is sound for any capacity and any
\* number of offers.
THEOREM WriterIsSound == WriterSpec => []WriterSound
  BY WriterInductive, PTL DEF WriterInv, WriterSound
=============================================================================
