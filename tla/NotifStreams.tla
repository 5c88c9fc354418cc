---------------------------- MODULE NotifStreams -----------------------------
(* The notification streams of one datasource (streams.go): the goroutine that  *)
(* fetches notifications from the PostgreSQL connection, the goroutine that     *)
(* dispatches them to the writers of the stream clients, the HTTP handlers that *)
(* register a writer, serve it and unregister it, and notifDispatcher.stop as   *)
(* APIServer.Stop calls it. Every channel operation of Go is an action; the     *)
(* inside of closeQ, which is protected by a mutex, is one step here (see       *)
(* NotifWriter).                                                                *)
EXTENDS Naturals, Sequences

CONSTANTS
    Clients,      \* requests to stream endpoints, each with its notifWriter
    WS,           \* the clients of websocket streams; the others are SSE streams
    Channels,     \* PostgreSQL channels the dispatcher LISTENs to
    StreamChan,   \* the channel of each client's stream
    Backlog,      \* notifWriterBacklog: capacity of a writer's q
    InCap,        \* capacity of nd.in
    CmdCap,       \* capacity of nd.cmd
    MaxNotifs     \* bound on the notifications sent on one channel

ASSUME ClientsAssumption ==
    /\ WS \subseteq Clients
    /\ StreamChan \in [Clients -> Channels]
    /\ "nil" \notin Clients   \* the writer of a command that has none
ASSUME CapacityAssumption ==
    /\ Backlog \in Nat \ {0}
    /\ InCap \in Nat \ {0}
    /\ CmdCap \in Nat \ {0}
    /\ MaxNotifs \in Nat

VARIABLES
    \* the connection to PostgreSQL
    sent,      \* number of notifications sent on each channel
    wire,      \* notifications not yet read from the connection
    conn,      \* "open", "lost" (by the network or the server) or "closed" (by stop)
    \* notifDispatcher
    in,        \* contents of nd.in
    cmd,       \* contents of nd.cmd
    fpc,       \* fetcher: "wait", "send", "gone" or "panicked"
    fnotif,    \* the notification the fetcher holds
    dpc,       \* dispatcher: "select", "range", "closeQ" or "gone"
    dnotif,    \* the notification being dispatched
    dpos,      \* index in c2ws of the writer to serve next
    c2ws,      \* channel -> writers, in order of registration
    \* APIServer.Stop and notifDispatcher.stop
    spc,
    \* handlers and their writers
    hpc,       \* position of the handler
    q,         \* contents of the writer's channel q
    qClosed,   \* q is closed
    held,      \* the payload being written to the client
    gone,      \* the websocket's reader has ended: its context is cancelled
    ret,       \* what loopWS or loopSSE returned
    \* history
    log,       \* notifications dispatched on each channel
    joined,    \* the dispatcher has registered the writer
    start,     \* notifications dispatched on the channel before that
    got        \* what has been written to the client

pg == <<sent, wire, conn>>
fetcherVars == <<fpc, fnotif>>
dispatcherVars == <<dpc, dnotif, dpos, c2ws, log, joined, start>>
handlerVars == <<hpc, held, gone, ret, got>>
queues == <<q, qClosed>>
vars == <<pg, in, cmd, fetcherVars, dispatcherVars, spc, handlerVars, queues>>

Notifs == [chan : Channels, n : 1..MaxNotifs]
NoNotif == [chan |-> "none", n |-> 0]

\* notifDisptacherCmd; the channel is that of the writer's client.
Cmds == [act : {"register", "unregister"}, writer : Clients]
          \cup [act : {"stop"}, writer : {"nil"}]

StopSteps == {"run", "cancelled", "sendStop", "wait", "closeCmd", "closeIn",
              "stopped", "shut"}

HandlerSteps == {"idle", "register", "open", "loop", "write", "closing",
                 "unregister", "done", "panicked"}

PipelineTypes ==
    /\ sent \in [Channels -> 0..MaxNotifs]
    /\ wire \in Seq(Notifs)
    /\ conn \in {"open", "lost", "closed"}
    /\ in \in Seq(Notifs) /\ Len(in) <= InCap
    /\ fpc \in {"wait", "send", "gone", "panicked"}
    /\ fnotif \in Notifs \cup {NoNotif}
    /\ fpc = "send" => fnotif \in Notifs

DispatcherTypes ==
    /\ dpc \in {"select", "range", "closeQ", "gone"}
    /\ dnotif \in Notifs \cup {NoNotif}
    /\ dpos \in Nat \ {0}
    /\ c2ws \in [Channels -> Seq(Clients)]
    /\ dpc \in {"range", "closeQ"} => dnotif \in Notifs
    /\ dpc = "closeQ" => dpos <= Len(c2ws[dnotif.chan])

CmdTypes == spc \in StopSteps /\ cmd \in Seq(Cmds) /\ Len(cmd) <= CmdCap

QueueTypes ==
    /\ q \in [Clients -> Seq(1..MaxNotifs)]
    /\ qClosed \in [Clients -> BOOLEAN]
    /\ \A c \in Clients : Len(q[c]) <= Backlog

HandlerTypes ==
    /\ hpc \in [Clients -> HandlerSteps]
    /\ held \in [Clients -> 0..MaxNotifs]
    /\ gone \in [Clients -> BOOLEAN]
    /\ ret \in [Clients -> {"none", "nil", "error", "canceled", "tooSlow"}]

HistoryTypes ==
    /\ log \in [Channels -> Seq(1..MaxNotifs)]
    /\ joined \in [Clients -> BOOLEAN]
    /\ start \in [Clients -> Nat]
    /\ got \in [Clients -> Seq(0..MaxNotifs)]

TypeOK ==
    /\ PipelineTypes
    /\ DispatcherTypes
    /\ CmdTypes
    /\ QueueTypes
    /\ HandlerTypes
    /\ HistoryTypes

\* notifDispatcher.start has returned: both goroutines run, nobody is registered.
Init ==
    /\ sent = [ch \in Channels |-> 0]
    /\ wire = <<>>
    /\ conn = "open"
    /\ in = <<>>
    /\ cmd = <<>>
    /\ fpc = "wait"
    /\ fnotif = NoNotif
    /\ dpc = "select"
    /\ dnotif = NoNotif
    /\ dpos = 1
    /\ c2ws = [ch \in Channels |-> <<>>]
    /\ spc = "run"
    /\ hpc = [c \in Clients |-> "idle"]
    /\ q = [c \in Clients |-> <<>>]
    /\ qClosed = [c \in Clients |-> FALSE]
    /\ held = [c \in Clients |-> 0]
    /\ gone = [c \in Clients |-> FALSE]
    /\ ret = [c \in Clients |-> "none"]
    /\ log = [ch \in Channels |-> <<>>]
    /\ joined = [c \in Clients |-> FALSE]
    /\ start = [c \in Clients |-> 0]
    /\ got = [c \in Clients |-> <<>>]

\* What stop has closed so far, and whether bgctx is cancelled.
CmdClosed == spc \in {"closeIn", "stopped", "shut"}
InClosed == spc \in {"stopped", "shut"}
BgDone == spc # "run"

\* The context of loopWS is also cancelled when the websocket's reader ends.
CtxDone(c) == BgDone \/ (c \in WS /\ gone[c])

-----------------------------------------------------------------------------
(* PostgreSQL and the network.                                                 *)

\* A transaction that called NOTIFY commits.
Notify(ch) ==
    /\ conn = "open"
    /\ sent[ch] < MaxNotifs
    /\ sent' = [sent EXCEPT ![ch] = @ + 1]
    /\ wire' = Append(wire, [chan |-> ch, n |-> sent[ch] + 1])
    /\ UNCHANGED <<conn, in, cmd, fetcherVars, dispatcherVars, spc, handlerVars, queues>>

ConnLost ==
    /\ conn = "open"
    /\ conn' = "lost"
    /\ UNCHANGED <<sent, wire, in, cmd, fetcherVars, dispatcherVars, spc, handlerVars, queues>>

-----------------------------------------------------------------------------
(* fetcher.                                                                    *)

\* WaitForNotification returns a notification.
Fetch ==
    /\ fpc = "wait"
    /\ conn # "closed"
    /\ wire # <<>>
    /\ fnotif' = Head(wire)
    /\ wire' = Tail(wire)
    /\ fpc' = "send"
    /\ UNCHANGED <<sent, conn, in, cmd, dispatcherVars, spc, handlerVars, queues>>

\* WaitForNotification fails; the fetcher returns and is not started again.
FetchErr ==
    /\ fpc = "wait"
    /\ conn # "open"
    /\ fpc' = "gone"
    /\ UNCHANGED <<pg, in, cmd, fnotif, dispatcherVars, spc, handlerVars, queues>>

\* Faulty variant: a notification is dropped when nd.in is full.
FetchSend_Drops ==
    /\ fpc = "send"
    /\ in' = IF Len(in) < InCap /\ ~InClosed THEN Append(in, fnotif) ELSE in
    /\ fpc' = "wait"
    /\ UNCHANGED <<pg, cmd, fnotif, dispatcherVars, spc, handlerVars, queues>>

\* nd.in <- *n. Sending on a closed channel panics, in a goroutine where nothing
\* recovers: the process ends.
FetchSend ==
    /\ fpc = "send"
    /\ ~InClosed => Len(in) < InCap
    /\ in' = IF InClosed THEN in ELSE Append(in, fnotif)
    /\ fpc' = IF InClosed THEN "panicked" ELSE "wait"
    /\ fnotif' = NoNotif
    /\ UNCHANGED <<pg, cmd, dispatcherVars, spc, handlerVars, queues>>

Fetcher == Fetch \/ FetchErr \/ FetchSend

-----------------------------------------------------------------------------
(* dispatcher.                                                                 *)

\* A command is received.
DoRegister ==
    LET c == Head(cmd).writer
        ch == StreamChan[c]
    IN  /\ dpc = "select" /\ cmd # <<>> /\ Head(cmd).act = "register"
        /\ cmd' = Tail(cmd)
        /\ c2ws' = [c2ws EXCEPT ![ch] = Append(@, c)]
        /\ joined' = [joined EXCEPT ![c] = TRUE]
        /\ start' = [start EXCEPT ![c] = Len(log[ch])]
        /\ UNCHANGED <<pg, in, fetcherVars, dpc, dnotif, dpos, log, spc, handlerVars, queues>>

\* The closure unregister: the first entry for c is removed and the later ones
\* are copied down; nothing happens if c is not there.
Without(ws, c) ==
    IF \A i \in 1..Len(ws) : ws[i] # c
    THEN ws
    ELSE [i \in 1..(Len(ws) - 1) |-> IF \E j \in 1..i : ws[j] = c THEN ws[i + 1] ELSE ws[i]]

DoUnregister ==
    LET c == Head(cmd).writer
    IN  /\ dpc = "select" /\ cmd # <<>> /\ Head(cmd).act = "unregister"
        /\ cmd' = Tail(cmd)
        /\ c2ws' = [c2ws EXCEPT ![StreamChan[c]] = Without(@, c)]
        /\ UNCHANGED <<pg, in, fetcherVars, dpc, dnotif, dpos, log, joined, start,
                       spc, handlerVars, queues>>

DoStop ==
    /\ dpc = "select" /\ cmd # <<>> /\ Head(cmd).act = "stop"
    /\ cmd' = Tail(cmd)
    /\ dpc' = "gone"
    /\ UNCHANGED <<pg, in, fetcherVars, dnotif, dpos, c2ws, log, joined, start,
                   spc, handlerVars, queues>>

DispatchCmd == DoRegister \/ DoUnregister \/ DoStop

\* A notification is received: range over c2ws[notif.Channel].
DispatchNotif ==
    /\ dpc = "select" /\ in # <<>>
    /\ in' = Tail(in)
    /\ dnotif' = Head(in)
    /\ dpos' = 1
    /\ dpc' = "range"
    /\ log' = [log EXCEPT ![Head(in).chan] = Append(@, Head(in).n)]
    /\ UNCHANGED <<pg, cmd, fetcherVars, c2ws, joined, start, spc, handlerVars, queues>>

\* Faulty variant: the channel of the notification is ignored.
Writers_AnyChan ==
    c2ws[IF \E ch \in Channels : c2ws[ch] # <<>>
         THEN CHOOSE ch \in Channels : c2ws[ch] # <<>>
         ELSE dnotif.chan]

Writers == c2ws[dnotif.chan]

\* Faulty variants: a payload that finds the queue full is dropped; the send has
\* no default branch and waits for room.
Accept_Drops ==
    /\ dpc = "range" /\ dpos <= Len(Writers)
    /\ dpos' = dpos + 1
    /\ q' = IF qClosed[Writers[dpos]] \/ Len(q[Writers[dpos]]) >= Backlog THEN q
            ELSE [q EXCEPT ![Writers[dpos]] = Append(@, dnotif.n)]
    /\ UNCHANGED <<pg, in, cmd, fetcherVars, dpc, dnotif, c2ws, log, joined, start,
                   spc, handlerVars, qClosed>>

Accept_Blocks ==
    /\ dpc = "range" /\ dpos <= Len(Writers)
    /\ Len(q[Writers[dpos]]) < Backlog
    /\ dpos' = dpos + 1
    /\ q' = [q EXCEPT ![Writers[dpos]] = Append(@, dnotif.n)]
    /\ UNCHANGED <<pg, in, cmd, fetcherVars, dpc, dnotif, c2ws, log, joined, start,
                   spc, handlerVars, qClosed>>

\* w.accept(notif.Payload): the payload is queued if q is open and not full,
\* otherwise accept calls closeQ, from its default branch or its recover.
Accept ==
    /\ dpc = "range" /\ dpos <= Len(Writers)
    /\ LET w == Writers[dpos]
       IN  \/ /\ ~qClosed[w] /\ Len(q[w]) < Backlog
              /\ q' = [q EXCEPT ![w] = Append(@, dnotif.n)]
              /\ dpos' = dpos + 1
              /\ UNCHANGED dpc
           \/ /\ qClosed[w] \/ Len(q[w]) >= Backlog
              /\ dpc' = "closeQ"
              /\ UNCHANGED <<q, dpos>>
    /\ UNCHANGED <<pg, in, cmd, fetcherVars, dnotif, c2ws, log, joined, start,
                   spc, handlerVars, qClosed>>

\* closeQ on behalf of accept.
AcceptCloseQ ==
    /\ dpc = "closeQ"
    /\ qClosed' = [qClosed EXCEPT ![Writers[dpos]] = TRUE]
    /\ dpos' = dpos + 1
    /\ dpc' = "range"
    /\ UNCHANGED <<pg, in, cmd, fetcherVars, dnotif, c2ws, log, joined, start,
                   spc, handlerVars, q>>

EndRange ==
    /\ dpc = "range" /\ dpos > Len(Writers)
    /\ dpc' = "select"
    /\ dnotif' = NoNotif
    /\ dpos' = 1
    /\ UNCHANGED <<pg, in, cmd, fetcherVars, c2ws, log, joined, start,
                   spc, handlerVars, queues>>

DispatchRange == Accept \/ AcceptCloseQ \/ EndRange

-----------------------------------------------------------------------------
(* serveStream with loopWS or loopSSE, for client c.                           *)

Become(c, step) == hpc' = [hpc EXCEPT ![c] = step]

\* The loop returns r. Unless it has seen q closed, its deferred call of closeQ
\* comes next.
Return(c, r) ==
    /\ ret' = [ret EXCEPT ![c] = r]
    /\ Become(c, IF r = "tooSlow" THEN "unregister" ELSE "closing")

\* A request arrives, until http.Server.Shutdown closes the listener.
Request(c) ==
    /\ hpc[c] = "idle"
    /\ spc # "shut"
    /\ Become(c, "register")
    /\ UNCHANGED <<pg, in, cmd, fetcherVars, dispatcherVars, spc, held, gone, ret, got, queues>>

\* nd.cmd <- {act, c}, and the handler goes on with step. Sending on a closed
\* channel panics; net/http recovers and drops the connection.
SendCmd(c, act, step) ==
    /\ IF CmdClosed
         THEN Become(c, "panicked") /\ UNCHANGED cmd
         ELSE /\ Len(cmd) < CmdCap
              /\ cmd' = Append(cmd, [act |-> act, writer |-> c])
              /\ Become(c, step)
    /\ UNCHANGED <<pg, in, fetcherVars, dispatcherVars, spc, held, gone, ret, got, queues>>

Register(c) == hpc[c] = "register" /\ SendCmd(c, "register", "open")

\* websocket.Accept, or the first keep-alive comment of an SSE stream.
Open(c) ==
    /\ hpc[c] = "open"
    /\ \/ Become(c, "loop") /\ UNCHANGED ret
       \/ Return(c, "error")
    /\ UNCHANGED <<pg, in, cmd, fetcherVars, dispatcherVars, spc, held, gone, got, queues>>

\* Faulty variants: !ok is not checked, and a closed q yields empty payloads; a
\* closed q is taken for an empty one.
Receive_NoOk(c) ==
    /\ hpc[c] = "loop" /\ (q[c] # <<>> \/ qClosed[c])
    /\ held' = [held EXCEPT ![c] = IF q[c] = <<>> THEN 0 ELSE Head(q[c])]
    /\ q' = [q EXCEPT ![c] = IF @ = <<>> THEN @ ELSE Tail(@)]
    /\ Become(c, "write")
    /\ UNCHANGED <<pg, in, cmd, fetcherVars, dispatcherVars, spc, ret, gone, got, qClosed>>

Receive_IgnoresClosed(c) ==
    /\ hpc[c] = "loop" /\ q[c] # <<>>
    /\ held' = [held EXCEPT ![c] = Head(q[c])]
    /\ q' = [q EXCEPT ![c] = Tail(@)]
    /\ Become(c, "write")
    /\ UNCHANGED <<pg, in, cmd, fetcherVars, dispatcherVars, spc, ret, gone, got, qClosed>>

\* select: a payload is received from q, or q is closed and drained.
Receive(c) ==
    /\ hpc[c] = "loop"
    /\ \/ /\ q[c] # <<>>
          /\ held' = [held EXCEPT ![c] = Head(q[c])]
          /\ q' = [q EXCEPT ![c] = Tail(@)]
          /\ Become(c, "write")
          /\ UNCHANGED ret
       \/ /\ q[c] = <<>> /\ qClosed[c]
          /\ Return(c, "tooSlow")
          /\ UNCHANGED <<held, q>>
    /\ UNCHANGED <<pg, in, cmd, fetcherVars, dispatcherVars, spc, gone, got, qClosed>>

\* select: the loop's context is done.
Cancelled(c) ==
    /\ hpc[c] = "loop"
    /\ CtxDone(c)
    /\ Return(c, "canceled")
    /\ UNCHANGED <<pg, in, cmd, fetcherVars, dispatcherVars, spc, held, gone, got, queues>>

\* What a failed write makes the loop return. A websocket write also fails when
\* the context is cancelled, and a close frame of the peer is no error.
WriteErrors(c) ==
    {"error"} \cup (IF c \in WS /\ CtxDone(c) THEN {"canceled"} ELSE {})
              \cup (IF c \in WS /\ gone[c] THEN {"nil"} ELSE {})

\* The write of the payload ends, at the latest by its timeout.
Write(c) ==
    /\ hpc[c] = "write"
    /\ held' = [held EXCEPT ![c] = 0]
    /\ \/ /\ got' = [got EXCEPT ![c] = Append(@, held[c])]
          /\ Become(c, "loop")
          /\ UNCHANGED ret
       \/ /\ \E r \in WriteErrors(c) : Return(c, r)
          /\ UNCHANGED got
    /\ UNCHANGED <<pg, in, cmd, fetcherVars, dispatcherVars, spc, gone, queues>>

\* select: the ticker fires and the keep-alive comment cannot be written.
KeepAliveErr(c) ==
    /\ c \notin WS
    /\ hpc[c] = "loop"
    /\ Return(c, "error")
    /\ UNCHANGED <<pg, in, cmd, fetcherVars, dispatcherVars, spc, held, gone, got, queues>>

\* Faulty variant: only a stream that ended without error is unregistered.
CloseQ_OnlyNil(c) ==
    /\ hpc[c] = "closing"
    /\ qClosed' = [qClosed EXCEPT ![c] = TRUE]
    /\ Become(c, IF ret[c] # "nil" THEN "done" ELSE "unregister")
    /\ UNCHANGED <<pg, in, cmd, fetcherVars, dispatcherVars, spc, held, gone, ret, got, q>>

\* The deferred closeQ. serveStream then unregisters the writer unless the error
\* is context.Canceled.
CloseQ(c) ==
    /\ hpc[c] = "closing"
    /\ qClosed' = [qClosed EXCEPT ![c] = TRUE]
    /\ Become(c, IF ret[c] = "canceled" THEN "done" ELSE "unregister")
    /\ UNCHANGED <<pg, in, cmd, fetcherVars, dispatcherVars, spc, held, gone, ret, got, q>>

Unregister(c) == hpc[c] = "unregister" /\ SendCmd(c, "unregister", "done")

\* A websocket peer disconnects or sends a message: ws.CloseRead cancels the
\* loop's context.
PeerGone(c) ==
    /\ c \in WS
    /\ hpc[c] \in {"loop", "write"}
    /\ ~gone[c]
    /\ gone' = [gone EXCEPT ![c] = TRUE]
    /\ UNCHANGED <<pg, in, cmd, fetcherVars, dispatcherVars, spc, hpc, held, ret, got, queues>>

\* The steps the handler takes by itself; a failing keep-alive, like the peer
\* going away, is up to the network.
Handler(c) ==
    \/ Register(c) \/ Open(c) \/ Receive(c) \/ Cancelled(c) \/ Write(c)
    \/ CloseQ(c) \/ Unregister(c)

-----------------------------------------------------------------------------
(* APIServer.Stop up to http.Server.Shutdown.                                  *)

\* Stop is called and cancels bgctx.
Cancel ==
    /\ spc = "run"
    /\ spc' = "cancelled"
    /\ UNCHANGED <<pg, in, cmd, fetcherVars, dispatcherVars, handlerVars, queues>>

\* nd.stop: the connection is closed to stop the fetcher.
CloseConn ==
    /\ spc = "cancelled"
    /\ spc' = "sendStop"
    /\ conn' = "closed"
    /\ UNCHANGED <<sent, wire, in, cmd, fetcherVars, dispatcherVars, handlerVars, queues>>

\* Faulty variants: the command is given up, or forced in, when nd.cmd is full.
SendStop_GivesUp ==
    /\ spc = "sendStop"
    /\ cmd' = IF Len(cmd) < CmdCap THEN Append(cmd, [act |-> "stop", writer |-> "nil"]) ELSE cmd
    /\ spc' = "wait"
    /\ UNCHANGED <<pg, in, fetcherVars, dispatcherVars, handlerVars, queues>>

\* nd.cmd <- {act: actStop}
SendStop ==
    /\ spc = "sendStop"
    /\ Len(cmd) < CmdCap
    /\ cmd' = Append(cmd, [act |-> "stop", writer |-> "nil"])
    /\ spc' = "wait"
    /\ UNCHANGED <<pg, in, fetcherVars, dispatcherVars, handlerVars, queues>>

\* nd.wg.Wait(), which only the dispatcher is counted in; close(nd.cmd);
\* close(nd.in); and, back in Stop, http.Server.Shutdown closes the listener.
Proceed ==
    /\ \/ spc = "wait" /\ dpc = "gone" /\ spc' = "closeCmd"
       \/ spc = "closeCmd" /\ spc' = "closeIn"
       \/ spc = "closeIn" /\ spc' = "stopped"
       \/ spc = "stopped" /\ spc' = "shut"
    /\ UNCHANGED <<pg, in, cmd, fetcherVars, dispatcherVars, handlerVars, queues>>

Stopper == CloseConn \/ SendStop \/ Proceed

-----------------------------------------------------------------------------
Crashed == fpc = "panicked"

Environment ==
    \/ \E ch \in Channels : Notify(ch)
    \/ ConnLost
    \/ \E c \in Clients : Request(c) \/ KeepAliveErr(c) \/ PeerGone(c)
    \/ Cancel

Next ==
    /\ ~Crashed
    /\ \/ Environment
       \/ Fetcher
       \/ DispatchCmd \/ DispatchNotif \/ DispatchRange
       \/ \E c \in Clients : Handler(c)
       \/ Stopper

Spec == Init /\ [][Next]_vars

\* Fairness of the dispatcher and the fetcher alone. Go's select chooses among
\* the ready cases at random, so neither case of the dispatcher's select is
\* passed over for ever.
DispatchFairness ==
    /\ WF_vars(~Crashed /\ Fetcher)
    /\ SF_vars(~Crashed /\ DispatchCmd)
    /\ SF_vars(~Crashed /\ DispatchNotif)
    /\ WF_vars(~Crashed /\ DispatchRange)

\* Senders blocked on a Go channel are served first come, first served: strong
\* fairness of the senders to nd.cmd. A write to a client ends by
\* notifWriteTimeout or the server's WriteTimeout.
FairSpec ==
    /\ Spec
    /\ DispatchFairness
    /\ SF_vars(~Crashed /\ Stopper)
    /\ \A c \in Clients : SF_vars(~Crashed /\ Handler(c))

-----------------------------------------------------------------------------
(* Properties.                                                                 *)

\* What the clients see is the promise of StreamFeed: every client is handed, in
\* order, the notifications dispatched on its channel since it was registered,
\* up to the point where its stream ends.
Feed == INSTANCE StreamFeed WITH Payloads <- 1..MaxNotifs
FeedSpec == Feed!Spec

\* The dispatcher handles the notifications of a channel in the order in which
\* PostgreSQL sent them and skips none, also when nd.in fills up or the
\* connection is lost.
DispatchInOrder == \A ch \in Channels : \A i \in 1..Len(log[ch]) : log[ch][i] = i

Dispatching(c) ==
    /\ dpc \in {"range", "closeQ"}
    /\ dnotif.chan = StreamChan[c]
    /\ \E i \in dpos..Len(Writers) : Writers[i] = c

\* No silent loss: a registered client whose handler is in its loop and whose
\* queue is open has been handed, or has queued, everything dispatched on its
\* channel since it was registered, but for the notification being dispatched.
\* A full queue always ends the stream.
NoSilentLoss ==
    \A c \in Clients :
        joined[c] /\ hpc[c] \in {"open", "loop", "write"} /\ ~qClosed[c] =>
            Len(log[StreamChan[c]]) - start[c] =
                Len(got[c]) + Len(q[c]) + (IF hpc[c] = "write" THEN 1 ELSE 0)
                            + (IF Dispatching(c) THEN 1 ELSE 0)

\* A handler that ends other than by cancellation leaves no writer behind: the
\* dispatcher has dropped it, or will when it gets to the command.
NoStaleWriter ==
    \A c \in Clients :
        hpc[c] = "done" /\ ret[c] # "canceled" =>
            \/ \A i \in 1..Len(c2ws[StreamChan[c]]) : c2ws[StreamChan[c]][i] # c
            \/ \E i \in 1..Len(cmd) : cmd[i] = [act |-> "unregister", writer |-> c]

\* Ended handlers; "idle" is a request that never came.
Ended(c) == hpc[c] \in {"idle", "done", "panicked"}

\* Stop always gets past the notification dispatchers, whatever handlers, fetcher
\* and dispatcher are doing.
StopCompletes == BgDone ~> (spc = "shut" \/ Crashed)

\* After Stop has begun every handler ends, including those blocked on nd.cmd
\* with the dispatcher gone.
HandlersEnd == BgDone ~> (Crashed \/ \A c \in Clients : Ended(c))

\* Both: a shutdown ends what serves streams (notifDispatcher.stop, serveStream).
StopEndsStreams == StopCompletes /\ HandlersEnd

\* A client whose queue is closed because it was too slow is let go: its handler
\* ends even if no further notification arrives.
SlowClientEnds == \A c \in Clients : qClosed[c] ~> (Crashed \/ Ended(c))

\* Clients never stall the dispatcher: it gets through the writers of a channel and
\* back to its select, past full queues and past writers whose handler has ended
\* without taking them out of the list, so that nobody reads their queue.
DispatchNeverStalls == dpc \in {"range", "closeQ"} ~> (Crashed \/ dpc = "select")

\* streams.go 143-144: a cancelled stream means the server is shutting down, so
\* that its writer need not be unregistered.
CanceledMeansShutdown == \A c \in Clients : ret[c] = "canceled" => BgDone

\* streams.go 420-421: closing the connection stops the fetcher.
FetcherStopsCleanly == ~Crashed
=============================================================================
