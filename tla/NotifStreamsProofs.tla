------------------------- MODULE NotifStreamsProofs --------------------------
(* Proofs about NotifStreams for any clients, channels and capacities. The type *)
(* invariant is inductive by itself. NoSilentLoss and the refinement of         *)
(* StreamFeed rest on IInv, whose core is FeedInv: what a client has got, holds *)
(* and has queued is one segment of its channel's log. DispatchInOrder rests on *)
(* OrderInv: the pipe from PostgreSQL to the dispatcher holds, in order, what   *)
(* was sent and is not yet dispatched. NoStaleWriter rests on StaleInv: in      *)
(* nd.cmd an unregister follows the register it takes back.                     *)
EXTENDS NotifStreams, TLAPS

USE ClientsAssumption, CapacityAssumption

\* An element of a sequence over S is in S.
LEMMA SeqElement ==
  ASSUME NEW S, NEW sq \in Seq(S), NEW i \in 1 .. Len(sq)
  PROVE  sq[i] \in S
OBVIOUS

\* A sequence with one more element.
LEMMA AppendSeq ==
  ASSUME NEW S, NEW sq \in Seq(S), NEW e \in S
  PROVE  /\ Append(sq, e) \in Seq(S) /\ Len(Append(sq, e)) = Len(sq) + 1 /\ Len(sq) \in Nat
         /\ \A i \in 1 .. Len(sq) : Append(sq, e)[i] = sq[i] /\ sq[i] \in S
         /\ Append(sq, e)[Len(sq) + 1] = e
         /\ \A i \in 1 .. Len(Append(sq, e)) : i \in 1 .. Len(sq) \/ i = Len(sq) + 1
OBVIOUS

\* The concatenation of sequences is one.
LEMMA ConcatSeq ==
  ASSUME NEW S, NEW sq \in Seq(S), NEW r \in Seq(S)
  PROVE  sq \o r \in Seq(S)
OBVIOUS

\* Concatenation is associative.
LEMMA ConcatAssoc ==
  ASSUME NEW S, NEW sq \in Seq(S), NEW r \in Seq(S), NEW t \in Seq(S)
  PROVE  (sq \o r) \o t = sq \o (r \o t)
OBVIOUS

\* What is appended to the second part is appended to the whole.
LEMMA ConcatAppend ==
  ASSUME NEW S, NEW sq \in Seq(S), NEW r \in Seq(S), NEW e \in S
  PROVE  sq \o Append(r, e) = Append(sq \o r, e)
OBVIOUS

\* What is taken from the first part is taken from the whole.
LEMMA ConcatHead ==
  ASSUME NEW S, NEW sq \in Seq(S), NEW r \in Seq(S), sq # <<>>
  PROVE  /\ sq \o r # <<>> /\ Head(sq \o r) = Head(sq) /\ Tail(sq) \o r = Tail(sq \o r)
         /\ Tail(sq) \in Seq(S)
OBVIOUS

\* The fields of a notification.
LEMMA NotifFields == \A m \in Notifs : m.chan \in Channels /\ m.n \in 1..MaxNotifs
  BY DEF Notifs

\* The notification at the head of nd.in.
LEMMA HeadNotif ==
    ASSUME PipelineTypes, in # <<>>
    PROVE  Head(in) \in Notifs /\ Head(in).chan \in Channels /\ Head(in).n \in 1..MaxNotifs
<1>1. Head(in) \in Notifs
  BY DEF PipelineTypes
<1> QED
  BY <1>1, NotifFields

\* The notification being dispatched and the writers of its channel.
LEMMA CurrentNotif ==
    ASSUME DispatcherTypes, dpc \in {"range", "closeQ"}
    PROVE  /\ dnotif \in Notifs /\ dnotif.chan \in Channels /\ dnotif.n \in 1..MaxNotifs
           /\ Writers \in Seq(Clients) /\ Len(Writers) \in Nat /\ dpos \in Nat \ {0}
<1>1. dnotif \in Notifs /\ dpos \in Nat \ {0} /\ c2ws \in [Channels -> Seq(Clients)]
  BY DEF DispatcherTypes
<1>2. dnotif.chan \in Channels /\ dnotif.n \in 1..MaxNotifs
  BY <1>1, NotifFields
<1>3. Writers \in Seq(Clients)
  BY <1>1, <1>2 DEF Writers
<1> QED
  BY <1>1, <1>2, <1>3

\* The command at the head of nd.cmd.
LEMMA HeadCmd ==
    ASSUME CmdTypes, cmd # <<>>
    PROVE  /\ 1 \in 1..Len(cmd) /\ Head(cmd) = cmd[1] /\ Head(cmd) \in Cmds
           /\ Head(cmd).act \in {"register", "unregister"} => Head(cmd).writer \in Clients
<1>1. cmd \in Seq(Cmds)
  BY DEF CmdTypes
<1>2. 1 \in 1..Len(cmd) /\ Head(cmd) = cmd[1] /\ Head(cmd) \in Cmds
  BY <1>1
<1>3. \A e \in Cmds : e.act \in {"register", "unregister"} => e.writer \in Clients
  BY DEF Cmds
<1> QED
  BY <1>2, <1>3

\* An element of a list of writers.
LEMMA ListElement ==
    ASSUME NEW ws \in Seq(Clients), NEW i \in 1..Len(ws)
    PROVE  ws[i] \in Clients /\ \E j \in 1..Len(ws) : ws[j] = ws[i]
OBVIOUS

\* Notification numbers are counted from 1; 0 stands for no notification.
LEMMA WithZero ==
    /\ \A i \in 1..MaxNotifs : i \in 0..MaxNotifs
    /\ \A ss \in Seq(1..MaxNotifs) : ss \in Seq(0..MaxNotifs)
<1>1. \A i \in 1..MaxNotifs : i \in 0..MaxNotifs
  BY CapacityAssumption
<1>2. ASSUME NEW ss \in Seq(1..MaxNotifs) PROVE ss \in Seq(0..MaxNotifs)
  BY <1>1
<1> QED
  BY <1>1, <1>2

\* Append to a sequence of notifications.
LEMMA AppendNotif ==
    ASSUME NEW ss \in Seq(0..MaxNotifs), NEW e \in 0..MaxNotifs
    PROVE  /\ Append(ss, e) # ss
           /\ Len(Append(ss, e)) = Len(ss) + 1
           /\ \A i \in 1..Len(ss) : Append(ss, e)[i] = ss[i]
<1>1. Len(Append(ss, e)) = Len(ss) + 1 /\ Len(ss) \in Nat
  OBVIOUS
<1>2. \A i \in 1..Len(ss) : Append(ss, e)[i] = ss[i]
  OBVIOUS
<1>3. Len(ss) + 1 # Len(ss)
  BY ONLY <1>1
<1> QED
  BY <1>1, <1>2, <1>3

\* The elements of a sequence after Append.
LEMMA AppendElements ==
    ASSUME NEW T, NEW ss \in Seq(T), NEW e \in T
    PROVE  /\ Len(Append(ss, e)) = Len(ss) + 1
           /\ Append(ss, e)[Len(ss) + 1] = e
           /\ \A i \in 1..Len(ss) : Append(ss, e)[i] = ss[i]
           /\ \A i \in 1..Len(Append(ss, e)) :
                \/ i \in 1..Len(ss) /\ Append(ss, e)[i] = ss[i]
                \/ i = Len(ss) + 1 /\ Append(ss, e)[i] = e
<1>1. Len(Append(ss, e)) = Len(ss) + 1 /\ Append(ss, e)[Len(ss) + 1] = e
  OBVIOUS
<1>2. \A i \in 1..Len(ss) : Append(ss, e)[i] = ss[i]
  OBVIOUS
<1>3. Len(ss) \in Nat
  OBVIOUS
<1>4. \A k \in Nat : \A i \in 1..(k + 1) : i \in 1..k \/ i = k + 1
  OBVIOUS
<1>5. \A i \in 1..Len(Append(ss, e)) : i \in 1..Len(ss) \/ i = Len(ss) + 1
  BY <1>1, <1>3, <1>4
<1> QED
  BY <1>1, <1>2, <1>5

\* PostgreSQL's connection, the fetcher and nd.in keep their types, and nd.in its
\* capacity.
LEMMA PipelineInductive == TypeOK /\ [Next]_vars => PipelineTypes'
<1> SUFFICES ASSUME PipelineTypes, [Next]_vars PROVE PipelineTypes'
  BY DEF TypeOK
<1> USE DEF PipelineTypes
<1>1. ASSUME NEW ch \in Channels, Notify(ch) PROVE PipelineTypes'
  <2>1. [chan |-> ch, n |-> sent[ch] + 1] \in Notifs
    BY <1>1 DEF Notify, Notifs
  <2> QED
    BY <1>1, <2>1 DEF Notify, fetcherVars
<1>2. CASE ConnLost
  BY <1>2 DEF ConnLost, fetcherVars
<1>3. CASE Fetch
  BY <1>3 DEF Fetch
<1>4. CASE FetchErr
  BY <1>4 DEF FetchErr, pg
<1>5. CASE FetchSend
  BY <1>5 DEF FetchSend, pg
<1>6. CASE DispatchNotif
  BY <1>6 DEF DispatchNotif, pg, fetcherVars
<1>7. CASE CloseConn
  BY <1>7 DEF CloseConn, fetcherVars
<1>8. CASE UNCHANGED <<pg, in, fetcherVars>>
  BY <1>8, Zenon DEF pg, fetcherVars
<1>9. ASSUME DispatchCmd \/ DispatchRange PROVE UNCHANGED <<pg, in, fetcherVars>>
  BY <1>9, Zenon DEF DispatchCmd, DispatchRange, DoRegister, DoUnregister, DoStop, Accept, AcceptCloseQ, EndRange
<1>10. ASSUME NEW c \in Clients, Handler(c) \/ Request(c) \/ KeepAliveErr(c) \/ PeerGone(c) PROVE UNCHANGED <<pg, in, fetcherVars>>
  BY <1>10 DEF Handler, Request, KeepAliveErr, PeerGone, Register, Open, Receive, Cancelled, Write, CloseQ, Unregister, SendCmd
<1>11. ASSUME Cancel \/ SendStop \/ Proceed PROVE UNCHANGED <<pg, in, fetcherVars>>
  BY <1>11 DEF Cancel, SendStop, Proceed
<1>12. UNCHANGED vars => UNCHANGED <<pg, in, fetcherVars>>
  BY DEF vars
<1> QED
  BY <1>1, <1>2, <1>3, <1>4, <1>5, <1>6, <1>7, <1>8, <1>9, <1>10, <1>11, <1>12, Zenon DEF Next, Environment, Fetcher, Stopper

\* Unregistering yields a list of writers again, no longer than before.
LEMMA WithoutType ==
    ASSUME NEW ws \in Seq(Clients), NEW c PROVE Without(ws, c) \in Seq(Clients)
<1>1. CASE \A i \in 1..Len(ws) : ws[i] # c
  BY <1>1 DEF Without
<1>2. CASE ~(\A i \in 1..Len(ws) : ws[i] # c)
  <2>1. Len(ws) - 1 \in Nat
    BY <1>2
  <2> DEFINE f == [i \in 1..(Len(ws) - 1) |-> IF \E j \in 1..i : ws[j] = c THEN ws[i + 1] ELSE ws[i]]
  <2>2. f \in Seq(Clients)
    BY <2>1
  <2> QED
    BY <1>2, <2>2 DEF Without
<1> QED
  BY <1>1, <1>2

\* The dispatcher's state keeps its types; closeQ is called for a writer that is
\* still in the list.
LEMMA DispatcherInductive == TypeOK /\ [Next]_vars => DispatcherTypes'
<1> SUFFICES ASSUME TypeOK, [Next]_vars PROVE DispatcherTypes'
  OBVIOUS
<1> USE DEF DispatcherTypes, TypeOK
<1>1. CASE DoRegister
  <2>1. Head(cmd) \in Cmds /\ Head(cmd).writer \in Clients
    BY <1>1 DEF DoRegister, Cmds, CmdTypes
  <2> QED
    BY <1>1, <2>1 DEF DoRegister
<1>2. CASE DoUnregister
  <2>1. Head(cmd).writer \in Clients
    BY <1>2 DEF DoUnregister, Cmds, CmdTypes
  <2>2. Without(c2ws[StreamChan[Head(cmd).writer]], Head(cmd).writer) \in Seq(Clients)
    BY <2>1, WithoutType
  <2> QED
    BY <1>2, <2>1, <2>2 DEF DoUnregister
<1>3. CASE DoStop
  BY <1>3 DEF DoStop
<1>4. CASE DispatchNotif
  BY <1>4 DEF DispatchNotif, PipelineTypes
<1>5. CASE Accept
  <2>1. /\ dpc = "range" /\ UNCHANGED <<dnotif, c2ws>> /\ dpos <= Len(c2ws[dnotif.chan])
        /\ \/ dpos' = dpos + 1 /\ dpc' = "range"
           \/ dpos' = dpos /\ dpc' = "closeQ"
    BY <1>5 DEF Accept, Writers
  <2>2. dnotif \in Notifs /\ dpos \in Nat \ {0} /\ dpos + 1 \in Nat \ {0}
    BY <2>1
  <2> QED
    BY <2>1, <2>2, Zenon
<1>6. CASE AcceptCloseQ
  BY <1>6 DEF AcceptCloseQ
<1>7. CASE EndRange
  BY <1>7 DEF EndRange
<1>8. CASE UNCHANGED dispatcherVars
  BY <1>8 DEF dispatcherVars
<1>9. ASSUME NEW ch \in Channels, Notify(ch) PROVE UNCHANGED dispatcherVars
  BY <1>9 DEF Notify
<1>10. ASSUME ConnLost \/ Fetcher \/ Cancel \/ Stopper PROVE UNCHANGED dispatcherVars
  BY <1>10, Zenon DEF ConnLost, Fetcher, Fetch, FetchErr, FetchSend, Cancel, Stopper, CloseConn, SendStop, Proceed
<1>11. ASSUME NEW c \in Clients, Handler(c) \/ Request(c) \/ KeepAliveErr(c) \/ PeerGone(c)
       PROVE UNCHANGED dispatcherVars
  BY <1>11 DEF Handler, Request, KeepAliveErr, PeerGone, Register, Open, Receive, Cancelled,
               Write, CloseQ, Unregister, SendCmd
<1>12. UNCHANGED vars => UNCHANGED dispatcherVars
  BY DEF vars
<1> QED
  BY <1>1, <1>2, <1>3, <1>4, <1>5, <1>6, <1>7, <1>8, <1>9, <1>10, <1>11, <1>12
     DEF Next, Environment, DispatchCmd, DispatchRange

\* nd.cmd holds commands and never more than its capacity.
LEMMA CmdInductive == TypeOK /\ [Next]_vars => CmdTypes'
<1> SUFFICES ASSUME CmdTypes, [Next]_vars PROVE CmdTypes'
  BY DEF TypeOK
<1> USE DEF CmdTypes
<1>1. ASSUME NEW c \in Clients, Register(c) \/ Unregister(c) PROVE CmdTypes'
  <2>1. [act |-> "register", writer |-> c] \in Cmds /\ [act |-> "unregister", writer |-> c] \in Cmds
    BY DEF Cmds
  <2>2. PICK e \in Cmds : \/ cmd' = cmd
                          \/ Len(cmd) < CmdCap /\ cmd' = Append(cmd, e)
    BY <1>1, <2>1 DEF Register, Unregister, SendCmd
  <2>3. spc' = spc
    BY <1>1 DEF Register, Unregister, SendCmd
  <2> QED
    BY <2>2, <2>3
<1>2. CASE DispatchCmd
  <2>1. cmd # <<>> /\ cmd' = Tail(cmd) /\ spc' = spc
    BY <1>2 DEF DispatchCmd, DoRegister, DoUnregister, DoStop
  <2> QED
    BY <2>1, SMTT(30)
<1>3. CASE Cancel \/ Stopper
  BY <1>3, SMTT(30) DEF Cancel, Stopper, CloseConn, SendStop, Proceed, StopSteps, Cmds
<1>4. CASE UNCHANGED <<cmd, spc>>
  BY <1>4
<1>5. ASSUME NEW ch \in Channels, Notify(ch) PROVE UNCHANGED <<cmd, spc>>
  BY <1>5 DEF Notify
<1>6. ASSUME ConnLost \/ Fetcher \/ DispatchNotif \/ DispatchRange PROVE UNCHANGED <<cmd, spc>>
  BY <1>6, Zenon DEF ConnLost, Fetcher, Fetch, FetchErr, FetchSend, DispatchNotif, DispatchRange,
              Accept, AcceptCloseQ, EndRange
<1>7. ASSUME NEW c \in Clients,
             \/ Open(c) \/ Receive(c) \/ Cancelled(c) \/ Write(c) \/ CloseQ(c)
             \/ Request(c) \/ KeepAliveErr(c) \/ PeerGone(c)
      PROVE UNCHANGED <<cmd, spc>>
  BY <1>7 DEF Open, Receive, Cancelled, Write, CloseQ, Request, KeepAliveErr, PeerGone
<1>8. UNCHANGED vars => UNCHANGED <<cmd, spc>>
  BY DEF vars
<1> QED
  BY <1>1, <1>2, <1>3, <1>4, <1>5, <1>6, <1>7, <1>8 DEF Next, Environment, Handler

\* The writers' queues keep their types and their capacity.
LEMMA QueueInductive == TypeOK /\ [Next]_vars => QueueTypes'
<1> SUFFICES ASSUME TypeOK, [Next]_vars PROVE QueueTypes'
  OBVIOUS
<1> USE DEF QueueTypes
<1>1. CASE Accept
  <2>1. Writers[dpos] \in Clients /\ dnotif.n \in 1..MaxNotifs
    <3>1. dpc = "range" /\ dpos <= Len(Writers) /\ DispatcherTypes
      BY <1>1 DEF Accept, TypeOK
    <3> QED
      BY <3>1, CurrentNotif
  <2>2. CASE q' = q
    BY <1>1, <2>2 DEF Accept, TypeOK
  <2>3. CASE /\ Len(q[Writers[dpos]]) < Backlog
             /\ q' = [q EXCEPT ![Writers[dpos]] = Append(@, dnotif.n)]
    <3> DEFINE w == Writers[dpos]
    <3>1. Append(q[w], dnotif.n) \in Seq(1..MaxNotifs) /\ Len(Append(q[w], dnotif.n)) <= Backlog
      BY <2>1, <2>3 DEF TypeOK
    <3>2. qClosed' = qClosed
      BY <1>1 DEF Accept
    <3> QED
      BY <2>1, <2>3, <3>1, <3>2 DEF TypeOK
  <2> QED
    BY <1>1, <2>2, <2>3, Zenon DEF Accept
<1>2. CASE AcceptCloseQ
  BY Zenon, <1>2 DEF AcceptCloseQ, TypeOK
<1>3. ASSUME NEW c \in Clients, Receive(c) PROVE QueueTypes'
  <2>1. CASE q' = q
    BY <1>3, <2>1 DEF Receive, TypeOK
  <2>2. CASE q[c] # <<>> /\ q' = [q EXCEPT ![c] = Tail(@)]
    <3>1. Tail(q[c]) \in Seq(1..MaxNotifs) /\ Len(Tail(q[c])) <= Backlog
      BY <2>2 DEF TypeOK
    <3> QED
      BY <1>3, <2>2, <3>1 DEF Receive, TypeOK
  <2> QED
    BY <1>3, <2>1, <2>2 DEF Receive
<1>4. ASSUME NEW c \in Clients, CloseQ(c) PROVE QueueTypes'
  BY <1>4 DEF CloseQ, TypeOK
<1>5. CASE UNCHANGED queues
  BY <1>5 DEF queues, TypeOK
<1>6. ASSUME NEW ch \in Channels, Notify(ch) PROVE UNCHANGED queues
  BY <1>6 DEF Notify
<1>7. ASSUME \/ ConnLost \/ Fetcher \/ DispatchCmd \/ DispatchNotif \/ EndRange
             \/ Cancel \/ Stopper
      PROVE UNCHANGED queues
  BY Zenon, <1>7 DEF ConnLost, Fetcher, Fetch, FetchErr, FetchSend, DispatchCmd, DoRegister,
              DoUnregister, DoStop, DispatchNotif, EndRange, Cancel, Stopper, CloseConn,
              SendStop, Proceed
<1>8. ASSUME NEW c \in Clients,
             \/ Register(c) \/ Open(c) \/ Cancelled(c) \/ Write(c) \/ Unregister(c)
             \/ Request(c) \/ KeepAliveErr(c) \/ PeerGone(c)
      PROVE UNCHANGED queues
  BY <1>8 DEF Register, Open, Cancelled, Write, Unregister, SendCmd, Request, KeepAliveErr,
              PeerGone
<1>9. UNCHANGED vars => UNCHANGED queues
  BY DEF vars
<1> QED
  BY <1>1, <1>2, <1>3, <1>4, <1>5, <1>6, <1>7, <1>8, <1>9, Zenon
     DEF Next, Environment, DispatchRange, Handler

\* The handlers' state keeps its types.
LEMMA HandlerInductive == TypeOK /\ [Next]_vars => HandlerTypes'
<1> SUFFICES ASSUME TypeOK, [Next]_vars PROVE HandlerTypes'
  OBVIOUS
<1> USE DEF HandlerTypes, HandlerSteps, TypeOK, Become
<1>1. ASSUME NEW c \in Clients, Request(c) \/ KeepAliveErr(c) \/ PeerGone(c) PROVE HandlerTypes'
  BY ZenonT(30), <1>1 DEF Request, KeepAliveErr, PeerGone, Return
<1>2. ASSUME NEW c \in Clients, Register(c) \/ Unregister(c) PROVE HandlerTypes'
  BY Zenon, <1>2 DEF Register, Unregister, SendCmd
<1>3. ASSUME NEW c \in Clients, Open(c) \/ Cancelled(c) \/ CloseQ(c) PROVE HandlerTypes'
  BY <1>3 DEF Open, Cancelled, CloseQ, Return
<1>4. ASSUME NEW c \in Clients, Receive(c) PROVE HandlerTypes'
  <2>1. CASE q[c] # <<>>
    <3>1. Head(q[c]) \in 0..MaxNotifs
      BY <2>1 DEF QueueTypes
    <3>2. /\ hpc' = [hpc EXCEPT ![c] = "write"]
          /\ held' = [held EXCEPT ![c] = Head(q[c])]
          /\ UNCHANGED <<gone, ret>>
      BY <1>4, <2>1 DEF Receive
    <3> QED
      BY <3>1, <3>2
  <2>2. CASE q[c] = <<>>
    BY Zenon, <1>4, <2>2 DEF Receive, Return
  <2> QED
    BY <2>1, <2>2
<1>5. ASSUME NEW c \in Clients, Write(c) PROVE HandlerTypes'
  BY <1>5, SMTT(30) DEF Write, WriteErrors, Return
<1>6. CASE UNCHANGED handlerVars
  BY <1>6 DEF handlerVars
<1>7. ASSUME NEW ch \in Channels, Notify(ch) PROVE UNCHANGED handlerVars
  BY <1>7 DEF Notify
<1>8. ASSUME \/ ConnLost \/ Fetcher \/ DispatchCmd \/ DispatchNotif \/ DispatchRange
             \/ Cancel \/ Stopper
      PROVE UNCHANGED handlerVars
  BY Zenon, <1>8 DEF ConnLost, Fetcher, Fetch, FetchErr, FetchSend, DispatchCmd, DoRegister,
              DoUnregister, DoStop, DispatchNotif, DispatchRange, Accept, AcceptCloseQ,
              EndRange, Cancel, Stopper, CloseConn, SendStop, Proceed
<1>9. UNCHANGED vars => UNCHANGED handlerVars
  BY DEF vars
<1> QED
  BY <1>1, <1>2, <1>3, <1>4, <1>5, <1>6, <1>7, <1>8, <1>9 DEF Next, Environment, Handler

\* The history variables keep their types.
LEMMA HistoryInductive == TypeOK /\ [Next]_vars => HistoryTypes'
<1> SUFFICES ASSUME TypeOK, [Next]_vars PROVE HistoryTypes'
  OBVIOUS
<1> USE DEF HistoryTypes, TypeOK
<1>1. CASE DoRegister
  <2>1. Head(cmd).writer \in Clients
    BY <1>1 DEF DoRegister, Cmds, CmdTypes
  <2> QED
    BY <1>1, <2>1 DEF DoRegister, handlerVars
<1>2. CASE DispatchNotif
  <2>1. Head(in).chan \in Channels /\ Head(in).n \in 1..MaxNotifs
    BY <1>2, NotifFields DEF DispatchNotif, PipelineTypes
  <2> QED
    BY <1>2, <2>1 DEF DispatchNotif, handlerVars
<1>3. ASSUME NEW c \in Clients, Write(c) PROVE HistoryTypes'
  <2>1. UNCHANGED <<log, joined, start>>
    BY <1>3 DEF Write, dispatcherVars
  <2>2. Append(got[c], held[c]) \in Seq(0..MaxNotifs)
    BY DEF HandlerTypes
  <2>3. got' = got \/ got' = [got EXCEPT ![c] = Append(@, held[c])]
    BY <1>3 DEF Write
  <2>4. got' \in [Clients -> Seq(0..MaxNotifs)]
    BY Zenon, <2>2, <2>3
  <2> QED
    BY <2>1, <2>4
<1>4. CASE UNCHANGED <<log, joined, start, got>>
  BY <1>4
<1>5. ASSUME NEW ch \in Channels, Notify(ch) PROVE UNCHANGED <<log, joined, start, got>>
  BY <1>5, Zenon DEF Notify, dispatcherVars, handlerVars
<1>6. ASSUME ConnLost \/ Fetcher \/ Cancel \/ Stopper PROVE UNCHANGED <<log, joined, start, got>>
  BY <1>6, Zenon DEF ConnLost, Fetcher, Fetch, FetchErr, FetchSend, Cancel, Stopper, CloseConn,
              SendStop, Proceed, dispatcherVars, handlerVars
<1>7. ASSUME DoUnregister \/ DoStop \/ DispatchRange PROVE UNCHANGED <<log, joined, start, got>>
  BY <1>7, SMTT(30) DEF DoUnregister, DoStop, DispatchRange, Accept, AcceptCloseQ, EndRange, handlerVars
<1>8. ASSUME NEW c \in Clients,
             \/ Register(c) \/ Open(c) \/ Receive(c) \/ Cancelled(c) \/ CloseQ(c)
             \/ Unregister(c) \/ Request(c) \/ KeepAliveErr(c) \/ PeerGone(c)
      PROVE UNCHANGED <<log, joined, start, got>>
  BY <1>8 DEF Register, Open, Receive, Cancelled, CloseQ, Unregister, SendCmd, Request,
              KeepAliveErr, PeerGone, dispatcherVars, handlerVars
<1>9. UNCHANGED vars => UNCHANGED <<log, joined, start, got>>
  BY DEF vars, dispatcherVars, handlerVars
<1> QED
  BY <1>1, <1>2, <1>3, <1>4, <1>5, <1>6, <1>7, <1>8, <1>9, Zenon
     DEF Next, Environment, DispatchCmd, Handler

\* No step leaves TypeOK.
LEMMA TypeInductive == TypeOK /\ [Next]_vars => TypeOK'
  BY PipelineInductive, DispatcherInductive, CmdInductive, QueueInductive, HandlerInductive,
     HistoryInductive DEF TypeOK

\* The types hold when notifDispatcher.start returns.
LEMMA InitTypes == Init => TypeOK
<1> SUFFICES ASSUME Init PROVE TypeOK
  OBVIOUS
<1> USE DEF Init
<1>1. PipelineTypes
  BY DEF PipelineTypes
<1>2. DispatcherTypes
  BY DEF DispatcherTypes
<1>3. CmdTypes /\ QueueTypes
  BY DEF CmdTypes, QueueTypes, StopSteps
<1>4. HandlerTypes /\ HistoryTypes
  BY DEF HandlerTypes, HistoryTypes, HandlerSteps
<1> QED
  BY <1>1, <1>2, <1>3, <1>4 DEF TypeOK

\* The variables of the streams keep their types, and every channel its capacity,
\* for any number of clients and PostgreSQL channels and any capacities.
THEOREM StreamsTypeOK == Spec => []TypeOK
  BY InitTypes, TypeInductive, PTL DEF Spec
-----------------------------------------------------------------------------
(* The inductive invariant behind FeedSpec and NoSilentLoss.                    *)

\* A writer is announced to the dispatcher at most once, and announced as gone
\* only after its queue was closed.
CmdInv ==
    /\ \A c \in Clients : hpc[c] \in {"idle", "register"} =>
         ~joined[c] /\ \A i \in 1..Len(cmd) : cmd[i].writer # c
    /\ \A c \in Clients : hpc[c] = "unregister" => qClosed[c]
    /\ \A i \in 1..Len(cmd) : cmd[i].act = "register" => ~joined[cmd[i].writer]
    /\ \A i, j \in 1..Len(cmd) :
         cmd[i].act = "register" /\ cmd[j].act = "register" /\ cmd[i].writer = cmd[j].writer => i = j
    /\ \A i \in 1..Len(cmd) : cmd[i].act = "unregister" => qClosed[cmd[i].writer]

\* c2ws lists joined writers under their channel, each once, and it lists all of
\* those whose queue is open.
Distinct(ws) == \A i, j \in 1..Len(ws) : ws[i] = ws[j] => i = j
Listed(ws, c) == \E i \in 1..Len(ws) : ws[i] = c

WritersInv ==
    /\ \A ch \in Channels : Distinct(c2ws[ch])
    /\ \A ch \in Channels : \A c \in Clients :
         Listed(c2ws[ch], c) => StreamChan[c] = ch /\ joined[c]
    /\ \A c \in Clients : joined[c] /\ ~qClosed[c] => Listed(c2ws[StreamChan[c]], c)

\* The notification being dispatched is the last one of its channel.
DispatchInv ==
    dpc \in {"range", "closeQ"} =>
        LET l == log[dnotif.chan] IN Len(l) > 0 /\ l[Len(l)] = dnotif.n

\* Before a writer is registered its queue stays empty.
NewInv == \A c \in Clients : ~joined[c] => q[c] = <<>> /\ got[c] = <<>> /\ hpc[c] # "write"

Live(c) == hpc[c] \in {"open", "loop", "write"}
Taken(c) == Len(got[c]) + (IF hpc[c] = "write" THEN 1 ELSE 0)

\* g is the segment of log l that begins after the first s entries.
Segment(l, s, g) ==
    /\ s + Len(g) <= Len(l)
    /\ \A i \in 1..Len(g) : g[i] = l[s + i]

\* What a client has got, holds and has queued is a segment of its channel's log,
\* starting where it joined; the segment reaches the end of the log as long as
\* the queue is open.
FeedInv(c) ==
    LET l == log[StreamChan[c]] IN
    joined[c] =>
        /\ Segment(l, start[c], got[c])
        /\ Live(c) =>
             /\ hpc[c] = "write" =>
                  /\ start[c] + Len(got[c]) < Len(l)
                  /\ held[c] = l[start[c] + Len(got[c]) + 1]
             /\ Segment(l, start[c] + Taken(c), q[c])
             /\ ~qClosed[c] => Len(l) = start[c] + Taken(c) + Len(q[c])
                                          + (IF Dispatching(c) THEN 1 ELSE 0)

IInv ==
    /\ TypeOK
    /\ CmdInv
    /\ WritersInv
    /\ DispatchInv
    /\ NewInv
    /\ \A c \in Clients : FeedInv(c)

\* A command appended to nd.cmd preserves CmdInv if it announces a new writer or
\* one whose queue is closed.
LEMMA CmdInvAppend ==
    ASSUME cmd \in Seq(Cmds), CmdInv, NEW e \in Cmds, cmd' = Append(cmd, e),
           UNCHANGED <<joined, qClosed>>,
           \A c \in Clients : hpc'[c] \in {"idle", "register"} =>
               hpc[c] \in {"idle", "register"} /\ e.writer # c,
           \A c \in Clients : hpc'[c] = "unregister" => hpc[c] = "unregister",
           e.act = "register" =>
               ~joined[e.writer] /\ \A i \in 1..Len(cmd) : cmd[i].writer # e.writer,
           e.act = "unregister" => qClosed[e.writer]
    PROVE  CmdInv'
<1>1. \A i \in 1..Len(cmd') : \/ i \in 1..Len(cmd) /\ cmd'[i] = cmd[i]
                              \/ i = Len(cmd) + 1 /\ cmd'[i] = e
  BY AppendElements
<1>2. \A c \in Clients : hpc'[c] \in {"idle", "register"} =>
        ~joined[c] /\ \A i \in 1..Len(cmd') : cmd'[i].writer # c
  BY <1>1 DEF CmdInv
<1>3. \A c \in Clients : hpc'[c] = "unregister" => qClosed[c]
  BY Zenon DEF CmdInv
<1>4. \A i \in 1..Len(cmd') : cmd'[i].act = "register" => ~joined[cmd'[i].writer]
  BY <1>1 DEF CmdInv
<1>5. \A i, j \in 1..Len(cmd') :
        cmd'[i].act = "register" /\ cmd'[j].act = "register" /\ cmd'[i].writer = cmd'[j].writer => i = j
  BY <1>1 DEF CmdInv
<1>6. \A i \in 1..Len(cmd') : cmd'[i].act = "unregister" => qClosed[cmd'[i].writer]
  BY <1>1 DEF CmdInv
<1> QED
  BY <1>2, <1>3, <1>4, <1>5, <1>6, Zenon DEF CmdInv

\* A command taken from nd.cmd preserves CmdInv if at most the writer it registers
\* joins.
LEMMA CmdInvTail ==
    ASSUME cmd \in Seq(Cmds), CmdInv, cmd # <<>>, cmd' = Tail(cmd), UNCHANGED <<hpc, qClosed>>,
           \A c \in Clients : joined'[c] => joined[c] \/ (Head(cmd).act = "register" /\ Head(cmd).writer = c)
    PROVE  CmdInv'
<1>1. \A i \in 1..Len(cmd') : i + 1 \in 1..Len(cmd) /\ i + 1 # 1 /\ cmd'[i] = cmd[i + 1]
  OBVIOUS
<1>2. 1 \in 1..Len(cmd) /\ Head(cmd) = cmd[1]
  OBVIOUS
<1>3. \A i \in 1..Len(cmd) : cmd[i].act = "register" => cmd[i].writer \in Clients
  BY DEF Cmds
<1>h. /\ CmdInv /\ UNCHANGED <<hpc, qClosed>>
      /\ \A c \in Clients : joined'[c] => joined[c] \/ (Head(cmd).act = "register" /\ Head(cmd).writer = c)
  OBVIOUS
<1>4. \A c \in Clients : hpc'[c] \in {"idle", "register"} =>
        ~joined'[c] /\ \A i \in 1..Len(cmd') : cmd'[i].writer # c
  BY ONLY <1>h, <1>1, <1>2 DEF CmdInv
<1>5. \A c \in Clients : hpc'[c] = "unregister" => qClosed'[c]
  BY ONLY <1>h DEF CmdInv
<1>6. \A i \in 1..Len(cmd') : cmd'[i].act = "register" => ~joined'[cmd'[i].writer]
  BY ONLY <1>h, <1>1, <1>2, <1>3 DEF CmdInv
<1>7. \A i, j \in 1..Len(cmd') :
        cmd'[i].act = "register" /\ cmd'[j].act = "register" /\ cmd'[i].writer = cmd'[j].writer => i = j
  <2> SUFFICES ASSUME NEW i \in 1..Len(cmd'), NEW j \in 1..Len(cmd'), cmd'[i].act = "register",
                      cmd'[j].act = "register", cmd'[i].writer = cmd'[j].writer
               PROVE  i = j
    BY Zenon
  <2>1. /\ i + 1 \in 1..Len(cmd) /\ cmd'[i] = cmd[i + 1]
        /\ j + 1 \in 1..Len(cmd) /\ cmd'[j] = cmd[j + 1]
    BY <1>1, Zenon
  <2>2. i + 1 = j + 1
    BY <2>1, Zenon DEF CmdInv
  <2> QED
    BY <2>2
<1>8. \A i \in 1..Len(cmd') : cmd'[i].act = "unregister" => qClosed'[cmd'[i].writer]
  BY ONLY <1>h, <1>1 DEF CmdInv
<1> QED
  BY <1>4, <1>5, <1>6, <1>7, <1>8, Zenon DEF CmdInv

\* No step leaves CmdInv: register is sent once, unregister after closeQ.
LEMMA CmdInvInductive == IInv /\ [Next]_vars => CmdInv'
<1> SUFFICES ASSUME TypeOK, CmdInv, [Next]_vars PROVE CmdInv'
  BY Zenon DEF IInv
<1> USE DEF CmdInv
<1> cmd \in Seq(Cmds) /\ hpc \in [Clients -> HandlerSteps] /\ qClosed \in [Clients -> BOOLEAN]
    /\ joined \in [Clients -> BOOLEAN]
  BY Zenon DEF TypeOK, CmdTypes, HandlerTypes, QueueTypes, HistoryTypes
<1>1. ASSUME NEW c \in Clients, Register(c) PROVE CmdInv'
  <2>1. CASE CmdClosed
    BY <1>1, <2>1 DEF Register, SendCmd, Become, dispatcherVars, queues
  <2>2. CASE ~CmdClosed
    <3> DEFINE e == [act |-> "register", writer |-> c]
    <3>1. /\ cmd' = Append(cmd, e)
          /\ hpc[c] = "register" /\ hpc' = [hpc EXCEPT ![c] = "open"]
          /\ UNCHANGED <<joined, qClosed>>
      BY ZenonT(40), <1>1, <2>2 DEF Register, SendCmd, Become, dispatcherVars, queues
    <3>2. e \in Cmds /\ e.writer = c /\ e.act = "register"
      BY ZenonT(40) DEF Cmds
    <3> HIDE DEF e
    <3> QED
      BY ZenonT(40), <3>1, <3>2, CmdInvAppend
  <2> QED
    BY <2>1, <2>2, Zenon
<1>2. ASSUME NEW c \in Clients, Unregister(c) PROVE CmdInv'
  <2>1. CASE CmdClosed
    BY <1>2, <2>1, SMTT(30) DEF Unregister, SendCmd, Become, dispatcherVars, queues
  <2>2. CASE ~CmdClosed
    <3> DEFINE e == [act |-> "unregister", writer |-> c]
    <3>1. /\ cmd' = Append(cmd, e)
          /\ hpc[c] = "unregister" /\ hpc' = [hpc EXCEPT ![c] = "done"]
          /\ UNCHANGED <<joined, qClosed>>
      BY ZenonT(40), <1>2, <2>2 DEF Unregister, SendCmd, Become, dispatcherVars, queues
    <3>2. e \in Cmds /\ e.writer = c /\ e.act = "unregister"
      BY Zenon DEF Cmds
    <3> HIDE DEF e
    <3> QED
      BY <3>1, <3>2, CmdInvAppend, Zenon
  <2> QED
    BY <2>1, <2>2
<1>3. CASE DoRegister
  <2>1. Head(cmd).writer \in Clients /\ Head(cmd).act = "register" /\ cmd # <<>>
    BY <1>3, HeadCmd, Zenon DEF DoRegister, TypeOK
  <2>2. /\ cmd' = Tail(cmd)
        /\ joined' = [joined EXCEPT ![Head(cmd).writer] = TRUE]
        /\ UNCHANGED <<hpc, qClosed>>
    BY <1>3, Zenon DEF DoRegister, handlerVars, queues
  <2>3. \A c \in Clients : joined'[c] => joined[c] \/ (Head(cmd).act = "register" /\ Head(cmd).writer = c)
    BY <2>1, <2>2, Zenon
  <2> QED
    BY <2>1, <2>2, <2>3, CmdInvTail, Zenon
<1>4. CASE DoUnregister \/ DoStop
  <2>1. cmd # <<>> /\ cmd' = Tail(cmd) /\ UNCHANGED <<hpc, qClosed, joined>>
    BY <1>4 DEF DoUnregister, DoStop, handlerVars, queues
  <2> QED
    BY <2>1, CmdInvTail, Zenon
<1>5. CASE SendStop
  <2>1. /\ cmd' = Append(cmd, [act |-> "stop", writer |-> "nil"])
        /\ UNCHANGED <<hpc, qClosed, joined>>
    BY <1>5, Zenon DEF SendStop, handlerVars, queues, dispatcherVars
  <2>2. [act |-> "stop", writer |-> "nil"] \in Cmds
    BY Zenon DEF Cmds
  <2> QED
    BY ZenonT(40), <2>1, <2>2, CmdInvAppend
<1>6. ASSUME UNCHANGED <<cmd, joined>>, \A c \in Clients : qClosed[c] => qClosed'[c],
             \A c \in Clients : hpc'[c] \in {"idle", "register"} => hpc[c] \in {"idle", "register"},
             \A c \in Clients : hpc'[c] = "unregister" => hpc[c] = "unregister" \/ qClosed'[c]
      PROVE  CmdInv'
  <2>1. \A i \in 1..Len(cmd) : cmd[i].act = "unregister" => cmd[i].writer \in Clients
    BY DEF Cmds
  <2> QED
    BY <1>6, <2>1, SMTT(30)
<1>7. ASSUME NEW c \in Clients,
             \/ Request(c) \/ Open(c) \/ Cancelled(c) \/ KeepAliveErr(c) \/ Receive(c) \/ Write(c)
             \/ CloseQ(c)
      PROVE  CmdInv'
  <2>1. UNCHANGED <<cmd, joined>>
    BY <1>7, Zenon DEF Request, Open, Cancelled, KeepAliveErr, Receive, Write, CloseQ, dispatcherVars
  <2>2. \A d \in Clients : qClosed[d] => qClosed'[d]
    BY ZenonT(40), <1>7 DEF Request, Open, Cancelled, KeepAliveErr, Receive, Write, CloseQ, queues
  <2>3. \A d \in Clients \ {c} : hpc'[d] = hpc[d]
    BY ZenonT(30), <1>7 DEF Request, Open, Cancelled, KeepAliveErr, Receive, Write, CloseQ, Return, Become
  <2>4. hpc'[c] \in {"idle", "register"} => hpc[c] = "idle"
    BY <1>7, SMTT(30) DEF Request, Open, Cancelled, KeepAliveErr, Receive, Write, WriteErrors, CloseQ,
                Return, Become
  <2>5. hpc'[c] = "unregister" => qClosed'[c]
    BY <1>7 DEF Request, Open, Cancelled, KeepAliveErr, Receive, Write, WriteErrors, CloseQ,
                Return, Become
  <2> QED
    BY ZenonT(30), <1>6, <2>1, <2>2, <2>3, <2>4, <2>5
<1>11. CASE AcceptCloseQ
  <2>1. qClosed' = [qClosed EXCEPT ![Writers[dpos]] = TRUE] /\ UNCHANGED <<cmd, hpc, joined>>
    BY <1>11, Zenon DEF AcceptCloseQ, handlerVars
  <2>2. \A c \in Clients : qClosed[c] => qClosed'[c]
    BY <2>1, Zenon
  <2> QED
    BY ZenonT(30), <1>6, <2>1, <2>2
<1>12. CASE UNCHANGED <<cmd, hpc, qClosed, joined>>
  BY <1>12, Zenon
<1>13. ASSUME NEW ch \in Channels, Notify(ch) PROVE UNCHANGED <<cmd, hpc, qClosed, joined>>
  BY ONLY <1>13, Zenon DEF Notify, dispatcherVars, handlerVars, queues
<1>14. ASSUME ConnLost \/ Fetcher \/ Cancel \/ CloseConn \/ Proceed
       PROVE UNCHANGED <<cmd, hpc, qClosed, joined>>
  BY <1>14, Zenon DEF ConnLost, Fetcher, Fetch, FetchErr, FetchSend, Cancel, CloseConn, Proceed,
               dispatcherVars, handlerVars, queues
<1>15. ASSUME DispatchNotif \/ Accept \/ EndRange PROVE UNCHANGED <<cmd, hpc, qClosed, joined>>
  BY ZenonT(40), <1>15 DEF DispatchNotif, Accept, EndRange, handlerVars, queues
<1>16. ASSUME NEW c \in Clients, PeerGone(c) PROVE UNCHANGED <<cmd, hpc, qClosed, joined>>
  BY ZenonT(30), <1>16 DEF PeerGone, dispatcherVars, queues
<1>17. UNCHANGED vars => UNCHANGED <<cmd, hpc, qClosed, joined>>
  BY Zenon DEF vars, dispatcherVars, handlerVars, queues
<1> QED
  BY Zenon, <1>1, <1>2, <1>3, <1>4, <1>5, <1>7, <1>11, <1>12, <1>13, <1>14, <1>15, <1>16, <1>17
     DEF Next, Environment, DispatchCmd, DispatchRange, Handler, Stopper

\* Removing a writer from a list without duplicates leaves the others, once each.
LEMMA WithoutList ==
    ASSUME NEW ws \in Seq(Clients), NEW c \in Clients, Distinct(ws)
    PROVE  /\ Distinct(Without(ws, c))
           /\ \A d \in Clients : Listed(Without(ws, c), d) => Listed(ws, d)
           /\ \A d \in Clients \ {c} : Listed(ws, d) => Listed(Without(ws, c), d)
<1>1. CASE \A i \in 1..Len(ws) : ws[i] # c
  BY <1>1, Zenon DEF Without
<1>2. CASE ~(\A i \in 1..Len(ws) : ws[i] # c)
  <2> DEFINE u == Without(ws, c)
  <2>1. PICK k \in 1..Len(ws) : ws[k] = c
    BY <1>2
  <2>2. \A i \in 1..(Len(ws) - 1) : (\E j \in 1..i : ws[j] = c) <=> k <= i
    BY <2>1 DEF Distinct
  <2>3. u = [i \in 1..(Len(ws) - 1) |-> IF \E j \in 1..i : ws[j] = c THEN ws[i + 1] ELSE ws[i]]
    BY <1>2 DEF Without
  <2>4. Len(ws) - 1 \in Nat /\ u \in Seq(Clients) /\ DOMAIN u = 1..(Len(ws) - 1)
    BY <2>1, <2>3, WithoutType
  <2>5. Len(u) = Len(ws) - 1
    BY <2>4
  <2>6. \A i \in 1..Len(u) : u[i] = IF k <= i THEN ws[i + 1] ELSE ws[i]
    BY <2>2, <2>3, <2>5, Zenon
  <2>7. Distinct(u)
    BY <2>5, <2>6 DEF Distinct
  <2>8. \A d \in Clients : Listed(u, d) => Listed(ws, d)
    BY <2>5, <2>6 DEF Listed
  <2>9. ASSUME NEW d \in Clients \ {c}, Listed(ws, d) PROVE Listed(u, d)
    <3>1. PICK i \in 1..Len(ws) : ws[i] = d
      BY <2>9 DEF Listed
    <3>2. CASE i < k
      BY <2>1, <2>5, <2>6, <3>1, <3>2 DEF Listed
    <3>3. CASE i > k
      <4>1. i - 1 \in 1..Len(u) /\ u[i - 1] = ws[i]
        BY <2>1, <2>5, <2>6, <3>1, <3>3
      <4> QED
        BY <3>1, <4>1 DEF Listed
    <3> QED
      BY <2>1, <2>9, <3>1, <3>2, <3>3
  <2> QED
    BY <2>7, <2>8, <2>9
<1> QED
  BY <1>1, <1>2, Zenon

\* No step leaves WritersInv: the dispatcher's append and removal keep c2ws a set
\* of lists without duplicates.
LEMMA WritersInvInductive == IInv /\ [Next]_vars => WritersInv'
<1> SUFFICES ASSUME IInv, [Next]_vars PROVE WritersInv'
  OBVIOUS
<1> /\ c2ws \in [Channels -> Seq(Clients)] /\ joined \in [Clients -> BOOLEAN]
    /\ qClosed \in [Clients -> BOOLEAN] /\ cmd \in Seq(Cmds) /\ WritersInv /\ CmdInv
  BY Zenon DEF IInv, TypeOK, DispatcherTypes, HistoryTypes, QueueTypes, CmdTypes
<1>1. CASE DoRegister
  <2> DEFINE c == Head(cmd).writer
             ch == StreamChan[c]
  <2>1. c \in Clients /\ ~joined[c] /\ ch \in Channels
    <3>1. cmd # <<>> /\ Head(cmd) = cmd[1] /\ cmd[1].act = "register" /\ 1 \in 1..Len(cmd)
      BY <1>1 DEF DoRegister
    <3>2. cmd[1] \in Cmds
      BY <3>1
    <3>3. c \in Clients
      BY <3>1, <3>2, Zenon DEF Cmds
    <3> QED
      BY <3>1, <3>3, Zenon DEF CmdInv
  <2>2. /\ c2ws' = [c2ws EXCEPT ![ch] = Append(@, c)]
        /\ joined' = [joined EXCEPT ![c] = TRUE]
        /\ qClosed' = qClosed
    BY <1>1 DEF DoRegister, queues
  <2> HIDE DEF c, ch
  <2>5. /\ Len(Append(c2ws[ch], c)) = Len(c2ws[ch]) + 1
        /\ Append(c2ws[ch], c)[Len(c2ws[ch]) + 1] = c
        /\ \A i \in 1..Len(c2ws[ch]) : Append(c2ws[ch], c)[i] = c2ws[ch][i]
    BY <2>1
  <2>6. Len(c2ws[ch]) \in Nat
    BY <2>1
  <2>3. Distinct(Append(c2ws[ch], c))
    <3>1. ~Listed(c2ws[ch], c) /\ Distinct(c2ws[ch])
      BY <2>1 DEF WritersInv
    <3>2. \A i \in 1..Len(c2ws[ch]) : c2ws[ch][i] # c
      BY <3>1 DEF Listed
    <3>3. \A i, j \in 1..Len(c2ws[ch]) : c2ws[ch][i] = c2ws[ch][j] => i = j
      BY <3>1, Zenon DEF Distinct
    <3> SUFFICES ASSUME NEW i \in 1..(Len(c2ws[ch]) + 1), NEW j \in 1..(Len(c2ws[ch]) + 1),
                        Append(c2ws[ch], c)[i] = Append(c2ws[ch], c)[j]
                 PROVE  i = j
      BY <2>5, Zenon DEF Distinct
    <3>4. CASE i \in 1..Len(c2ws[ch]) /\ j \in 1..Len(c2ws[ch])
      BY <2>5, <3>3, <3>4
    <3>5. CASE i = Len(c2ws[ch]) + 1 \/ j = Len(c2ws[ch]) + 1
      BY <2>5, <2>6, <3>2, <3>5
    <3> QED
      BY <2>6, <3>4, <3>5
  <2>4. \A d \in Clients : Listed(Append(c2ws[ch], c), d) <=> Listed(c2ws[ch], d) \/ d = c
    BY <2>5, <2>6 DEF Listed
  <2> QED
    BY <2>1, <2>2, <2>3, <2>4, SMTT(30) DEF WritersInv, ch
<1>2. CASE DoUnregister
  <2> DEFINE c == Head(cmd).writer
             ch == StreamChan[c]
  <2>1. c \in Clients /\ qClosed[c] /\ ch \in Channels
    BY <1>2, SMTT(30) DEF DoUnregister, Cmds, CmdInv
  <2>2. c2ws' = [c2ws EXCEPT ![ch] = Without(@, c)] /\ UNCHANGED <<joined, qClosed>>
    BY <1>2 DEF DoUnregister, queues
  <2> HIDE DEF c, ch
  <2>3. Distinct(c2ws[ch])
    BY <2>1, Zenon DEF WritersInv
  <2>4. /\ Distinct(Without(c2ws[ch], c))
        /\ \A d \in Clients : Listed(Without(c2ws[ch], c), d) => Listed(c2ws[ch], d)
        /\ \A d \in Clients \ {c} : Listed(c2ws[ch], d) => Listed(Without(c2ws[ch], c), d)
    BY <2>1, <2>3, WithoutList, Zenon
  <2> QED
    BY <2>1, <2>2, <2>4, SMTT(30) DEF WritersInv
<1>3. CASE AcceptCloseQ
  BY <1>3, Zenon DEF AcceptCloseQ, WritersInv
<1>4. ASSUME NEW c \in Clients, CloseQ(c) PROVE WritersInv'
  BY <1>4 DEF CloseQ, dispatcherVars, WritersInv
<1>5. CASE UNCHANGED <<c2ws, joined, qClosed>>
  BY <1>5, Zenon DEF WritersInv
<1>6. ASSUME NEW ch \in Channels, Notify(ch) PROVE UNCHANGED <<c2ws, joined, qClosed>>
  BY <1>6, Zenon DEF Notify, dispatcherVars, queues
<1>7. ASSUME ConnLost \/ Fetcher \/ Cancel \/ Stopper PROVE UNCHANGED <<c2ws, joined, qClosed>>
  BY <1>7, Zenon DEF ConnLost, Fetcher, Fetch, FetchErr, FetchSend, Cancel, Stopper, CloseConn,
              SendStop, Proceed, dispatcherVars, queues
<1>8. ASSUME DoStop \/ DispatchNotif \/ Accept \/ EndRange PROVE UNCHANGED <<c2ws, joined, qClosed>>
  BY <1>8, Zenon DEF DoStop, DispatchNotif, Accept, EndRange, queues
<1>9. ASSUME NEW c \in Clients,
             \/ Register(c) \/ Open(c) \/ Receive(c) \/ Cancelled(c) \/ Write(c)
             \/ Unregister(c) \/ Request(c) \/ KeepAliveErr(c) \/ PeerGone(c)
      PROVE UNCHANGED <<c2ws, joined, qClosed>>
  BY <1>9, Zenon DEF Register, Open, Receive, Cancelled, Write, Unregister, SendCmd, Request,
              KeepAliveErr, PeerGone, dispatcherVars, queues
<1>10. UNCHANGED vars => UNCHANGED <<c2ws, joined, qClosed>>
  BY Zenon DEF vars, dispatcherVars, queues
<1> QED
  BY <1>1, <1>2, <1>3, <1>4, <1>5, <1>6, <1>7, <1>8, <1>9, <1>10, Zenon
     DEF Next, Environment, DispatchCmd, DispatchRange, Handler

\* No step leaves DispatchInv: the range over the writers ends before the next
\* notification is received.
LEMMA DispatchInvInductive == IInv /\ [Next]_vars => DispatchInv'
<1> SUFFICES ASSUME TypeOK, DispatchInv, [Next]_vars PROVE DispatchInv'
  BY Zenon DEF IInv
<1> USE DEF DispatchInv
<1>1. CASE DispatchNotif
  <2> DEFINE ch == Head(in).chan
  <2>1. ch \in Channels /\ log[ch] \in Seq(1..MaxNotifs)
    BY <1>1, HeadNotif, Zenon DEF DispatchNotif, TypeOK, HistoryTypes
  <2>2. log'[ch] = Append(log[ch], Head(in).n) /\ dnotif' = Head(in)
    BY <1>1, <2>1, Zenon DEF DispatchNotif, TypeOK, HistoryTypes
  <2> QED
    BY <2>1, <2>2, SMTT(30)
<1>2. CASE UNCHANGED <<dpc, dnotif, log>>
  BY <1>2, Zenon
<1>3. CASE DoStop \/ EndRange
  BY <1>3, Zenon DEF DoStop, EndRange
<1>4. CASE DispatchRange
  BY <1>3, <1>4, Zenon DEF DispatchRange, Accept, AcceptCloseQ
<1>5. CASE DispatchCmd
  BY ZenonT(40), <1>2, <1>3, <1>5 DEF DispatchCmd, DoRegister, DoUnregister
<1>6. ASSUME NEW ch \in Channels, Notify(ch) PROVE UNCHANGED <<dpc, dnotif, log>>
  BY <1>6, Zenon DEF Notify, dispatcherVars
<1>7. ASSUME ConnLost \/ Fetcher \/ Cancel \/ Stopper PROVE UNCHANGED <<dpc, dnotif, log>>
  BY <1>7 DEF ConnLost, Fetcher, Fetch, FetchErr, FetchSend, Cancel, Stopper, CloseConn,
              SendStop, Proceed, dispatcherVars
<1>8. ASSUME NEW c \in Clients, Handler(c) \/ Request(c) \/ KeepAliveErr(c) \/ PeerGone(c)
      PROVE UNCHANGED <<dpc, dnotif, log>>
  BY ZenonT(30), <1>8 DEF Handler, Register, Open, Receive, Cancelled, Write, CloseQ, Unregister, SendCmd,
              Request, KeepAliveErr, PeerGone, dispatcherVars
<1>9. UNCHANGED vars => UNCHANGED <<dpc, dnotif, log>>
  BY Zenon DEF vars, dispatcherVars
<1> QED
  BY <1>1, <1>2, <1>4, <1>5, <1>6, <1>7, <1>8, <1>9 DEF Next, Environment

\* No step leaves NewInv: accept is called for registered writers only.
LEMMA NewInvInductive == IInv /\ [Next]_vars => NewInv'
<1> SUFFICES ASSUME IInv, [Next]_vars PROVE NewInv'
  OBVIOUS
<1> /\ joined \in [Clients -> BOOLEAN] /\ q \in [Clients -> Seq(1..MaxNotifs)] /\ NewInv
    /\ hpc \in [Clients -> HandlerSteps] /\ got \in [Clients -> Seq(0..MaxNotifs)]
  BY Zenon DEF IInv, TypeOK, HistoryTypes, QueueTypes, HandlerTypes
<1>1. CASE DoRegister
  BY <1>1, Zenon DEF DoRegister, handlerVars, queues, NewInv
<1>2. CASE Accept
  <2>1. dnotif.chan \in Channels /\ Writers \in Seq(Clients) /\ dpos \in 1..Len(Writers)
    <3>1. dpc = "range" /\ dpos <= Len(Writers) /\ DispatcherTypes
      BY <1>2, Zenon DEF Accept, IInv, TypeOK
    <3> QED
      BY <3>1, CurrentNotif, SMTT(30)
  <2>2. Writers[dpos] \in Clients /\ joined[Writers[dpos]]
    <3>1. Listed(c2ws[dnotif.chan], Writers[dpos]) /\ Writers[dpos] \in Clients
      BY ONLY <2>1, ListElement, Zenon DEF Writers, Listed
    <3> QED
      BY <2>1, <3>1, Zenon DEF IInv, WritersInv
  <2>3. UNCHANGED <<joined, got, hpc>>
    BY <1>2, Zenon DEF Accept, handlerVars
  <2>4. \A c \in Clients \ {Writers[dpos]} : q'[c] = q[c]
    BY <1>2, Zenon DEF Accept
  <2> QED
    BY <2>2, <2>3, <2>4, Zenon DEF NewInv
<1>3. ASSUME NEW c \in Clients, Receive(c) PROVE NewInv'
  <2>1. UNCHANGED <<joined, got>> /\ \A d \in Clients \ {c} : q'[d] = q[d] /\ hpc'[d] = hpc[d]
    BY <1>3, Zenon DEF Receive, Return, Become, dispatcherVars
  <2>2. ~joined[c] => q[c] = <<>> /\ q'[c] = q[c] /\ hpc'[c] = "unregister"
    BY <1>3, Zenon DEF Receive, Return, Become, NewInv
  <2> QED
    BY <2>1, <2>2, Zenon DEF NewInv
<1>4. ASSUME NEW c \in Clients, Write(c) PROVE NewInv'
  <2>1. joined[c] /\ UNCHANGED <<joined, q>>
    BY <1>4, Zenon DEF Write, NewInv, dispatcherVars, queues
  <2>2. \A d \in Clients \ {c} : got'[d] = got[d] /\ hpc'[d] = hpc[d]
    BY <1>4, Zenon DEF Write, WriteErrors, Return, Become
  <2> QED
    BY <2>1, <2>2, Zenon DEF NewInv
<1>5. ASSUME NEW c \in Clients,
             \/ Register(c) \/ Open(c) \/ Cancelled(c) \/ CloseQ(c) \/ Unregister(c)
             \/ Request(c) \/ KeepAliveErr(c)
      PROVE NewInv'
  <2>1. UNCHANGED <<joined, q, got>>
    BY <1>5, Zenon DEF Register, Open, Cancelled, CloseQ, Unregister, SendCmd, Request, KeepAliveErr,
                dispatcherVars, queues
  <2>2. \A d \in Clients : hpc'[d] = "write" => hpc[d] = "write"
    BY <1>5, Zenon DEF Register, Open, Cancelled, CloseQ, Unregister, SendCmd, Request, KeepAliveErr,
                Return, Become
  <2> QED
    BY <2>1, <2>2, Zenon DEF NewInv
<1>6. CASE UNCHANGED <<joined, q, got, hpc>>
  BY <1>6, Zenon DEF NewInv
<1>7. ASSUME NEW ch \in Channels, Notify(ch) PROVE UNCHANGED <<joined, q, got, hpc>>
  BY <1>7, Zenon DEF Notify, dispatcherVars, handlerVars, queues
<1>8. ASSUME ConnLost \/ Fetcher \/ Cancel \/ Stopper PROVE UNCHANGED <<joined, q, got, hpc>>
  BY <1>8, Zenon DEF ConnLost, Fetcher, Fetch, FetchErr, FetchSend, Cancel, Stopper, CloseConn,
              SendStop, Proceed, dispatcherVars, handlerVars, queues
<1>9. ASSUME DoUnregister \/ DoStop \/ DispatchNotif \/ AcceptCloseQ \/ EndRange
      PROVE UNCHANGED <<joined, q, got, hpc>>
  BY <1>9, Zenon DEF DoUnregister, DoStop, DispatchNotif, AcceptCloseQ, EndRange, handlerVars, queues
<1>10. ASSUME NEW c \in Clients, PeerGone(c) PROVE UNCHANGED <<joined, q, got, hpc>>
  BY <1>10, Zenon DEF PeerGone, dispatcherVars, queues
<1>11. UNCHANGED vars => UNCHANGED <<joined, q, got, hpc>>
  BY Zenon DEF vars, dispatcherVars, handlerVars, queues
<1> QED
  BY <1>1, <1>2, <1>3, <1>4, <1>5, <1>6, <1>7, <1>8, <1>9, <1>10, <1>11, Zenon
     DEF Next, Environment, DispatchCmd, DispatchRange, Handler

\* A segment of a log is a segment of the log extended.
LEMMA SegmentExtends ==
    ASSUME NEW l \in Seq(0..MaxNotifs), NEW p \in 0..MaxNotifs, NEW s \in Nat, NEW g \in Seq(0..MaxNotifs),
           Segment(l, s, g)
    PROVE  Segment(Append(l, p), s, g)
<1>1. Len(l) \in Nat /\ Len(g) \in Nat /\ Len(Append(l, p)) = Len(l) + 1
  OBVIOUS
<1>2. \A i \in 1..Len(l) : Append(l, p)[i] = l[i]
  OBVIOUS
<1>3. \A i \in 1..Len(g) : s + i \in 1..Len(l)
  BY <1>1 DEF Segment
<1> QED
  BY <1>1, <1>2, <1>3 DEF Segment

\* The entry of the log after a segment extends the segment.
LEMMA SegmentAppend ==
    ASSUME NEW l \in Seq(0..MaxNotifs), NEW s \in Nat, NEW g \in Seq(0..MaxNotifs),
           NEW p \in 0..MaxNotifs,
           Segment(l, s, g), s + Len(g) < Len(l), p = l[s + Len(g) + 1]
    PROVE  Segment(l, s, Append(g, p))
<1> DEFINE h == Append(g, p)
           k == Len(g)
<1>1. Len(l) \in Nat /\ k \in Nat /\ Len(h) = k + 1 /\ h[k + 1] = p
  BY SMTT(30)
<1>2. \A i \in 1..Len(h) : (i \in 1..k /\ h[i] = g[i]) \/ (i = k + 1 /\ h[i] = p)
  BY AppendElements
<1>3. \A i \in 1..k : g[i] = l[s + i]
  BY DEF Segment
<1>4. p = l[s + (k + 1)]
  BY <1>1
<1> HIDE DEF h, k
<1>5. \A i \in 1..Len(h) : h[i] = l[s + i]
  BY Zenon, <1>2, <1>3, <1>4
<1>6. s + Len(h) <= Len(l)
  BY <1>1, SMTT(30) DEF k
<1> QED
  BY Zenon, <1>5, <1>6 DEF Segment, h

\* Dropping the first entry of a segment leaves the segment one further on.
LEMMA SegmentTail ==
    ASSUME NEW l \in Seq(0..MaxNotifs), NEW s \in Nat, NEW g \in Seq(0..MaxNotifs), g # <<>>,
           Segment(l, s, g)
    PROVE  Segment(l, s + 1, Tail(g)) /\ s < Len(l) /\ Head(g) = l[s + 1]
<1> DEFINE h == Tail(g)
           k == Len(g)
           n == Len(l)
<1>1. n \in Nat /\ k \in Nat \ {0} /\ Len(h) = k - 1 /\ Head(g) = g[1]
  OBVIOUS
<1>2. \A i \in 1..(k - 1) : h[i] = g[i + 1]
  OBVIOUS
<1>3. s + k <= n /\ \A i \in 1..k : g[i] = l[s + i]
  BY Zenon DEF Segment
<1> HIDE DEF h, k, n
<1>4. \A i \in 1..(k - 1) : i + 1 \in 1..k /\ s + (i + 1) = (s + 1) + i
  BY <1>1, SMTT(30)
<1>5. \A i \in 1..(k - 1) : h[i] = l[(s + 1) + i]
  BY <1>2, <1>3, <1>4, Zenon
<1>6. (s + 1) + (k - 1) <= n /\ s < n /\ 1 \in 1..k
  BY <1>1, <1>3, SMTT(30)
<1>7. Segment(l, s + 1, h)
  BY <1>1, <1>5, <1>6, Zenon DEF Segment, n
<1> QED
  BY <1>1, <1>3, <1>6, <1>7, Zenon DEF h, n

\* A step that leaves alone what FeedInv(c) reads, or ends c's loop, preserves it.
LEMMA FeedFrame ==
    ASSUME NEW c \in Clients, FeedInv(c),
           joined'[c] = joined[c], start'[c] = start[c], got'[c] = got[c],
           log'[StreamChan[c]] = log[StreamChan[c]], q'[c] = q[c], held'[c] = held[c],
           qClosed[c] => qClosed'[c],
           Live(c)' => Live(c) /\ (hpc'[c] = "write" <=> hpc[c] = "write"),
           ~qClosed'[c] => (Dispatching(c)' <=> Dispatching(c))
    PROVE  FeedInv(c)'
<1>1. Live(c)' => Taken(c)' = Taken(c)
  BY Zenon DEF Taken
<1> QED
  BY ZenonT(40), <1>1 DEF FeedInv

\* FeedInv across the dispatcher's select and the end of its range: a new
\* notification is pending for every registered writer of its channel.
LEMMA DispatchSteps ==
    ASSUME IInv, NEW c \in Clients,
           DoRegister \/ DoUnregister \/ DoStop \/ DispatchNotif \/ EndRange
    PROVE  FeedInv(c)'
<1> /\ joined \in [Clients -> BOOLEAN] /\ start \in [Clients -> Nat]
    /\ got \in [Clients -> Seq(0..MaxNotifs)] /\ log \in [Channels -> Seq(1..MaxNotifs)]
    /\ q \in [Clients -> Seq(1..MaxNotifs)] /\ qClosed \in [Clients -> BOOLEAN]
    /\ c2ws \in [Channels -> Seq(Clients)] /\ FeedInv(c) /\ StreamChan[c] \in Channels
  BY ClientsAssumption, Zenon DEF IInv, TypeOK, HistoryTypes, QueueTypes, DispatcherTypes
<1>1. CASE DoRegister
  <2> DEFINE d == Head(cmd).writer
  <2>1. /\ joined' = [joined EXCEPT ![d] = TRUE]
        /\ start' = [start EXCEPT ![d] = Len(log[StreamChan[d]])]
        /\ dpc = "select" /\ UNCHANGED <<dpc, log, hpc, held, got, q, qClosed>>
    BY <1>1 DEF DoRegister, handlerVars, queues
  <2>2. ~Dispatching(c) /\ ~Dispatching(c)'
    BY ZenonT(30), <2>1 DEF Dispatching
  <2>3. Live(c)' = Live(c) /\ Taken(c)' = Taken(c)
    BY <2>1 DEF Live, Taken
  <2> HIDE DEF d
  <2>4. CASE d # c
    BY ZenonT(30), <2>1, <2>2, <2>3, <2>4, FeedFrame
  <2>5. CASE d = c
    <3>1. ~joined[c]
      <4>1. Head(cmd) = cmd[1] /\ 1 \in 1..Len(cmd)
        BY <1>1, HeadCmd, Zenon DEF DoRegister, IInv, TypeOK
      <4> QED
        BY <1>1, <2>5, <4>1, Zenon DEF d, DoRegister, IInv, CmdInv
    <3>2. q[c] = <<>> /\ got[c] = <<>> /\ hpc[c] # "write"
      BY <3>1, Zenon DEF IInv, NewInv
    <3>3. start'[c] = Len(log'[StreamChan[c]]) /\ q'[c] = <<>> /\ got'[c] = <<>>
          /\ hpc'[c] # "write" /\ start'[c] \in Nat /\ Len(q'[c]) = 0 /\ Len(got'[c]) = 0
      BY <2>1, <2>5, <3>2
    <3>4. Taken(c)' = 0
      <4>1. Taken(c)' = 0 + 0
        BY ONLY <3>3, Zenon DEF Taken
      <4> QED
        BY ONLY <4>1
    <3>5. Segment(log'[StreamChan[c]], start'[c], got'[c])
      BY ONLY <3>3, SMTT(30) DEF Segment
    <3>6. Segment(log'[StreamChan[c]], start'[c] + Taken(c)', q'[c])
      <4>1. start'[c] + 0 = start'[c] /\ q'[c] = got'[c]
        BY ONLY <3>3, SMTT(30)
      <4> QED
        BY ONLY <3>4, <3>5, <4>1, Zenon
    <3>7. Len(log'[StreamChan[c]]) = start'[c] + Taken(c)' + Len(q'[c]) + 0
      <4>1. \A n \in Nat : n = n + 0 + 0 + 0
        BY SMTT(30)
      <4> QED
        BY ONLY <3>3, <3>4, <4>1, Zenon
    <3> QED
      BY <2>2, <3>3, <3>5, <3>6, <3>7, ZenonT(30) DEF FeedInv
  <2> QED
    BY <2>4, <2>5, Zenon
<1>2. CASE DoUnregister \/ DoStop \/ EndRange
  <2>1. UNCHANGED <<joined, start, got, log, q, held, qClosed, hpc>>
    BY ZenonT(40), <1>2 DEF DoUnregister, DoStop, EndRange, handlerVars, queues
  <2>2. dpc' # "range" /\ dpc' # "closeQ"
    BY Zenon, <1>2 DEF DoUnregister, DoStop, EndRange
  <2>3. ~Dispatching(c)'
    BY <2>2, Zenon DEF Dispatching
  <2>4. ~Dispatching(c)
    <3>1. CASE dpc = "select"
      BY <3>1, Zenon DEF Dispatching
    <3>2. CASE EndRange
      <4>1. dnotif.chan \in Channels /\ dpos \in Nat /\ dpos > Len(Writers)
        BY <3>2, NotifFields, Zenon DEF EndRange, IInv, TypeOK, DispatcherTypes
      <4>2. Len(Writers) \in Nat
        BY <4>1 DEF Writers
      <4> QED
        BY <4>1, <4>2, SMTT(30) DEF Dispatching
    <3> QED
      BY <1>2, <3>1, <3>2, Zenon DEF DoUnregister, DoStop
  <2>5. Live(c)' = Live(c)
    BY <2>1, Zenon DEF Live
  <2> QED
    BY <2>1, <2>3, <2>4, <2>5, FeedFrame
<1>3. CASE DispatchNotif
  <2> DEFINE ch == Head(in).chan
  <2>1. ch \in Channels
    BY <1>3, HeadNotif, Zenon DEF DispatchNotif, IInv, TypeOK
  <2>2. /\ log' = [log EXCEPT ![ch] = Append(@, Head(in).n)] /\ dpc = "select" /\ dpc' = "range"
        /\ dnotif'.chan = ch /\ dpos' = 1
        /\ UNCHANGED <<joined, start, got, q, held, qClosed, hpc, c2ws>>
    BY <1>3, Zenon DEF DispatchNotif, handlerVars, queues
  <2>3. ~Dispatching(c)
    BY <2>2, SMTT(30) DEF Dispatching
  <2>4. Live(c)' = Live(c) /\ Taken(c)' = Taken(c)
    BY <2>2 DEF Live, Taken
  <2> HIDE DEF ch
  <2>5. CASE ch # StreamChan[c]
    <3>1. ~Dispatching(c)'
      BY <2>2, <2>5 DEF Dispatching
    <3> QED
      BY ZenonT(40), <2>2, <2>3, <2>4, <2>5, <3>1, FeedFrame
  <2>6. CASE ch = StreamChan[c]
    <3> DEFINE l == log[StreamChan[c]]
    <3>1. log'[StreamChan[c]] = Append(l, Head(in).n)
      BY <2>2, <2>6, Zenon
    <3>2. Len(log'[StreamChan[c]]) = Len(l) + 1 /\ \A i \in 1..Len(l) : log'[StreamChan[c]][i] = l[i]
      <4>1. l \in Seq(1..MaxNotifs)
        BY SMTT(30)
      <4>2. Head(in).n \in 1..MaxNotifs
        BY <1>3, HeadNotif, Zenon DEF DispatchNotif, IInv, TypeOK
      <4> HIDE DEF l
      <4>3. l \in Seq(0..MaxNotifs) /\ Head(in).n \in 0..MaxNotifs
        BY ONLY <4>1, <4>2, WithZero, Zenon
      <4>4. /\ Len(Append(l, Head(in).n)) = Len(l) + 1
            /\ \A i \in 1..Len(l) : Append(l, Head(in).n)[i] = l[i]
        BY ONLY <4>3, AppendNotif, Zenon
      <4> QED
        BY ONLY <3>1, <4>4, Zenon
    <3>3. joined[c] /\ ~qClosed[c] => Dispatching(c)'
      <4>1. joined[c] /\ ~qClosed[c] => \E i \in 1..Len(c2ws[StreamChan[c]]) : c2ws[StreamChan[c]][i] = c
        BY Zenon DEF IInv, WritersInv, Listed
      <4>2. Writers' = c2ws[StreamChan[c]]
        BY <2>2, <2>6, Zenon DEF Writers
      <4> QED
        BY <2>2, <2>6, <4>1, <4>2, Zenon DEF Dispatching
    <3>4. /\ start[c] \in Nat /\ Len(got[c]) \in Nat /\ Len(q[c]) \in Nat /\ Taken(c) \in Nat
          /\ Len(l) \in Nat
      BY DEF Taken
    <3>5. Head(in).n \in 0..MaxNotifs
      <4>1. Head(in).n \in 1..MaxNotifs
        BY <1>3, HeadNotif DEF DispatchNotif, IInv, TypeOK
      <4> QED
        BY ONLY <4>1
    <3>6. start[c] + Taken(c) \in Nat /\ q[c] \in Seq(0..MaxNotifs) /\ l \in Seq(0..MaxNotifs)
      BY <3>4, SMTT(30)
    <3> SUFFICES ASSUME joined[c] PROVE FeedInv(c)'
      BY ZenonT(40), <2>2 DEF FeedInv
    <3>7. Segment(l, start[c], got[c]) =>  Segment(log'[StreamChan[c]], start[c], got[c])
      BY <3>1, <3>4, <3>5, <3>6, SegmentExtends, SMTT(30)
    <3>8. Segment(l, start[c] + Taken(c), q[c]) => Segment(log'[StreamChan[c]], start[c] + Taken(c), q[c])
      BY <3>1, <3>4, <3>5, <3>6, SegmentExtends
    <3>9. Live(c) /\ hpc[c] = "write" =>
             /\ start[c] + Len(got[c]) < Len(log'[StreamChan[c]])
             /\ held[c] = log'[StreamChan[c]][start[c] + Len(got[c]) + 1]
      <4>1. Live(c) /\ hpc[c] = "write" => start[c] + Len(got[c]) < Len(l)
                                           /\ held[c] = l[start[c] + Len(got[c]) + 1]
        BY Zenon DEF FeedInv
      <4> DEFINE k == start[c] + Len(got[c])
                 m == log'[StreamChan[c]]
      <4>2. k \in Nat /\ Len(l) \in Nat /\ Len(m) = Len(l) + 1
        BY ONLY <3>2, <3>4
      <4>6. \A i \in 1..Len(l) : m[i] = l[i]
        BY ONLY <3>2, Zenon
      <4>3. Live(c) /\ hpc[c] = "write" => k < Len(l) /\ held[c] = l[k + 1]
        BY ONLY <4>1
      <4> HIDE DEF k, m, l
      <4>4. k < Len(l) => k + 1 \in 1..Len(l) /\ k < Len(m)
        BY ONLY <4>2, SMTT(30)
      <4>5. Live(c) /\ hpc[c] = "write" => k < Len(m) /\ held[c] = m[k + 1]
        BY ONLY <4>3, <4>4, <4>6, Zenon
      <4> QED
        BY ZenonT(30), <4>5 DEF k, m
    <3>10. Live(c) /\ ~qClosed[c] => Len(log'[StreamChan[c]]) = start[c] + Taken(c) + Len(q[c]) + 1
      <4>1. Live(c) /\ ~qClosed[c] => Len(l) = start[c] + Taken(c) + Len(q[c]) + 0
        BY <2>3 DEF FeedInv
      <4> DEFINE s == start[c]
                 t == Taken(c)
                 m == Len(q[c])
                 n == Len(l)
      <4>2. s \in Nat /\ t \in Nat /\ m \in Nat /\ n \in Nat
        BY ONLY <3>4, Zenon
      <4>3. Live(c) /\ ~qClosed[c] => n = s + t + m + 0
        BY ONLY <4>1, Zenon
      <4>5. Len(log'[StreamChan[c]]) = n + 1
        BY ONLY <3>2
      <4> HIDE DEF s, t, m, n
      <4>4. Live(c) /\ ~qClosed[c] => n + 1 = s + t + m + 1
        BY ONLY <4>2, <4>3
      <4> QED
        BY ONLY <4>4, <4>5, ZenonT(30) DEF s, t, m
    <3> QED
      BY Zenon, <2>2, <2>4, <3>3, <3>7, <3>8, <3>9, <3>10 DEF FeedInv
  <2> QED
    BY <2>5, <2>6, Zenon
<1> QED
  BY <1>1, <1>2, <1>3, Zenon

\* FeedInv across accept: the pending notification is queued, or the queue is
\* closed.
LEMMA AcceptSteps ==
    ASSUME IInv, NEW c \in Clients, Accept \/ AcceptCloseQ
    PROVE  FeedInv(c)'
<1> /\ joined \in [Clients -> BOOLEAN] /\ start \in [Clients -> Nat]
    /\ got \in [Clients -> Seq(0..MaxNotifs)] /\ log \in [Channels -> Seq(1..MaxNotifs)]
    /\ q \in [Clients -> Seq(1..MaxNotifs)] /\ qClosed \in [Clients -> BOOLEAN]
    /\ c2ws \in [Channels -> Seq(Clients)] /\ FeedInv(c) /\ StreamChan[c] \in Channels
  BY ClientsAssumption, Zenon DEF IInv, TypeOK, HistoryTypes, QueueTypes, DispatcherTypes
<1>1. /\ dnotif.chan \in Channels /\ dnotif.n \in 1..MaxNotifs /\ Writers \in Seq(Clients)
      /\ dpos \in 1..Len(Writers) /\ dpc \in {"range", "closeQ"}
  <2>1. dpc \in {"range", "closeQ"} /\ DispatcherTypes
    BY DEF Accept, AcceptCloseQ, IInv, TypeOK
  <2>2. dpos <= Len(Writers)
    BY Zenon DEF Accept, AcceptCloseQ, Writers, IInv, TypeOK, DispatcherTypes
  <2> QED
    BY <2>1, <2>2, CurrentNotif
<1>13. Writers[dpos] \in Clients /\ Listed(Writers, Writers[dpos])
  BY ONLY <1>1, ListElement, Zenon DEF Listed
<1> PICK w \in Clients : w = Writers[dpos]
  BY <1>13
<1>2. StreamChan[w] = dnotif.chan
  <2>1. Listed(c2ws[dnotif.chan], w)
    BY <1>13, Zenon DEF Writers
  <2> QED
    BY Zenon, <1>1, <2>1 DEF IInv, WritersInv
<1>3. Distinct(Writers)
  BY <1>1 DEF Writers, IInv, WritersInv
<1>4. UNCHANGED <<joined, start, got, log, held, hpc, dnotif, c2ws>> /\ Writers' = Writers
  BY Zenon DEF Accept, AcceptCloseQ, handlerVars, queues, Writers
<1>5. Live(c)' = Live(c) /\ Taken(c)' = Taken(c)
  BY <1>4, Zenon DEF Live, Taken
<1>6. dpc' \in {"range", "closeQ"} /\ (dpos' = dpos \/ dpos' = dpos + 1)
  BY Zenon DEF Accept, AcceptCloseQ
<1>7. Dispatching(w)
  BY <1>1, <1>2, SMTT(30) DEF Dispatching
<1>8. dpos' = dpos + 1 => ~Dispatching(w)'
  <2>1. \A i \in (dpos + 1)..Len(Writers) : Writers[i] # w
    BY <1>1, <1>3 DEF Distinct
  <2> QED
    BY <1>4, <2>1, Zenon DEF Dispatching
<1>9. c # w => (Dispatching(c)' <=> Dispatching(c))
  <2> SUFFICES ASSUME c # w PROVE Dispatching(c)' <=> Dispatching(c)
    OBVIOUS
  <2>1. \A i \in dpos..Len(Writers) : Writers[i] = c => i \in (dpos + 1)..Len(Writers)
    <3> TAKE i \in dpos..Len(Writers)
    <3>1. dpos \in Nat /\ Len(Writers) \in Nat
      BY <1>1
    <3>2. i = dpos \/ i \in (dpos + 1)..Len(Writers)
      BY <3>1
    <3> QED
      BY <3>2
  <2>2. \A i \in (dpos + 1)..Len(Writers) : i \in dpos..Len(Writers)
    BY <1>1
  <2> QED
    BY Zenon, <1>1, <1>4, <1>6, <2>1, <2>2 DEF Dispatching
<1>10. CASE c # w
  <2>1. q'[c] = q[c] /\ qClosed'[c] = qClosed[c]
    BY ZenonT(30), <1>2, <1>10 DEF Accept, AcceptCloseQ
  <2> QED
    BY Zenon, <1>4, <1>5, <1>9, <1>10, <2>1, FeedFrame
<1>11. CASE c = w /\ AcceptCloseQ
  <2>1. q'[c] = q[c] /\ qClosed'[c]
    BY <1>2, <1>11, Zenon DEF AcceptCloseQ
  <2> QED
    BY <1>4, <1>5, <2>1, FeedFrame, Zenon
<1>12. CASE c = w /\ Accept
  <2>1. CASE q' = q
    <3>1. dpos' = dpos /\ qClosed' = qClosed
      <4>1. q[w] \in Seq(1..MaxNotifs) /\ dnotif.n \in 1..MaxNotifs
        BY ZenonT(40), <1>1
      <4>3. q[w] \in Seq(0..MaxNotifs) /\ dnotif.n \in 0..MaxNotifs
        BY ONLY <4>1, WithZero, Zenon
      <4>2. Append(q[w], dnotif.n) # q[w]
        BY ONLY <4>3, AppendNotif, Zenon
      <4> QED
        BY <1>12, <2>1, <4>2 DEF Accept
    <3>2. Dispatching(c)'
      BY <1>4, <1>6, <1>7, <1>12, <3>1 DEF Dispatching
    <3> QED
      BY <1>4, <1>5, <1>7, <1>12, <2>1, <3>1, <3>2, FeedFrame, ZenonT(30)
  <2>2. CASE q' = [q EXCEPT ![w] = Append(@, dnotif.n)] /\ ~qClosed[w] /\ dpos' = dpos + 1
    <3> DEFINE l == log[StreamChan[c]]
    <3>1. /\ q'[c] = Append(q[c], dnotif.n) /\ ~qClosed[c] /\ qClosed' = qClosed
          /\ ~Dispatching(c)' /\ Dispatching(c)
      BY <1>2, <1>7, <1>8, <1>12, <2>2, Zenon DEF Accept
    <3>2. Len(q'[c]) = Len(q[c]) + 1
      <4>1. q[c] \in Seq(1..MaxNotifs) /\ dnotif.n \in 1..MaxNotifs
        BY <1>1, Zenon
      <4>2. q[c] \in Seq(0..MaxNotifs) /\ dnotif.n \in 0..MaxNotifs
        BY ONLY <4>1, WithZero, SMTT(30)
      <4>3. Len(Append(q[c], dnotif.n)) = Len(q[c]) + 1
        BY ONLY <4>2, AppendNotif
      <4> QED
        BY ONLY <3>1, <4>3
    <3>3. l[Len(l)] = dnotif.n
      BY Zenon, <1>1, <1>2, <1>12 DEF IInv, DispatchInv
    <3>4. /\ start[c] \in Nat /\ Len(got[c]) \in Nat /\ Len(q[c]) \in Nat /\ Taken(c) \in Nat
          /\ Len(l) \in Nat
      BY SMTT(30) DEF Taken
    <3>5. Live(c) /\ joined[c] => Len(l) = start[c] + Taken(c) + Len(q[c]) + 1
      BY Zenon, <3>1 DEF FeedInv
    <3>6. /\ start[c] + Taken(c) \in Nat /\ q[c] \in Seq(0..MaxNotifs) /\ l \in Seq(0..MaxNotifs)
      BY <3>4, SMTT(30)
    <3>9. dnotif.n \in 0..MaxNotifs
      BY <1>1, SMTT(30)
    <3>7. Live(c) /\ joined[c] => Segment(l, start[c] + Taken(c), q'[c])
      <4>1. Live(c) /\ joined[c] => Segment(l, start[c] + Taken(c), q[c])
        BY ZenonT(40) DEF FeedInv
      <4>2. Live(c) /\ joined[c] => /\ start[c] + Taken(c) + Len(q[c]) < Len(l)
                                    /\ dnotif.n = l[start[c] + Taken(c) + Len(q[c]) + 1]
        <5> DEFINE k == start[c] + Taken(c) + Len(q[c])
                   n == Len(l)
        <5>1. k \in Nat
          BY ONLY <3>4, SMTT(30)
        <5>3. Live(c) /\ joined[c] => n = k + 1
          BY ONLY <3>5, Zenon
        <5>4. dnotif.n = l[n]
          BY ONLY <3>3, Zenon
        <5> HIDE DEF k, n, l
        <5>5. n = k + 1 => k < n
          BY ONLY <5>1
        <5>2. Live(c) /\ joined[c] => k < n /\ dnotif.n = l[k + 1]
          BY ONLY <5>3, <5>4, <5>5, Zenon
        <5> QED
          BY ONLY Zenon, <5>2 DEF k, n
      <4> QED
        <5>1. Live(c) /\ joined[c] => Segment(l, start[c] + Taken(c), Append(q[c], dnotif.n))
          BY ONLY ZenonT(40), <3>6, <3>9, <4>1, <4>2, SegmentAppend
        <5> QED
          BY ONLY <3>1, <5>1, Zenon
    <3>8. Live(c) /\ joined[c] => Len(l) = start[c] + Taken(c) + Len(q'[c]) + 0
      <4>1. Len(q'[c]) \in Nat /\ Len(q'[c]) = Len(q[c]) + 1
        BY ONLY <3>2, <3>4, SMTT(30)
      <4> DEFINE k == Len(q'[c])
                 m == Len(q[c])
                 a == Len(l)
                 s == start[c]
                 t == Taken(c)
      <4>2. k \in Nat /\ m \in Nat /\ a \in Nat /\ s \in Nat /\ t \in Nat /\ k = m + 1
        BY <3>4, <4>1, Zenon
      <4>3. Live(c) /\ joined[c] => a = s + t + m + 1
        BY <3>5, Zenon
      <4> HIDE DEF k, m, a, s, t
      <4>4. Live(c) /\ joined[c] => a = s + t + k + 0
        BY ONLY <4>2, <4>3, SMTT(30)
      <4> QED
        BY <4>4 DEF k, a, s, t
    <3> QED
      BY ZenonT(30), <1>4, <1>5, <3>1, <3>7, <3>8 DEF FeedInv
  <2> QED
    BY <1>12, <2>1, <2>2, Zenon DEF Accept
<1> QED
  BY <1>10, <1>11, <1>12, Zenon

\* FeedInv across the receive from q: the payload moves from q to the handler.
LEMMA ReceiveSteps ==
    ASSUME IInv, NEW c \in Clients, NEW d \in Clients, Receive(d)
    PROVE  FeedInv(c)'
<1>1. /\ start[c] \in Nat /\ Len(got[c]) \in Nat /\ q[c] \in Seq(0..MaxNotifs)
      /\ log[StreamChan[c]] \in Seq(0..MaxNotifs) /\ FeedInv(c)
  BY ClientsAssumption, SMTT(30) DEF IInv, TypeOK, HistoryTypes, QueueTypes
<1>2. hpc \in [Clients -> HandlerSteps] /\ held \in [Clients -> 0..MaxNotifs]
      /\ q \in [Clients -> Seq(1..MaxNotifs)]
  BY DEF IInv, TypeOK, HandlerTypes, QueueTypes
<1>3. UNCHANGED <<joined, start, got, log, qClosed, dpc, dnotif, dpos, c2ws>>
  BY Zenon DEF Receive, dispatcherVars
<1>4. Dispatching(c)' = Dispatching(c)
  BY <1>3 DEF Dispatching, Writers
<1>5. CASE d # c
  <2>1. hpc'[c] = hpc[c] /\ held'[c] = held[c] /\ q'[c] = q[c]
    BY <1>2, <1>5 DEF Receive, Return, Become
  <2> QED
    BY ZenonT(30), <1>1, <1>3, <1>4, <2>1, FeedFrame DEF Live
<1>6. CASE d = c /\ q[c] = <<>>
  <2>1. ~Live(c)' /\ q'[c] = q[c] /\ held'[c] = held[c]
    BY <1>2, <1>6 DEF Receive, Return, Become, Live
  <2> QED
    BY ZenonT(30), <1>1, <1>3, <1>4, <2>1, FeedFrame
<1>7. CASE d = c /\ q[c] # <<>>
  <2> DEFINE l == log[StreamChan[c]]
  <2>1. /\ hpc[c] = "loop" /\ hpc'[c] = "write" /\ held'[c] = Head(q[c]) /\ q'[c] = Tail(q[c])
    BY <1>2, <1>7, Zenon DEF Receive, Become
  <2>2. Live(c) /\ Live(c)' /\ Taken(c) = Len(got[c]) + 0 /\ Taken(c)' = Len(got[c]) + 1
    BY <1>3, <2>1, Zenon DEF Live, Taken
  <2>3. /\ Taken(c) \in Nat /\ start[c] + Taken(c) \in Nat
        /\ (start[c] + Taken(c)) + 1 = start[c] + Taken(c)'
        /\ Taken(c) = Len(got[c])
    <3> DEFINE g == Len(got[c])
               s == start[c]
               t == Taken(c)
               u == Taken(c)'
    <3>1. g \in Nat /\ s \in Nat /\ t = g + 0 /\ u = g + 1
      BY <1>1, <2>2, Zenon
    <3> HIDE DEF g, s, t, u
    <3>2. t \in Nat /\ s + t \in Nat /\ (s + t) + 1 = s + u /\ t = g
      BY ONLY <3>1, SMTT(30)
    <3> QED
      BY <3>2, Zenon DEF g, s, t, u
  <2> SUFFICES ASSUME joined[c] PROVE FeedInv(c)'
    BY <1>3, ZenonT(30) DEF FeedInv
  <2>4. Segment(l, start[c] + Taken(c), q[c])
    BY <1>1, <2>2, Zenon DEF FeedInv
  <2>5. /\ Segment(l, (start[c] + Taken(c)) + 1, Tail(q[c]))
        /\ start[c] + Taken(c) < Len(l) /\ Head(q[c]) = l[(start[c] + Taken(c)) + 1]
    BY ZenonT(30), <1>1, <1>7, <2>3, <2>4, SegmentTail
  <2>6. Segment(l, start[c] + Taken(c)', q'[c])
    BY <2>1, <2>3, <2>5, Zenon
  <2>7. start[c] + Len(got[c]) < Len(l) /\ held'[c] = l[start[c] + Len(got[c]) + 1]
    BY <2>1, <2>3, <2>5, Zenon
  <2>8. ~qClosed[c] => Len(l) = start[c] + Taken(c)' + Len(q'[c]) + (IF Dispatching(c) THEN 1 ELSE 0)
    <3> DEFINE k == Len(q[c])
               m == Len(q'[c])
               s == start[c]
               t == Taken(c)
               u == Taken(c)'
               x == IF Dispatching(c) THEN 1 ELSE 0
    <3>1. k \in Nat /\ m \in Nat /\ k = m + 1
      BY <1>1, <1>7, <2>1, SMTT(30)
    <3>2. s \in Nat /\ t \in Nat /\ u = t + 1 /\ x \in Nat
      BY <1>1, <2>2, <2>3, Zenon
    <3>3. ~qClosed[c] => Len(l) = s + t + k + x
      BY <1>1, <2>2, Zenon DEF FeedInv
    <3> HIDE DEF k, m, s, t, u, x, l
    <3>4. ~qClosed[c] => Len(l) = s + u + m + x
      BY ONLY <3>1, <3>2, <3>3, SMTT(30)
    <3> QED
      BY <3>4, Zenon DEF s, u, m, x
  <2>9. Segment(l, start[c], got[c])
    BY <1>1, Zenon DEF FeedInv
  <2> QED
    BY ZenonT(30), <1>3, <1>4, <2>6, <2>7, <2>8, <2>9 DEF FeedInv
<1> QED
  BY <1>5, <1>6, <1>7, Zenon

\* FeedInv across a write: the held payload is the one due, and moves to got.
LEMMA WriteSteps ==
    ASSUME IInv, NEW c \in Clients, NEW d \in Clients, Write(d)
    PROVE  FeedInv(c)'
<1>1. /\ start[c] \in Nat /\ Len(got[c]) \in Nat /\ got[c] \in Seq(0..MaxNotifs)
      /\ log[StreamChan[c]] \in Seq(0..MaxNotifs) /\ FeedInv(c) /\ held[c] \in 0..MaxNotifs
  BY ClientsAssumption, SMTT(30) DEF IInv, TypeOK, HistoryTypes, HandlerTypes
<1>2. hpc \in [Clients -> HandlerSteps] /\ held \in [Clients -> 0..MaxNotifs]
      /\ got \in [Clients -> Seq(0..MaxNotifs)]
  BY Zenon DEF IInv, TypeOK, HandlerTypes, HistoryTypes
<1>3. UNCHANGED <<joined, start, q, log, qClosed, dpc, dnotif, dpos, c2ws>>
  BY DEF Write, dispatcherVars, queues
<1>4. Dispatching(c)' = Dispatching(c)
  BY <1>3 DEF Dispatching, Writers
<1>5. CASE d # c
  <2>1. hpc'[c] = hpc[c] /\ held'[c] = held[c] /\ got'[c] = got[c]
    BY <1>2, <1>5 DEF Write, Return, Become
  <2> QED
    BY ZenonT(30), <1>1, <1>3, <1>4, <2>1, FeedFrame DEF Live
<1>6. CASE d = c /\ got' = got
  <2>1. ~Live(c)'
    <3>1. Append(got[c], held[c]) # got[c]
      BY ONLY <1>1, AppendNotif, Zenon
    <3>2. \E r \in WriteErrors(c) : Return(c, r)
      BY <1>2, <1>6, <3>1, Zenon DEF Write
    <3>3. hpc'[c] \in {"unregister", "closing"}
      BY <1>2, <3>2 DEF Return, Become
    <3> QED
      BY <3>3, Zenon DEF Live
  <2> QED
    BY Zenon, <1>1, <1>3, <1>6, <2>1 DEF FeedInv
<1>7. CASE d = c /\ got' = [got EXCEPT ![c] = Append(@, held[c])] /\ Become(c, "loop")
  <2> DEFINE l == log[StreamChan[c]]
  <2>1. hpc[c] = "write" /\ hpc'[c] = "loop" /\ got'[c] = Append(got[c], held[c])
    BY <1>2, <1>7, Zenon DEF Write, Become
  <2>2. Len(got'[c]) = Len(got[c]) + 1
    BY <1>1, <2>1
  <2>3. Live(c) /\ Live(c)' /\ Taken(c) = Len(got[c]) + 1 /\ Taken(c)' = Len(got'[c]) + 0
    BY <2>1, Zenon DEF Live, Taken
  <2>4. Taken(c)' = Taken(c)
    <3>1. \A n \in Nat : (n + 1) + 0 = n + 1
      OBVIOUS
    <3> QED
      BY ONLY <1>1, <2>2, <2>3, <3>1, Zenon
  <2> SUFFICES ASSUME joined[c] PROVE FeedInv(c)'
    BY ZenonT(40), <1>3 DEF FeedInv
  <2>5. /\ Segment(l, start[c], got[c]) /\ start[c] + Len(got[c]) < Len(l)
        /\ held[c] = l[start[c] + Len(got[c]) + 1]
    BY ZenonT(40), <1>1, <2>1, <2>3 DEF FeedInv
  <2>6. Segment(l, start[c], got'[c])
    <3>1. Segment(l, start[c], Append(got[c], held[c]))
      BY <1>1, <2>5, SegmentAppend, Zenon
    <3> QED
      BY ONLY ZenonT(30), <2>1, <3>1
  <2>7. /\ Segment(l, start[c] + Taken(c), q[c])
        /\ ~qClosed[c] => Len(l) = start[c] + Taken(c) + Len(q[c]) + (IF Dispatching(c) THEN 1 ELSE 0)
    BY ZenonT(40), <1>1, <2>3 DEF FeedInv
  <2> QED
    BY ZenonT(30), <1>3, <1>4, <2>1, <2>4, <2>6, <2>7 DEF FeedInv
<1> QED
  BY <1>5, <1>6, <1>7, Zenon DEF Write

\* No step leaves FeedInv.
LEMMA FeedInvInductive ==
    ASSUME IInv, [Next]_vars, NEW c \in Clients
    PROVE  FeedInv(c)'
<1>1. FeedInv(c) /\ hpc \in [Clients -> HandlerSteps] /\ CmdInv /\ NewInv /\ joined[c] \in BOOLEAN
  BY Zenon DEF IInv, TypeOK, HandlerTypes, HistoryTypes
<1>2. ASSUME UNCHANGED <<joined, start, got, log, q, held, dpc, dnotif, dpos, c2ws>>,
             qClosed[c] => qClosed'[c],
             Live(c)' => Live(c) /\ (hpc'[c] = "write" <=> hpc[c] = "write")
      PROVE  FeedInv(c)'
  <2>1. Dispatching(c)' = Dispatching(c)
    BY <1>2, SMTT(30) DEF Dispatching, Writers
  <2> QED
    BY <1>1, <1>2, <2>1, FeedFrame, Zenon
<1>3. ASSUME NEW d \in Clients,
             \/ Open(d) \/ Cancelled(d) \/ CloseQ(d) \/ Unregister(d) \/ Request(d)
             \/ KeepAliveErr(d)
      PROVE  FeedInv(c)'
  <2>1. UNCHANGED <<joined, start, got, log, q, held, dpc, dnotif, dpos, c2ws>>
    BY ZenonT(30), <1>3 DEF Open, Cancelled, CloseQ, Unregister, SendCmd, Request, KeepAliveErr,
                dispatcherVars, queues
  <2>2. qClosed[c] => qClosed'[c]
    <3>1. qClosed \in [Clients -> BOOLEAN]
      BY Zenon DEF IInv, TypeOK, QueueTypes
    <3> QED
      BY <1>3, <3>1, Zenon DEF Open, Cancelled, CloseQ, Unregister, SendCmd, Request, KeepAliveErr, queues
  <2>3. Live(c)' => Live(c) /\ (hpc'[c] = "write" <=> hpc[c] = "write")
    BY <1>1, <1>3 DEF Open, Cancelled, CloseQ, Unregister, SendCmd, Request, KeepAliveErr,
                      Return, Become, Live
  <2> QED
    BY <1>2, <2>1, <2>2, <2>3
<1>4. ASSUME NEW d \in Clients, Register(d) PROVE FeedInv(c)'
  <2>1. UNCHANGED <<joined, start, got, log, q, held, dpc, dnotif, dpos, c2ws, qClosed>>
    BY <1>4, Zenon DEF Register, SendCmd, dispatcherVars, queues
  <2>2. CASE d = c
    <3>1. ~joined[c]
      BY <1>1, <1>4, <2>2, Zenon DEF Register, CmdInv
    <3> QED
      BY <2>1, <3>1, ZenonT(30) DEF FeedInv
  <2>3. CASE d # c
    <3>1. hpc'[c] = hpc[c]
      BY <1>1, <1>4, <2>3, Zenon DEF Register, SendCmd, Become
    <3> QED
      BY <1>2, <2>1, <3>1, Zenon DEF Live
  <2> QED
    BY <2>2, <2>3, Zenon
<1>5. UNCHANGED <<joined, start, got, log, q, held, dpc, dnotif, dpos, c2ws, hpc, qClosed>> => FeedInv(c)'
  BY <1>2, SMTT(30) DEF Live
<1>6. ASSUME NEW ch \in Channels, Notify(ch)
      PROVE  UNCHANGED <<joined, start, got, log, q, held, dpc, dnotif, dpos, c2ws, hpc, qClosed>>
  BY <1>6 DEF Notify, dispatcherVars, handlerVars, queues
<1>7. ASSUME ConnLost \/ Fetcher \/ Cancel \/ Stopper
      PROVE  UNCHANGED <<joined, start, got, log, q, held, dpc, dnotif, dpos, c2ws, hpc, qClosed>>
  BY ZenonT(40), <1>7 DEF ConnLost, Fetcher, Fetch, FetchErr, FetchSend, Cancel, Stopper, CloseConn,
              SendStop, Proceed, dispatcherVars, handlerVars, queues
<1>8. ASSUME NEW d \in Clients, PeerGone(d)
      PROVE  UNCHANGED <<joined, start, got, log, q, held, dpc, dnotif, dpos, c2ws, hpc, qClosed>>
  BY <1>8, SMTT(30) DEF PeerGone, dispatcherVars, queues
<1>9. UNCHANGED vars =>
        UNCHANGED <<joined, start, got, log, q, held, dpc, dnotif, dpos, c2ws, hpc, qClosed>>
  BY DEF vars, dispatcherVars, handlerVars, queues
<1>10. ASSUME DispatchCmd \/ DispatchNotif \/ DispatchRange PROVE FeedInv(c)'
  BY <1>10, DispatchSteps, AcceptSteps, Zenon DEF DispatchCmd, DispatchRange
<1>11. ASSUME NEW d \in Clients, Handler(d) PROVE FeedInv(c)'
  BY <1>3, <1>4, <1>11, ReceiveSteps, WriteSteps DEF Handler
<1> QED
  BY <1>3, <1>5, <1>6, <1>7, <1>8, <1>9, <1>10, <1>11, Zenon DEF Next, Environment

\* The invariant holds when notifDispatcher.start returns.
LEMMA InitIInv == Init => IInv
<1> SUFFICES ASSUME Init PROVE IInv
  BY Zenon
<1>1. CmdInv
  <2>1. \A i \in 1..Len(cmd) : FALSE
    BY DEF Init
  <2>2. \A c \in Clients : hpc[c] = "idle" /\ ~joined[c]
    BY ZenonT(40) DEF Init
  <2> QED
    BY ONLY <2>1, <2>2, Zenon DEF CmdInv
<1>2. WritersInv
  <2>1. \A ch \in Channels : \A i \in 1..Len(c2ws[ch]) : FALSE
    BY DEF Init
  <2>2. \A c \in Clients : ~joined[c]
    BY ZenonT(40) DEF Init
  <2> QED
    BY Zenon, <2>1, <2>2 DEF WritersInv, Distinct, Listed
<1>3. DispatchInv /\ NewInv
  BY SMTT(30) DEF Init, DispatchInv, NewInv
<1>4. \A c \in Clients : FeedInv(c)
  BY DEF Init, FeedInv
<1> QED
  BY <1>1, <1>2, <1>3, <1>4, InitTypes DEF IInv

\* The inductive invariant.
LEMMA StreamsIInv == Spec => []IInv
<1>1. IInv /\ [Next]_vars => IInv'
  <2> SUFFICES ASSUME IInv, [Next]_vars PROVE IInv'
    OBVIOUS
  <2>1. TypeOK'
    BY TypeInductive DEF IInv
  <2>2. CmdInv' /\ WritersInv' /\ DispatchInv' /\ NewInv'
    BY CmdInvInductive, WritersInvInductive, DispatchInvInductive, NewInvInductive
  <2>3. \A c \in Clients : FeedInv(c)'
    BY FeedInvInductive
  <2> QED
    BY <2>1, <2>2, <2>3 DEF IInv
<1> QED
  BY <1>1, InitIInv, PTL DEF Spec

\* NoSilentLoss, for any number of clients, channels and notifications and any
\* capacity of the queues: a stream that is still served has lost nothing.
THEOREM StreamsNoSilentLoss == Spec => []NoSilentLoss
<1>1. IInv => NoSilentLoss
  <2> SUFFICES ASSUME IInv, NEW c \in Clients,
                      joined[c], hpc[c] \in {"open", "loop", "write"}, ~qClosed[c]
               PROVE  Len(log[StreamChan[c]]) - start[c] =
                        Len(got[c]) + Len(q[c]) + (IF hpc[c] = "write" THEN 1 ELSE 0)
                                    + (IF Dispatching(c) THEN 1 ELSE 0)
    BY Zenon DEF NoSilentLoss
  <2> DEFINE l == Len(log[StreamChan[c]])
             s == start[c]
             g == Len(got[c])
             k == Len(q[c])
             w == IF hpc[c] = "write" THEN 1 ELSE 0
             x == IF Dispatching(c) THEN 1 ELSE 0
  <2>1. l \in Nat /\ s \in Nat /\ g \in Nat /\ k \in Nat /\ w \in Nat /\ x \in Nat
    BY ClientsAssumption DEF IInv, TypeOK, HistoryTypes, QueueTypes
  <2>2. l = s + (g + w) + k + x
    BY Zenon DEF IInv, FeedInv, Live, Taken
  <2> HIDE DEF l, s, g, k, w, x
  <2>3. l - s = g + k + w + x
    BY ONLY <2>1, <2>2
  <2> QED
    BY Zenon, <2>3 DEF l, s, g, k, w, x
<1> QED
  BY <1>1, StreamsIInv, PTL

\* The streams implement StreamFeed: registering a writer joins the client,
\* receiving a notification from nd.in publishes it, a successful write delivers
\* the notification that is due, and nothing else touches what the clients see.
THEOREM StreamsImplementFeed == Spec => FeedSpec
<1>1. Init => Feed!Init
  BY Zenon DEF Init, Feed!Init
<1>2. IInv /\ [Next]_vars => [Feed!Next]_(Feed!vars)
  <2> SUFFICES ASSUME IInv, [Next]_vars PROVE Feed!Next \/ UNCHANGED <<log, joined, start, got>>
    BY DEF Feed!vars
  <2>1. CASE DoRegister
    <3> DEFINE c == Head(cmd).writer
    <3>1. Head(cmd) = cmd[1] /\ cmd[1].act = "register" /\ 1 \in 1..Len(cmd) /\ c \in Clients
      BY <2>1, HeadCmd DEF DoRegister, IInv, TypeOK
    <3>3. c \in Clients
      BY <3>1
    <3>4. ~joined[c]
      BY ZenonT(30), <3>1, <3>3 DEF IInv, CmdInv
    <3>5. Feed!Join(c)
      BY <2>1, <3>4, Zenon DEF DoRegister, Feed!Join, handlerVars
    <3> QED
      BY <3>3, <3>5, Zenon DEF Feed!Next
  <2>2. CASE DispatchNotif
    <3>1. Head(in).chan \in Channels /\ Head(in).n \in 1..MaxNotifs
      BY <2>2, HeadNotif DEF DispatchNotif, IInv, TypeOK
    <3>2. Feed!Publish(Head(in).chan)
      BY ZenonT(40), <2>2, <3>1 DEF DispatchNotif, Feed!Publish, handlerVars
    <3> QED
      BY <3>1, <3>2, SMTT(30) DEF Feed!Next
  <2>3. ASSUME NEW c \in Clients, Write(c) PROVE Feed!Next \/ UNCHANGED <<log, joined, start, got>>
    <3>1. UNCHANGED <<log, joined, start>>
      BY <2>3, Zenon DEF Write, dispatcherVars
    <3>2. CASE got' = got
      BY <3>1, <3>2
    <3>3. CASE got' = [got EXCEPT ![c] = Append(@, held[c])]
      <4>1. hpc[c] = "write" /\ joined[c]
        BY ZenonT(30), <2>3 DEF Write, IInv, NewInv
      <4>2. start[c] + Len(got[c]) < Len(log[StreamChan[c]])
            /\ held[c] = log[StreamChan[c]][start[c] + Len(got[c]) + 1]
        BY <4>1, Zenon DEF IInv, FeedInv, Live
      <4>3. start[c] \in Nat /\ Len(got[c]) \in Nat /\ Len(log[StreamChan[c]]) \in Nat
        BY ClientsAssumption DEF IInv, TypeOK, HistoryTypes
      <4>4. Feed!Due(c) <= Len(log[StreamChan[c]])
        BY <4>2, <4>3, SMTT(30) DEF Feed!Due
      <4>5. Feed!Deliver(c)
        BY <3>1, <3>3, <4>1, <4>2, <4>4, SMTT(30) DEF Feed!Deliver, Feed!Due
      <4> QED
        BY <4>5 DEF Feed!Next
    <3> QED
      BY <2>3, <3>2, <3>3, Zenon DEF Write
  <2>4. ASSUME NEW ch \in Channels, Notify(ch) PROVE UNCHANGED <<log, joined, start, got>>
    BY <2>4 DEF Notify, dispatcherVars, handlerVars
  <2>5. ASSUME ConnLost \/ Fetcher \/ Cancel \/ Stopper PROVE UNCHANGED <<log, joined, start, got>>
    BY ZenonT(30), <2>5 DEF ConnLost, Fetcher, Fetch, FetchErr, FetchSend, Cancel, Stopper, CloseConn,
                SendStop, Proceed, dispatcherVars, handlerVars
  <2>6. ASSUME DoUnregister \/ DoStop \/ DispatchRange PROVE UNCHANGED <<log, joined, start, got>>
    BY <2>6 DEF DoUnregister, DoStop, DispatchRange, Accept, AcceptCloseQ, EndRange, handlerVars
  <2>7. ASSUME NEW c \in Clients,
               \/ Register(c) \/ Open(c) \/ Receive(c) \/ Cancelled(c) \/ CloseQ(c)
               \/ Unregister(c) \/ Request(c) \/ KeepAliveErr(c) \/ PeerGone(c)
        PROVE UNCHANGED <<log, joined, start, got>>
    BY ZenonT(40), <2>7 DEF Register, Open, Receive, Cancelled, CloseQ, Unregister, SendCmd, Request,
                KeepAliveErr, PeerGone, dispatcherVars, handlerVars
  <2>8. UNCHANGED vars => UNCHANGED <<log, joined, start, got>>
    BY Zenon DEF vars, dispatcherVars, handlerVars
  <2> QED
    BY <2>1, <2>2, <2>3, <2>4, <2>5, <2>6, <2>7, <2>8 DEF Next, Environment, DispatchCmd, Handler
<1> QED
  BY <1>1, <1>2, StreamsIInv, PTL DEF Spec, FeedSpec, Feed!Spec

-----------------------------------------------------------------------------
(* The order of the notifications *)

\* The notifications on their way to the dispatcher: in nd.in, in the hands of
\* the fetcher, and on the connection.
Pipe == in \o (IF fpc = "send" THEN <<fnotif>> ELSE <<>>) \o wire

\* The pipe p holds the notifications of every channel between the first l[ch]
\* and the first s[ch], in order.
Consecutive(p, l, s) ==
    /\ \A ch \in Channels : Len(l[ch]) <= s[ch]
    /\ \A i \in 1..Len(p) : Len(l[p[i].chan]) < p[i].n /\ p[i].n <= s[p[i].chan]
    /\ \A i, j \in 1..Len(p) : i < j /\ p[i].chan = p[j].chan => p[i].n < p[j].n
    /\ \A ch \in Channels : \A n \in (Len(l[ch]) + 1)..s[ch] :
         \E i \in 1..Len(p) : p[i].chan = ch /\ p[i].n = n

OrderInv == DispatchInOrder /\ (~Crashed => Consecutive(Pipe, log, sent))

\* What is on its way.
LEMMA PipeType == PipelineTypes => Pipe \in Seq(Notifs)
  BY DEF PipelineTypes, Pipe

\* How the steps of PostgreSQL, the fetcher and the dispatcher move a pipe of the three
\* parts a, m and w: at its ends, or not at all.
PipeEnds(a, m, w, e) ==
    /\ (a \o m) \o Append(w, e) = Append((a \o m) \o w, e)
    /\ w # <<>> => (a \o <<>>) \o w = (a \o <<Head(w)>>) \o Tail(w)
    /\ (a \o <<e>>) \o w = (Append(a, e) \o <<>>) \o w
    /\ a # <<>> => /\ (a \o m) \o w # <<>>
                   /\ Head((a \o m) \o w) = Head(a)
                   /\ (Tail(a) \o m) \o w = Tail((a \o m) \o w)

LEMMA PipeMoves ==
    ASSUME NEW S, NEW a \in Seq(S), NEW m \in Seq(S), NEW w \in Seq(S), NEW e \in S
    PROVE  PipeEnds(a, m, w, e)
<1>1. a \o m \in Seq(S)
  BY ConcatSeq
<1>2. (a \o m) \o Append(w, e) = Append((a \o m) \o w, e)
  BY <1>1, ConcatAppend
<1>3. ASSUME a # <<>>
      PROVE  /\ (a \o m) \o w # <<>>
             /\ Head((a \o m) \o w) = Head(a)
             /\ (Tail(a) \o m) \o w = Tail((a \o m) \o w)
  <2>1. ASSUME NEW u \in Seq(S), NEW v \in Seq(S), u # <<>>
        PROVE  u \o v # <<>> /\ Head(u \o v) = Head(u) /\ Tail(u) \o v = Tail(u \o v)
    BY <2>1, ConcatHead
  <2>2. a \o m # <<>> /\ Head(a \o m) = Head(a) /\ Tail(a) \o m = Tail(a \o m)
    BY <1>3, <2>1, Zenon
  <2> QED
    BY <1>1, <2>1, <2>2, Zenon
<1>4. a \o <<>> = a /\ Append(a, e) \o <<>> = a \o <<e>>
  OBVIOUS
<1>5. ASSUME w # <<>> PROVE a \o w = (a \o <<Head(w)>>) \o Tail(w)
  BY <1>5
<1> QED
  BY <1>2, <1>3, <1>4, <1>5, Zenon DEF PipeEnds

\* The types of a pipe, of what is logged and of what is sent.
PipeTypes(p, l, s) ==
    /\ p \in Seq(Notifs)
    /\ l \in [Channels -> Seq(1..MaxNotifs)]
    /\ s \in [Channels -> 0..MaxNotifs]

\* A notification that is sent joins the end of the pipe.
LEMMA ConsecutiveAppend ==
    ASSUME NEW p, NEW l, NEW s, PipeTypes(p, l, s), NEW ch \in Channels, s[ch] < MaxNotifs,
           Consecutive(p, l, s)
    PROVE  Consecutive(Append(p, [chan |-> ch, n |-> s[ch] + 1]), l, [s EXCEPT ![ch] = @ + 1])
<1> DEFINE e == [chan |-> ch, n |-> s[ch] + 1]
           P == Append(p, e)
           S == [s EXCEPT ![ch] = @ + 1]
<1>1. e \in Notifs /\ e.chan = ch /\ e.n = s[ch] + 1 /\ s[ch] \in Nat
  BY DEF Notifs, PipeTypes
<1>2. /\ Len(P) = Len(p) + 1 /\ Len(p) \in Nat /\ P[Len(p) + 1] = e
      /\ \A i \in 1..Len(p) : P[i] = p[i] /\ p[i] \in Notifs
      /\ \A i \in 1..Len(P) : i \in 1..Len(p) \/ i = Len(p) + 1
  <2> HIDE DEF e
  <2>1. p \in Seq(Notifs)
    BY Zenon DEF PipeTypes
  <2> QED
    BY ONLY <1>1, <2>1, AppendSeq DEF P
<1>3. \A d \in Channels : s[d] \in Nat /\ Len(l[d]) \in Nat
  BY DEF PipeTypes
<1>10. S[ch] = s[ch] + 1 /\ \A d \in Channels \ {ch} : S[d] = s[d]
  BY DEF PipeTypes
<1>4. \A i \in 1..Len(p) : p[i].chan \in Channels /\ p[i].n \in Nat
  BY <1>2, NotifFields
<1> HIDE DEF e, P, S
<1>11. \A d \in Channels : S[d] \in Nat /\ s[d] <= S[d]
  <2> TAKE d \in Channels
  <2>1. CASE d = ch
    BY <1>3, <1>10, <2>1
  <2>2. CASE d # ch
    BY <1>3, <1>10, <2>2
  <2> QED
    BY <2>1, <2>2, Zenon
<1>12. \A d \in Channels : Len(l[d]) <= s[d]
  BY Zenon DEF Consecutive
<1>5. \A d \in Channels : Len(l[d]) <= S[d]
  BY <1>3, <1>11, <1>12
<1>6. \A i \in 1..Len(P) : Len(l[P[i].chan]) < P[i].n /\ P[i].n <= S[P[i].chan]
  <2> SUFFICES ASSUME NEW i \in 1..Len(P)
               PROVE  Len(l[P[i].chan]) < P[i].n /\ P[i].n <= S[P[i].chan]
    OBVIOUS
  <2>1. CASE i \in 1..Len(p)
    <3>1. P[i] = p[i] /\ p[i].chan \in Channels /\ p[i].n \in Nat
      BY <1>2, <1>4, <2>1, Zenon
    <3>2. Len(l[p[i].chan]) < p[i].n /\ p[i].n <= s[p[i].chan]
      BY <2>1, Zenon DEF Consecutive
    <3> QED
      BY <1>3, <1>11, <3>1, <3>2
  <2>2. CASE i = Len(p) + 1
    BY <1>1, <1>2, <1>3, <1>10, <1>12, <2>2
  <2> QED
    BY <1>2, <2>1, <2>2, Zenon
<1>7. \A i, j \in 1..Len(P) : i < j /\ P[i].chan = P[j].chan => P[i].n < P[j].n
  <2> SUFFICES ASSUME NEW i \in 1..Len(P), NEW j \in 1..Len(P), i < j, P[i].chan = P[j].chan
               PROVE  P[i].n < P[j].n
    OBVIOUS
  <2>1. i \in 1..Len(p)
    BY <1>2
  <2>2. CASE j \in 1..Len(p)
    BY <1>2, <2>1, <2>2, ZenonT(30) DEF Consecutive
  <2>3. CASE j = Len(p) + 1
    <3>1. P[i] = p[i] /\ P[j] = e /\ p[i].n \in Nat
      BY <1>2, <1>4, <2>1, <2>3, Zenon
    <3>2. p[i].n <= s[p[i].chan]
      BY <2>1, Zenon DEF Consecutive
    <3> QED
      BY <1>1, <3>1, <3>2
  <2> QED
    BY <1>2, <2>2, <2>3, Zenon
<1>8. ASSUME NEW d \in Channels, NEW n \in (Len(l[d]) + 1)..S[d]
      PROVE  \E i \in 1..Len(P) : P[i].chan = d /\ P[i].n = n
  <2>1. CASE n \in (Len(l[d]) + 1)..s[d]
    <3>1. PICK i \in 1..Len(p) : p[i].chan = d /\ p[i].n = n
      BY <2>1, Zenon DEF Consecutive
    <3>2. i \in 1..Len(P) /\ P[i] = p[i]
      BY <1>2
    <3> QED
      BY <3>1, <3>2, Zenon
  <2>2. CASE d = ch /\ n = s[ch] + 1
    <3>1. Len(p) + 1 \in 1..Len(P)
      BY <1>2
    <3> QED
      BY <1>1, <1>2, <2>2, <3>1, Zenon
  <2>3. d # ch => S[d] = s[d]
    BY <1>10, Zenon
  <2>4. n \in Nat
    BY <1>3, <1>11
  <2> QED
    BY <1>1, <1>3, <1>10, <2>1, <2>2, <2>3, <2>4
<1>9. Consecutive(P, l, S)
  BY <1>5, <1>6, <1>7, <1>8, ZenonT(30) DEF Consecutive
<1> QED
  BY <1>9, Zenon DEF P, S, e

\* The notification at the front of the pipe is the next one of its channel, and
\* the rest of the pipe continues from there.
LEMMA ConsecutiveTail ==
    ASSUME NEW p, NEW l, NEW s, PipeTypes(p, l, s), p # <<>>, Consecutive(p, l, s)
    PROVE  /\ Head(p).n = Len(l[Head(p).chan]) + 1
           /\ Consecutive(Tail(p), [l EXCEPT ![Head(p).chan] = Append(@, Head(p).n)], s)
<1> DEFINE e == Head(p)
           ch == e.chan
           P == Tail(p)
           L == [l EXCEPT ![ch] = Append(@, e.n)]
<1>11. p \in Seq(Notifs)
  BY DEF PipeTypes
<1>1. e \in Notifs /\ ch \in Channels /\ e.n \in 1..MaxNotifs /\ e = p[1] /\ 1 \in 1..Len(p) /\ Len(p) \in Nat
  BY <1>11, NotifFields
<1>2. /\ Len(P) = Len(p) - 1 /\ Len(P) \in Nat
      /\ \A i \in 1..Len(P) : P[i] = p[i + 1] /\ i + 1 \in 1..Len(p)
  BY <1>11
<1>3. /\ \A d \in Channels : Len(l[d]) \in Nat /\ s[d] \in Nat
      /\ \A d \in Channels : Len(L[d]) = IF d = ch THEN Len(l[d]) + 1 ELSE Len(l[d])
  BY <1>1 DEF PipeTypes
<1>4. \A i \in 1..Len(p) : p[i].chan \in Channels /\ p[i].n \in Nat
  BY <1>11, NotifFields, SeqElement
<1> HIDE DEF e, ch, P, L
<1>5. e.n = Len(l[ch]) + 1
  <2>1. Len(l[ch]) < e.n /\ e.n <= s[ch]
    BY <1>1, Zenon DEF Consecutive, ch
  <2>2. Len(l[ch]) + 1 \in (Len(l[ch]) + 1)..s[ch]
    BY <1>1, <1>3, <2>1
  <2>3. PICK i \in 1..Len(p) : p[i].chan = ch /\ p[i].n = Len(l[ch]) + 1
    BY <1>1, <2>2, Zenon DEF Consecutive
  <2>4. 1 < i => e.n < p[i].n
    BY <1>1, <2>3 DEF Consecutive, ch
  <2> QED
    BY <1>1, <1>3, <2>1, <2>3, <2>4
<1>6. \A d \in Channels : Len(L[d]) <= s[d]
  BY <1>1, <1>3, <1>5 DEF Consecutive, ch
<1>7. ASSUME NEW i \in 1..Len(P)
      PROVE  Len(L[P[i].chan]) < P[i].n /\ P[i].n <= s[P[i].chan]
  <2>1. /\ P[i].chan \in Channels /\ P[i].n \in Nat
        /\ Len(l[P[i].chan]) < P[i].n /\ P[i].n <= s[P[i].chan]
    <3>1. \A k \in 1..Len(p) : Len(l[p[k].chan]) < p[k].n /\ p[k].n <= s[p[k].chan]
      BY Zenon DEF Consecutive
    <3> QED
      BY <1>2, <1>4, <3>1, Zenon
  <2>2. P[i].chan = ch => e.n < P[i].n
    <3>1. P[i] = p[i + 1] /\ i + 1 \in 1..Len(p) /\ 1 < i + 1
      BY <1>2
    <3>2. \A a, b \in 1..Len(p) : a < b /\ p[a].chan = p[b].chan => p[a].n < p[b].n
      BY DEF Consecutive
    <3>3. p[1].chan = p[i + 1].chan => p[1].n < p[i + 1].n
      BY <1>1, <3>1, <3>2
    <3> QED
      BY <1>1, <3>1, <3>3 DEF ch
  <2> QED
    BY <1>1, <1>3, <1>5, <2>1, <2>2, Zenon
<1>8. \A i, j \in 1..Len(P) : i < j /\ P[i].chan = P[j].chan => P[i].n < P[j].n
  <2> SUFFICES ASSUME NEW i \in 1..Len(P), NEW j \in 1..Len(P), i < j, P[i].chan = P[j].chan
               PROVE  P[i].n < P[j].n
    OBVIOUS
  <2>1. /\ P[i] = p[i + 1] /\ i + 1 \in 1..Len(p)
        /\ P[j] = p[j + 1] /\ j + 1 \in 1..Len(p) /\ i + 1 < j + 1
    BY <1>2
  <2> QED
    BY <2>1 DEF Consecutive
<1>9. ASSUME NEW d \in Channels, NEW n \in (Len(L[d]) + 1)..s[d]
      PROVE  \E i \in 1..Len(P) : P[i].chan = d /\ P[i].n = n
  <2>1. n \in (Len(l[d]) + 1)..s[d] /\ (d = ch => n > e.n)
    BY <1>1, <1>3, <1>5
  <2>2. PICK i \in 1..Len(p) : p[i].chan = d /\ p[i].n = n
    BY <2>1, Zenon DEF Consecutive
  <2>3. i # 1
    BY <1>1, <1>4, <2>1, <2>2 DEF ch
  <2>4. i - 1 \in 1..Len(P) /\ P[i - 1] = p[i]
    BY <1>1, <1>2, <2>3
  <2> QED
    BY <2>2, <2>4, Zenon
<1>10. Consecutive(P, L, s)
  BY <1>6, <1>7, <1>8, <1>9, Zenon DEF Consecutive
<1> QED
  BY <1>5, <1>10, Zenon DEF P, L, e, ch

\* No step leaves OrderInv: the fetcher hands on what it has read before it reads
\* on, and only nd.in's front is dispatched.
LEMMA OrderInvInductive == TypeOK /\ OrderInv /\ [Next]_vars => OrderInv'
<1> SUFFICES ASSUME TypeOK, OrderInv, [Next]_vars PROVE OrderInv'
  BY SMTT(30)
<1>w. /\ wire \in Seq(Notifs) /\ in \in Seq(Notifs) /\ log \in [Channels -> Seq(1..MaxNotifs)]
      /\ sent \in [Channels -> 0..MaxNotifs] /\ PipelineTypes /\ HistoryTypes
  BY Zenon DEF TypeOK, PipelineTypes, HistoryTypes
<1> DEFINE mid == IF fpc = "send" THEN <<fnotif>> ELSE <<>>
<1>t. mid \in Seq(Notifs) /\ Pipe = (in \o mid) \o wire /\ Pipe \in Seq(Notifs)
  BY <1>w, PipeType DEF PipelineTypes, Pipe
<1>y. PipeTypes(Pipe, log, sent)
  BY <1>w, <1>t, Zenon DEF PipeTypes
<1>f. mid' = IF fpc' = "send" THEN <<fnotif'>> ELSE <<>>
  OBVIOUS
<1>p. Pipe' = (in' \o mid') \o wire'
  BY Zenon DEF Pipe
<1> HIDE DEF mid
<1>m. \A e \in Notifs : PipeEnds(in, mid, wire, e)
  BY <1>w, <1>t, PipeMoves, Zenon
<1>1. ASSUME NEW ch \in Channels, Notify(ch), ~Crashed PROVE OrderInv'
  <2> DEFINE e == [chan |-> ch, n |-> sent[ch] + 1]
  <2>1. /\ UNCHANGED <<in, log, fpc, fnotif>> /\ wire' = Append(wire, e) /\ sent[ch] < MaxNotifs
        /\ sent' = [sent EXCEPT ![ch] = @ + 1]
    BY <1>1, Zenon DEF Notify, fetcherVars, dispatcherVars
  <2>2. e \in Notifs
    <3>1. sent[ch] \in 0..MaxNotifs /\ sent[ch] + 1 \in 1..MaxNotifs
      BY <1>w, <2>1
    <3> QED
      BY <3>1, Zenon DEF Notifs
  <2>3. mid' = mid
    BY <2>1, <1>f, Zenon DEF mid
  <2> HIDE DEF e
  <2>4. Pipe' = Append(Pipe, e)
    BY <2>1, <2>2, <2>3, <1>t, <1>p, <1>m, Zenon DEF PipeEnds
  <2> USE DEF e
  <2>5. Consecutive(Pipe, log, sent)
    BY <1>1 DEF OrderInv
  <2>6. Consecutive(Pipe', log, sent')
    BY <1>y, <2>1, <2>4, <2>5, ConsecutiveAppend, Zenon
  <2> QED
    BY <2>1, <2>6, Zenon DEF OrderInv, DispatchInOrder
<1>2. CASE Fetch
  <2>1. /\ UNCHANGED <<in, log, sent>> /\ fpc = "wait" /\ fpc' = "send" /\ wire # <<>>
        /\ fnotif' = Head(wire) /\ wire' = Tail(wire)
    BY <1>2 DEF Fetch, dispatcherVars
  <2>2. mid = <<>> /\ mid' = <<Head(wire)>>
    BY <2>1, <1>f DEF mid
  <2>3. Head(wire) \in Notifs
    BY <1>w, <2>1
  <2>4. Pipe' = Pipe
    BY <2>1, <2>2, <2>3, <1>t, <1>p, <1>m, Zenon DEF PipeEnds
  <2> QED
    BY <2>1, <2>4 DEF OrderInv, DispatchInOrder, Crashed
<1>3. CASE FetchSend
  <2>1. UNCHANGED <<log, sent, wire>> /\ fpc = "send" /\ fnotif \in Notifs
    BY <1>w, <1>3 DEF FetchSend, pg, dispatcherVars, PipelineTypes
  <2>2. CASE InClosed
    <3>1. fpc' = "panicked"
      BY <1>3, <2>2, Zenon DEF FetchSend
    <3> QED
      BY <2>1, <3>1, Zenon DEF OrderInv, DispatchInOrder, Crashed
  <2>3. CASE ~InClosed
    <3>1. in' = Append(in, fnotif) /\ fpc' = "wait"
      BY <1>3, <2>3, Zenon DEF FetchSend
    <3>2. mid = <<fnotif>> /\ mid' = <<>>
      BY <2>1, <3>1, <1>f, Zenon DEF mid
    <3>3. Pipe' = Pipe
      BY <2>1, <3>1, <3>2, <1>t, <1>p, <1>m, ZenonT(30) DEF PipeEnds
    <3> QED
      BY <2>1, <3>1, <3>3, Zenon DEF OrderInv, DispatchInOrder, Crashed
  <2> QED
    BY <2>2, <2>3
<1>4. ASSUME DispatchNotif, ~Crashed PROVE OrderInv'
  <2> DEFINE e == Head(in)
             ch == e.chan
  <2>1. /\ UNCHANGED <<sent, wire, fpc, fnotif>> /\ in # <<>> /\ in' = Tail(in)
        /\ log' = [log EXCEPT ![ch] = Append(@, e.n)]
    BY <1>4 DEF DispatchNotif, pg, fetcherVars
  <2>2. e \in Notifs /\ ch \in Channels /\ e.n \in 1..MaxNotifs
    BY <1>w, <2>1, HeadNotif, Zenon
  <2>3. mid' = mid
    BY <2>1, <1>f, Zenon DEF mid
  <2>4. Pipe # <<>> /\ Head(Pipe) = e /\ Pipe' = Tail(Pipe)
    BY <2>1, <2>2, <2>3, <1>t, <1>p, <1>m, Zenon DEF PipeEnds
  <2>5. Consecutive(Pipe, log, sent)
    BY <1>4 DEF OrderInv
  <2>6. e.n = Len(log[ch]) + 1 /\ Consecutive(Pipe', log', sent')
    BY <1>y, <2>1, <2>4, <2>5, ConsecutiveTail, ZenonT(30)
  <2> HIDE DEF e, ch
  <2>7. /\ log'[ch] = Append(log[ch], e.n) /\ log[ch] \in Seq(1..MaxNotifs)
        /\ \A d \in Channels \ {ch} : log'[d] = log[d]
    BY <1>w, <2>1, <2>2, Zenon
  <2>8. \A i \in 1..Len(log'[ch]) : log'[ch][i] = i
    <3>1. \A i \in 1..Len(log'[ch]) : \/ i \in 1..Len(log[ch]) /\ log'[ch][i] = log[ch][i]
                                      \/ i = Len(log[ch]) + 1 /\ log'[ch][i] = e.n
      BY <2>2, <2>7, AppendElements
    <3>2. \A i \in 1..Len(log[ch]) : log[ch][i] = i
      BY <2>2 DEF OrderInv, DispatchInOrder
    <3> QED
      BY <2>6, <3>1, <3>2, ZenonT(30)
  <2>9. DispatchInOrder'
    BY <2>7, <2>8, ZenonT(30) DEF OrderInv, DispatchInOrder
  <2> QED
    BY <2>6, <2>9 DEF OrderInv
<1>5. CASE FetchErr
  <2>1. UNCHANGED <<log, sent, wire, in>> /\ fpc = "wait" /\ fpc' = "gone"
    BY <1>5 DEF FetchErr, pg, dispatcherVars
  <2>2. Pipe' = Pipe
    BY <2>1, Zenon DEF Pipe
  <2> QED
    BY <2>1, <2>2 DEF OrderInv, DispatchInOrder, Crashed
<1>6. CASE UNCHANGED <<log, sent, wire, in, fpc, fnotif>>
  BY <1>6 DEF OrderInv, DispatchInOrder, Crashed, Pipe
<1>7. ASSUME ConnLost \/ Cancel \/ Stopper \/ DispatchCmd \/ DispatchRange
      PROVE  UNCHANGED <<log, sent, wire, in, fpc, fnotif>>
  BY ZenonT(40), <1>7 DEF ConnLost, Cancel, Stopper, CloseConn, SendStop, Proceed, DispatchCmd, DoRegister,
              DoUnregister, DoStop, DispatchRange, Accept, AcceptCloseQ, EndRange, pg,
              fetcherVars, dispatcherVars
<1>8. ASSUME NEW c \in Clients, Handler(c) \/ Request(c) \/ KeepAliveErr(c) \/ PeerGone(c)
      PROVE  UNCHANGED <<log, sent, wire, in, fpc, fnotif>>
  BY ZenonT(30), <1>8 DEF Handler, Register, Open, Receive, Cancelled, Write, CloseQ, Unregister, SendCmd,
              Request, KeepAliveErr, PeerGone, pg, fetcherVars, dispatcherVars
<1>9. UNCHANGED vars => UNCHANGED <<log, sent, wire, in, fpc, fnotif>>
  BY DEF vars, pg, fetcherVars, dispatcherVars
<1> QED
  BY <1>1, <1>2, <1>3, <1>4, <1>5, <1>6, <1>7, <1>8, <1>9, Zenon DEF Next, Environment, Fetcher

\* The dispatcher sees the notifications of every channel in the order in which
\* PostgreSQL sent them, without a gap, whatever the capacity of nd.in and however
\* the connection and the server end.
THEOREM StreamsDispatchInOrder == Spec => []DispatchInOrder
<1>1. Init => OrderInv
  <2> SUFFICES ASSUME Init PROVE OrderInv
    OBVIOUS
  <2>1. Pipe = <<>>
    BY SMTT(30) DEF Init, Pipe
  <2>2. \A ch \in Channels : log[ch] = <<>> /\ sent[ch] = 0
    BY Zenon DEF Init
  <2>3. Consecutive(<<>>, log, sent)
    BY <2>2 DEF Consecutive
  <2> QED
    BY <2>1, <2>2, <2>3, SMTT(30) DEF OrderInv, DispatchInOrder
<1>2. OrderInv => DispatchInOrder
  BY Zenon DEF OrderInv
<1> QED
  BY <1>1, <1>2, OrderInvInductive, StreamsTypeOK, PTL DEF Spec

-----------------------------------------------------------------------------
(* The writers of handlers that have ended *)

\* Removing a writer from a list without duplicates leaves no copy of it.
LEMMA WithoutGone ==
    ASSUME NEW ws \in Seq(Clients), NEW c \in Clients, Distinct(ws)
    PROVE  ~Listed(Without(ws, c), c)
<1>1. CASE \A i \in 1..Len(ws) : ws[i] # c
  BY <1>1, ZenonT(30) DEF Without, Listed
<1>2. CASE ~(\A i \in 1..Len(ws) : ws[i] # c)
  <2> DEFINE u == Without(ws, c)
  <2>1. PICK k \in 1..Len(ws) : ws[k] = c
    BY <1>2
  <2>2. \A i \in 1..(Len(ws) - 1) : (\E j \in 1..i : ws[j] = c) <=> k <= i
    BY <2>1 DEF Distinct
  <2>3. u = [i \in 1..(Len(ws) - 1) |-> IF \E j \in 1..i : ws[j] = c THEN ws[i + 1] ELSE ws[i]]
    BY <1>2 DEF Without
  <2>4. Len(ws) - 1 \in Nat /\ u \in Seq(Clients) /\ DOMAIN u = 1..(Len(ws) - 1)
    BY <2>1, <2>3, WithoutType
  <2>5. Len(u) = Len(ws) - 1
    BY <2>4
  <2>6. \A i \in 1..Len(u) : u[i] = IF k <= i THEN ws[i + 1] ELSE ws[i]
    BY <2>2, <2>3, <2>5
  <2>7. \A i \in 1..Len(ws) : i # k => ws[i] # c
    BY <2>1 DEF Distinct
  <2>8. ASSUME NEW i \in 1..Len(u) PROVE u[i] # c
    <3>1. CASE k <= i
      BY <2>1, <2>5, <2>6, <2>7, <3>1, SMTT(30)
    <3>2. CASE ~(k <= i)
      BY <2>1, <2>5, <2>6, <2>7, <3>2, SMTT(30)
    <3> QED
      BY <3>1, <3>2, Zenon
  <2> QED
    BY <2>8 DEF Listed
<1> QED
  BY <1>1, <1>2, Zenon

\* The command at the front of nd.cmd is done: what follows moves up by one.
LEMMA CmdTail ==
    ASSUME cmd \in Seq(Cmds), cmd # <<>>, cmd' = Tail(cmd)
    PROVE  /\ \A i \in 1..Len(cmd') : i + 1 \in 1..Len(cmd) /\ cmd'[i] = cmd[i + 1]
           /\ \A i \in 1..Len(cmd) : i # 1 => i - 1 \in 1..Len(cmd') /\ cmd'[i - 1] = cmd[i]
           /\ 1 \in 1..Len(cmd) /\ Head(cmd) = cmd[1]
  BY SMTT(30)

DropCmd(c) == [act |-> "unregister", writer |-> c]
AddCmd(c) == [act |-> "register", writer |-> c]

\* If the dispatcher lists writer c, or is about to, a command to drop it follows in nd.cmd.
Dropped(c) ==
    /\ Listed(c2ws[StreamChan[c]], c) => \E j \in 1..Len(cmd) : cmd[j] = DropCmd(c)
    /\ \A i \in 1..Len(cmd) : cmd[i] = AddCmd(c) =>
         \E j \in (i + 1)..Len(cmd) : cmd[j] = DropCmd(c)

\* So it is for a writer whose handler has ended other than by cancellation.
StaleInv == \A c \in Clients : hpc[c] = "done" /\ ret[c] # "canceled" => Dropped(c)

\* The dispatcher takes a command: whether it adds writer c, drops it or neither, what
\* is left of nd.cmd still drops c in the end.
LEMMA DroppedTail ==
    ASSUME cmd \in Seq(Cmds), cmd # <<>>, cmd' = Tail(cmd), NEW c \in Clients, Dropped(c),
           Head(cmd) = DropCmd(c) => ~Listed(c2ws'[StreamChan[c]], c),
           Listed(c2ws'[StreamChan[c]], c) => Listed(c2ws[StreamChan[c]], c) \/ Head(cmd) = AddCmd(c)
    PROVE  Dropped(c)'
<1>1. /\ \A i \in 1..Len(cmd') : i + 1 \in 1..Len(cmd) /\ cmd'[i] = cmd[i + 1]
      /\ \A i \in 1..Len(cmd) : i # 1 => i - 1 \in 1..Len(cmd') /\ cmd'[i - 1] = cmd[i]
      /\ 1 \in 1..Len(cmd) /\ Head(cmd) = cmd[1] /\ Len(cmd) \in Nat
  BY CmdTail, SMTT(30)
<1>2. \A i \in 1..Len(cmd') : cmd'[i] = AddCmd(c) =>
        \E j \in (i + 1)..Len(cmd') : cmd'[j] = DropCmd(c)
  <2> SUFFICES ASSUME NEW i \in 1..Len(cmd'), cmd'[i] = AddCmd(c)
               PROVE  \E j \in (i + 1)..Len(cmd') : cmd'[j] = DropCmd(c)
    BY ZenonT(30)
  <2>1. PICK j \in (i + 2)..Len(cmd) : cmd[j] = DropCmd(c)
    BY <1>1 DEF Dropped
  <2>2. j \in 1..Len(cmd) /\ j # 1 /\ j - 1 \in (i + 1)..Len(cmd')
    BY <1>1, <2>1
  <2> QED
    BY <1>1, <2>1, <2>2, ZenonT(30)
<1>3. ASSUME Listed(c2ws'[StreamChan[c]], c), Head(cmd) # DropCmd(c)
      PROVE  \E j \in 1..Len(cmd') : cmd'[j] = DropCmd(c)
  <2>1. \E j \in 1..Len(cmd) : cmd[j] = DropCmd(c)
    <3>1. CASE Listed(c2ws[StreamChan[c]], c)
      BY <3>1 DEF Dropped
    <3>2. CASE Head(cmd) = AddCmd(c)
      BY <1>1, <3>2 DEF Dropped
    <3> QED
      BY <1>3, <3>1, <3>2
  <2> QED
    BY <1>1, <1>3, <2>1, ZenonT(30)
<1> QED
  BY <1>2, <1>3, Zenon DEF Dropped

\* A command that does not add writer c joins nd.cmd.
LEMMA DroppedAppend ==
    ASSUME cmd \in Seq(Cmds), NEW e \in Cmds, cmd' = Append(cmd, e), c2ws' = c2ws,
           NEW c \in Clients, Dropped(c), e # AddCmd(c)
    PROVE  Dropped(c)'
<1>1. /\ \A i \in 1..Len(cmd') : \/ i \in 1..Len(cmd) /\ cmd'[i] = cmd[i]
                                 \/ i = Len(cmd) + 1 /\ cmd'[i] = e
      /\ Len(cmd') = Len(cmd) + 1 /\ Len(cmd) \in Nat
      /\ \A i \in 1..Len(cmd) : cmd'[i] = cmd[i] /\ i \in 1..Len(cmd')
  BY AppendElements, SMTT(30)
<1>2. Listed(c2ws'[StreamChan[c]], c) => \E j \in 1..Len(cmd') : cmd'[j] = DropCmd(c)
  BY <1>1, Zenon DEF Dropped
<1>3. ASSUME NEW i \in 1..Len(cmd'), cmd'[i] = AddCmd(c)
      PROVE  \E j \in (i + 1)..Len(cmd') : cmd'[j] = DropCmd(c)
  <2>1. i \in 1..Len(cmd) /\ cmd[i] = AddCmd(c)
    BY <1>1, <1>3, Zenon
  <2>2. PICK j \in (i + 1)..Len(cmd) : cmd[j] = DropCmd(c)
    BY <2>1, Zenon DEF Dropped
  <2>3. j \in 1..Len(cmd) /\ j \in (i + 1)..Len(cmd')
    BY <1>1, <2>1, <2>2, SMTT(30)
  <2> QED
    BY <1>1, <2>2, <2>3, Zenon
<1> QED
  BY <1>2, <1>3, Zenon DEF Dropped

\* The command to drop writer c joins nd.cmd.
LEMMA DroppedLast ==
    ASSUME cmd \in Seq(Cmds), NEW c \in Clients, cmd' = Append(cmd, DropCmd(c))
    PROVE  Dropped(c)'
<1>1. DropCmd(c) \in Cmds /\ DropCmd(c) # AddCmd(c)
  BY Zenon DEF Cmds, DropCmd, AddCmd
<1>2. Len(cmd') = Len(cmd) + 1 /\ Len(cmd) \in Nat /\ cmd'[Len(cmd')] = DropCmd(c)
  BY <1>1, AppendElements, SMTT(30)
<1>3. Len(cmd') \in 1..Len(cmd')
  BY <1>2
<1>4. \A i \in 1..Len(cmd') : cmd'[i] = AddCmd(c) => Len(cmd') \in (i + 1)..Len(cmd')
  BY <1>1, <1>2
<1> QED
  BY <1>2, <1>3, <1>4, Zenon DEF Dropped

\* No step leaves StaleInv: a handler that ends sends unregister after its register, and
\* the dispatcher takes the two in order.
LEMMA StaleInvInductive == IInv /\ StaleInv /\ [Next]_vars => StaleInv'
<1> SUFFICES ASSUME IInv, StaleInv, [Next]_vars PROVE StaleInv'
  BY SMTT(30)
<1> /\ c2ws \in [Channels -> Seq(Clients)] /\ cmd \in Seq(Cmds) /\ DOMAIN ret = Clients
    /\ hpc \in [Clients -> HandlerSteps] /\ WritersInv
  BY DEF IInv, TypeOK, DispatcherTypes, CmdTypes, HandlerTypes
<1>1. ASSUME NEW c \in Clients, Register(c), ~CmdClosed PROVE StaleInv'
  <2>1. /\ cmd' = Append(cmd, AddCmd(c)) /\ hpc' = [hpc EXCEPT ![c] = "open"]
        /\ UNCHANGED <<c2ws, ret>>
    BY ZenonT(40), <1>1 DEF Register, SendCmd, Become, dispatcherVars, AddCmd
  <2>2. AddCmd(c) \in Cmds
    BY ZenonT(30) DEF Cmds, AddCmd
  <2>3. \A d \in Clients \ {c} : AddCmd(c) # AddCmd(d) /\ hpc'[d] = hpc[d]
    BY <2>1, SMTT(30) DEF AddCmd
  <2>4. hpc'[c] = "open"
    BY <2>1
  <2> QED
    BY ZenonT(40), <2>1, <2>2, <2>3, <2>4, DroppedAppend DEF StaleInv
<1>2. ASSUME NEW c \in Clients, Unregister(c), ~CmdClosed PROVE StaleInv'
  <2>1. /\ cmd' = Append(cmd, DropCmd(c)) /\ hpc' = [hpc EXCEPT ![c] = "done"]
        /\ UNCHANGED <<c2ws, ret>>
    BY ZenonT(40), <1>2 DEF Unregister, SendCmd, Become, dispatcherVars, DropCmd
  <2>2. DropCmd(c) \in Cmds
    BY ZenonT(40) DEF Cmds, DropCmd
  <2>3. \A d \in Clients \ {c} : DropCmd(c) # AddCmd(d) /\ hpc'[d] = hpc[d]
    BY <2>1, SMTT(30) DEF AddCmd, DropCmd
  <2>4. Dropped(c)'
    BY <2>1, DroppedLast
  <2> QED
    BY ZenonT(40), <2>1, <2>2, <2>3, <2>4, DroppedAppend DEF StaleInv
<1>3. CASE SendStop
  <2> DEFINE e == [act |-> "stop", writer |-> "nil"]
  <2>1. cmd' = Append(cmd, e) /\ UNCHANGED <<c2ws, ret, hpc>> /\ e \in Cmds
    BY <1>3, SMTT(30) DEF SendStop, dispatcherVars, handlerVars, Cmds
  <2>2. \A d \in Clients : e # AddCmd(d)
    BY DEF AddCmd
  <2> HIDE DEF e
  <2> QED
    BY ZenonT(30), <2>1, <2>2, DroppedAppend DEF StaleInv
<1>4. CASE DoRegister
  <2> DEFINE c == Head(cmd).writer
             ch == StreamChan[c]
  <2>1. c \in Clients /\ Head(cmd).act = "register" /\ cmd # <<>> /\ ch \in Channels
    BY <1>4, HeadCmd, Zenon DEF DoRegister, IInv, TypeOK
  <2>2. /\ cmd' = Tail(cmd) /\ c2ws' = [c2ws EXCEPT ![ch] = Append(@, c)]
        /\ UNCHANGED <<hpc, ret>>
    BY <1>4, Zenon DEF DoRegister, handlerVars
  <2>3. Head(cmd) = AddCmd(c)
    BY <2>1, SMTT(30) DEF AddCmd, Cmds
  <2> HIDE DEF c
  <2>4. \A d \in Clients : Head(cmd) # DropCmd(d)
    BY <2>1, SMTT(30) DEF DropCmd
  <2>5. ASSUME NEW d \in Clients, d # c, Listed(c2ws'[StreamChan[d]], d)
        PROVE  Listed(c2ws[StreamChan[d]], d)
    <3>1. CASE StreamChan[d] # ch
      BY <2>1, <2>2, <2>5, <3>1, SMTT(30)
    <3>2. CASE StreamChan[d] = ch
      <4>1. c2ws'[ch] = Append(c2ws[ch], c) /\ c2ws[ch] \in Seq(Clients)
        BY <2>1, <2>2
      <4>2. \A i \in 1..Len(c2ws'[ch]) : \/ i \in 1..Len(c2ws[ch]) /\ c2ws'[ch][i] = c2ws[ch][i]
                                         \/ c2ws'[ch][i] = c
        BY <2>1, <4>1, AppendElements
      <4> QED
        BY <2>5, <3>2, <4>2, Zenon DEF Listed
    <3> QED
      BY <3>1, <3>2, Zenon
  <2> QED
    BY ZenonT(30), <2>1, <2>2, <2>3, <2>4, <2>5, DroppedTail DEF StaleInv
<1>5. CASE DoUnregister
  <2> DEFINE c == Head(cmd).writer
             ch == StreamChan[c]
  <2>1. c \in Clients /\ Head(cmd).act = "unregister" /\ cmd # <<>> /\ ch \in Channels
    BY <1>5, HeadCmd, Zenon DEF DoUnregister, IInv, TypeOK
  <2>2. /\ cmd' = Tail(cmd) /\ c2ws' = [c2ws EXCEPT ![ch] = Without(@, c)]
        /\ UNCHANGED <<hpc, ret>>
    BY <1>5, Zenon DEF DoUnregister, handlerVars
  <2> HIDE DEF c
  <2>3. c2ws[ch] \in Seq(Clients) /\ Distinct(c2ws[ch]) /\ c2ws'[ch] = Without(c2ws[ch], c)
    BY <2>1, <2>2, Zenon DEF WritersInv
  <2>4. \A d \in Clients : Head(cmd) = DropCmd(d) => ~Listed(c2ws'[StreamChan[d]], d)
    <3>1. ~Listed(c2ws'[ch], c)
      BY <2>1, <2>3, WithoutGone, SMTT(30)
    <3> QED
      BY <3>1, SMTT(30) DEF DropCmd, c
  <2>5. \A d \in Clients : Listed(c2ws'[StreamChan[d]], d) => Listed(c2ws[StreamChan[d]], d)
    <3>1. \A d \in Clients : Listed(c2ws'[ch], d) => Listed(c2ws[ch], d)
      BY <2>1, <2>3, WithoutList
    <3>2. \A x \in Channels : x # ch => c2ws'[x] = c2ws[x]
      BY <2>1, <2>2
    <3> QED
      BY <3>1, <3>2, Zenon
  <2> QED
    BY ZenonT(30), <2>1, <2>2, <2>4, <2>5, DroppedTail DEF StaleInv
<1>6. CASE DoStop
  <2>1. /\ cmd # <<>> /\ cmd' = Tail(cmd) /\ UNCHANGED <<hpc, ret, c2ws>>
        /\ Head(cmd).act = "stop"
    BY <1>6, Zenon DEF DoStop, handlerVars
  <2>2. \A d \in Clients : Head(cmd) # DropCmd(d)
    BY <2>1, SMTT(30) DEF DropCmd
  <2> QED
    BY ZenonT(30), <2>1, <2>2, DroppedTail DEF StaleInv
<1>7. ASSUME UNCHANGED <<cmd, c2ws>>,
             \A c \in Clients : hpc'[c] = "done" /\ ret'[c] # "canceled" =>
                 hpc[c] = "done" /\ ret[c] # "canceled"
      PROVE  StaleInv'
  BY <1>7 DEF StaleInv, Dropped
<1>8. ASSUME NEW c \in Clients,
             \/ Request(c) \/ Open(c) \/ Cancelled(c) \/ KeepAliveErr(c) \/ Receive(c) \/ Write(c)
             \/ CloseQ(c)
      PROVE  StaleInv'
  <2>1. UNCHANGED <<cmd, c2ws>>
    BY ZenonT(40), <1>8 DEF Request, Open, Cancelled, KeepAliveErr, Receive, Write, CloseQ, dispatcherVars
  <2>2. \A d \in Clients \ {c} : hpc'[d] = hpc[d] /\ ret'[d] = ret[d]
    BY ZenonT(30), <1>8 DEF Request, Open, Cancelled, KeepAliveErr, Receive, Write, CloseQ, Return, Become
  <2>3. hpc'[c] = "done" => ret'[c] = "canceled"
    BY <1>8, Zenon DEF Request, Open, Cancelled, KeepAliveErr, Receive, Write, WriteErrors, CloseQ,
                Return, Become
  <2> QED
    BY ZenonT(40), <1>7, <2>1, <2>2, <2>3
<1>9. ASSUME NEW c \in Clients, Register(c) \/ Unregister(c), CmdClosed PROVE StaleInv'
  <2>1. hpc' = [hpc EXCEPT ![c] = "panicked"] /\ UNCHANGED <<cmd, c2ws, ret>>
    BY ZenonT(40), <1>9 DEF Register, Unregister, SendCmd, Become, dispatcherVars
  <2> QED
    BY <1>7, <2>1
<1>10. CASE UNCHANGED <<cmd, c2ws, hpc, ret>>
  BY <1>7, <1>10, ZenonT(30)
<1>11. ASSUME NEW ch \in Channels, Notify(ch) PROVE UNCHANGED <<cmd, c2ws, hpc, ret>>
  BY <1>11 DEF Notify, dispatcherVars, handlerVars
<1>12. ASSUME ConnLost \/ Fetcher \/ Cancel \/ CloseConn \/ Proceed
       PROVE UNCHANGED <<cmd, c2ws, hpc, ret>>
  BY ZenonT(40), <1>12 DEF ConnLost, Fetcher, Fetch, FetchErr, FetchSend, Cancel, CloseConn, Proceed,
               dispatcherVars, handlerVars
<1>13. ASSUME DispatchNotif \/ DispatchRange PROVE UNCHANGED <<cmd, c2ws, hpc, ret>>
  BY ZenonT(40), <1>13 DEF DispatchNotif, DispatchRange, Accept, AcceptCloseQ, EndRange, handlerVars
<1>14. ASSUME NEW c \in Clients, PeerGone(c) PROVE UNCHANGED <<cmd, c2ws, hpc, ret>>
  BY ZenonT(30), <1>14 DEF PeerGone, dispatcherVars
<1>15. UNCHANGED vars => UNCHANGED <<cmd, c2ws, hpc, ret>>
  BY DEF vars, dispatcherVars, handlerVars
<1> QED
  BY ZenonT(30), <1>1, <1>2, <1>3, <1>4, <1>5, <1>6, <1>8, <1>9, <1>10, <1>11, <1>12, <1>13, <1>14, <1>15
     DEF Next, Environment, DispatchCmd, Handler, Stopper

\* A handler that ends other than by cancellation leaves no writer behind in
\* c2ws that the dispatcher will not drop, for every number of clients and capacity.
THEOREM StreamsNoStaleWriter == Spec => []NoStaleWriter
<1>1. Init => StaleInv
  BY ZenonT(30) DEF Init, StaleInv
<1>2. StaleInv => NoStaleWriter
  BY Zenon DEF StaleInv, Dropped, NoStaleWriter, Listed, DropCmd
<1> QED
  BY <1>1, <1>2, StaleInvInductive, StreamsIInv, PTL DEF Spec
=============================================================================
