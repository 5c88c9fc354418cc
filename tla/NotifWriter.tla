----------------------------- MODULE NotifWriter -----------------------------
(* One notifWriter (streams.go): the bounded channel q between the goroutine   *)
(* of the notification dispatcher, which calls accept, and the goroutine of    *)
(* the HTTP handler, which runs loopWS or loopSSE. Both goroutines may decide   *)
(* to close q; closing a closed channel panics, so closeQ is protected by a     *)
(* mutex and a flag. This module follows accept and closeQ statement by         *)
(* statement, and reduces the loop to what it does to q.                        *)
EXTENDS Naturals, Sequences

CONSTANTS
    Backlog,    \* notifWriterBacklog, the capacity of q
    MaxOffers   \* bound on the number of calls of accept

ASSUME BacklogAssumption == Backlog \in Nat \ {0}
ASSUME MaxOffersAssumption == MaxOffers \in Nat

Goroutines == {"dispatcher", "handler"}

\* Steps of closeQ between Lock and Unlock: these hold the mutex.
Critical == {"test", "close", "set", "unlock"}

\* Values of gpc: the caller's own positions and the steps of closeQ.
WriterPositions == {"accept", "loop", "lock", "done", "panicked"} \cup Critical

VARIABLES
    q,          \* contents of the channel n.q; the k-th call of accept offers k
    closed,     \* the channel n.q has been closed
    qClosed,    \* the field n.qClosed
    qMtx,       \* the goroutine holding n.qMtx, or "none"
    gpc,        \* position of each goroutine
    offered,    \* number of calls of accept so far
    refused,    \* some call of accept found q open and full
    taken,      \* number of payloads the loop has received
    tooSlow     \* the loop returned errTooSlow

writerVars == <<q, closed, qClosed, qMtx, gpc, offered, refused, taken, tooSlow>>

WriterTypeOK ==
    /\ q \in Seq(Nat)
    /\ Len(q) <= Backlog
    /\ closed \in BOOLEAN
    /\ qClosed \in BOOLEAN
    /\ qMtx \in Goroutines \cup {"none"}
    /\ gpc \in [Goroutines -> WriterPositions]
    /\ offered \in Nat
    /\ refused \in BOOLEAN
    /\ taken \in Nat
    /\ tooSlow \in BOOLEAN

\* newNotifWriter; the handler is in its loop, the dispatcher between two calls.
WriterInit ==
    /\ q = <<>>
    /\ closed = FALSE
    /\ qClosed = FALSE
    /\ qMtx = "none"
    /\ gpc = [g \in Goroutines |-> IF g = "handler" THEN "loop" ELSE "accept"]
    /\ offered = 0
    /\ refused = FALSE
    /\ taken = 0
    /\ tooSlow = FALSE

Goto(g, position) == gpc' = [gpc EXCEPT ![g] = position]

-----------------------------------------------------------------------------
(* accept: the select statement and the deferred recover.                      *)

\* The select statement. It sends if there is room; its default branch leads to
\* onFull. If q is closed the send panics, and the deferred function recovers
\* and calls closeQ.
Select(room, onFull) ==
    /\ gpc["dispatcher"] = "accept"
    /\ offered < MaxOffers
    /\ offered' = offered + 1
    /\ \/ /\ ~closed /\ room
          /\ q' = Append(q, offered')
          /\ UNCHANGED <<refused, gpc>>
       \/ /\ ~closed /\ ~room
          /\ refused' = (refused \/ Len(q) >= Backlog)
          /\ Goto("dispatcher", onFull)
          /\ UNCHANGED q
       \/ /\ closed
          /\ Goto("dispatcher", "lock")
          /\ UNCHANGED <<q, refused>>
    /\ UNCHANGED <<closed, qClosed, qMtx, taken, tooSlow>>

\* Faulty variant: a full queue drops the payload and stays open.
Accept_Drops == Select(Len(q) < Backlog, "accept")

Accept == Select(Len(q) < Backlog, "lock")

-----------------------------------------------------------------------------
(* closeQ, called by goroutine g.                                              *)

\* Where closeQ returns to: accept returns to the dispatcher, and the deferred
\* function of the loop ends the handler's use of the writer.
Return(g) == IF g = "handler" THEN "done" ELSE "accept"

\* Faulty variants: the mutex is not waited for; closeQ returns with the mutex
\* held when the queue is closed already.
Lock_NoWait(g) ==
    /\ gpc[g] = "lock"
    /\ qMtx' = g
    /\ Goto(g, "test")
    /\ UNCHANGED <<q, closed, qClosed, offered, refused, taken, tooSlow>>

Test_NoUnlock(g) ==
    /\ gpc[g] = "test"
    /\ Goto(g, IF ~qClosed THEN "close" ELSE Return(g))
    /\ UNCHANGED <<q, closed, qClosed, qMtx, offered, refused, taken, tooSlow>>

Lock(g) ==
    /\ gpc[g] = "lock"
    /\ qMtx = "none"
    /\ qMtx' = g
    /\ Goto(g, "test")
    /\ UNCHANGED <<q, closed, qClosed, offered, refused, taken, tooSlow>>

Test(g) ==
    /\ gpc[g] = "test"
    /\ Goto(g, IF qClosed THEN "unlock" ELSE "close")
    /\ UNCHANGED <<q, closed, qClosed, qMtx, offered, refused, taken, tooSlow>>

\* close(n.q): closing a closed channel panics.
CloseCh(g) ==
    /\ gpc[g] = "close"
    /\ closed' = TRUE
    /\ Goto(g, IF closed THEN "panicked" ELSE "set")
    /\ UNCHANGED <<q, qClosed, qMtx, offered, refused, taken, tooSlow>>

SetFlag(g) ==
    /\ gpc[g] = "set"
    /\ qClosed' = TRUE
    /\ Goto(g, "unlock")
    /\ UNCHANGED <<q, closed, qMtx, offered, refused, taken, tooSlow>>

Unlock(g) ==
    /\ gpc[g] = "unlock"
    /\ qMtx' = "none"
    /\ Goto(g, Return(g))
    /\ UNCHANGED <<q, closed, qClosed, offered, refused, taken, tooSlow>>

CloseQ(g) == Lock(g) \/ Test(g) \/ CloseCh(g) \/ SetFlag(g) \/ Unlock(g)

-----------------------------------------------------------------------------
(* loopWS and loopSSE, as seen from q.                                         *)

\* A buffered payload is received, whether or not q has been closed since.
Receive ==
    /\ gpc["handler"] = "loop"
    /\ q # <<>>
    /\ q' = Tail(q)
    /\ taken' = taken + 1
    /\ UNCHANGED <<closed, qClosed, qMtx, gpc, offered, refused, tooSlow>>

\* The receive reports !ok: q is closed and drained. The loop returns errTooSlow
\* and, with the local qclosed set, the deferred function does not call closeQ.
SeeClosed ==
    /\ gpc["handler"] = "loop"
    /\ q = <<>>
    /\ closed
    /\ tooSlow' = TRUE
    /\ Goto("handler", "done")
    /\ UNCHANGED <<q, closed, qClosed, qMtx, offered, refused, taken>>

\* Every other return of the loop (failed upgrade, failed write, cancelled
\* context) runs the deferred call of closeQ.
Leave ==
    /\ gpc["handler"] = "loop"
    /\ Goto("handler", "lock")
    /\ UNCHANGED <<q, closed, qClosed, qMtx, offered, refused, taken, tooSlow>>

WriterNext ==
    \/ Accept
    \/ \E g \in Goroutines : CloseQ(g)
    \/ Receive
    \/ SeeClosed
    \/ Leave

WriterSpec == WriterInit /\ [][WriterNext]_writerVars

\* The Go scheduler runs every runnable goroutine, so a closeQ that has begun
\* goes on. Nothing is assumed of the loop: it may sit in a write for ever.
FairWriterSpec == WriterSpec /\ \A g \in Goroutines : WF_writerVars(CloseQ(g))

-----------------------------------------------------------------------------
(* Properties.                                                                 *)

\* closeQ never closes a closed channel, whatever the order in which accept and
\* the loop's deferred function call it: the panic would not be recovered in the
\* handler, and in accept it would be swallowed with the mutex still held.
CloseOnce == \A g \in Goroutines : gpc[g] # "panicked"

\* The queue always holds the offers that follow the last one received, without
\* a gap: after accept has refused one payload it never lets a later one in.
NoGap == \A i \in 1..Len(q) : q[i] = taken + i

\* loopWS and loopSSE return errTooSlow only if accept once found the queue
\* full: a close by the handler itself is never reported as a slow client.
TooSlowIsOverflow == tooSlow => refused

\* When the loop has returned, the queue is closed: a writer that stays
\* registered with the dispatcher after that collects nothing more.
DoneIsClosed == gpc["handler"] = "done" => closed

\* The queue of a stream under closeQ from two goroutines: closed once, without a
\* gap before, reported as too slow only after an overflow (accept, loopWS and
\* loopSSE), and closed at the latest when the loop returns.
WriterSound == CloseOnce /\ NoGap /\ TooSlowIsOverflow /\ DoneIsClosed

\* accept never blocks the dispatcher for good ("This must NOT block"), even if
\* the loop never reads again.
AcceptReturns == gpc["dispatcher"] # "accept" ~> gpc["dispatcher"] = "accept"
=============================================================================
