----------------------------- MODULE StreamFeed ------------------------------
(* What a stream endpoint promises its clients, without goroutines, queues or   *)
(* shutdown. Notifications are published on channels. A client joins one        *)
(* channel once, and from then on is handed the notifications published after   *)
(* it joined: in the order of their publication, each at most once, and with    *)
(* none left out before the last one it gets. A client may stop getting         *)
(* notifications at any point: the promise is a prefix.                         *)
EXTENDS Naturals, Sequences

CONSTANTS
    Clients,
    Channels,
    StreamChan,   \* the channel each client subscribes to
    Payloads

VARIABLES
    log,      \* notifications published so far on each channel
    joined,   \* whether a client has joined
    start,    \* number of notifications published before the client joined
    got       \* what the client has been handed

vars == <<log, joined, start, got>>

Init ==
    /\ log = [ch \in Channels |-> <<>>]
    /\ joined = [c \in Clients |-> FALSE]
    /\ start = [c \in Clients |-> 0]
    /\ got = [c \in Clients |-> <<>>]

Publish(ch) ==
    /\ \E p \in Payloads : log' = [log EXCEPT ![ch] = Append(@, p)]
    /\ UNCHANGED <<joined, start, got>>

Join(c) ==
    /\ ~joined[c]
    /\ joined' = [joined EXCEPT ![c] = TRUE]
    /\ start' = [start EXCEPT ![c] = Len(log[StreamChan[c]])]
    /\ UNCHANGED <<log, got>>

\* The next notification in line for c.
Due(c) == start[c] + Len(got[c]) + 1

Deliver(c) ==
    /\ joined[c]
    /\ Due(c) <= Len(log[StreamChan[c]])
    /\ got' = [got EXCEPT ![c] = Append(@, log[StreamChan[c]][Due(c)])]
    /\ UNCHANGED <<log, joined, start>>

Next ==
    \/ \E ch \in Channels : Publish(ch)
    \/ \E c \in Clients : Join(c) \/ Deliver(c)

Spec == Init /\ [][Next]_vars
=============================================================================
