---- MODULE MCNotifStreams ----
(* Instances of NotifStreams: a websocket client and an SSE client on the       *)
(* channel ca, or the websocket client alone, where cb is a channel nobody      *)
(* streams. Queues and Go channels hold one or two entries, so that each of     *)
(* them fills up.                                                               *)
EXTENDS NotifStreams, TLC

CONSTANTS web, sse, ca, cb

SameChan == web :> ca @@ sse :> ca
OneClient == web :> ca
====
