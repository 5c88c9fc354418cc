------------------------------ MODULE QueryCache ------------------------------
(* The result cache of a query endpoint (serveQuery in server.go) over the      *)
(* CacheSet and CacheGet of the rapidrows command. Concurrent requests share    *)
(* the cache without any lock of their own: every call of CacheGet, CacheSet    *)
(* and time.Now is an action. Time passes, and the wall clock may be set back,  *)
(* between any two of them.                                                     *)
EXTENDS Integers

CONSTANTS
    Requests,    \* requests to one endpoint
    Args,        \* lists of parameter values as returned by getParams
    Key,         \* makeCacheKey of each of them; 0 stands for its failure
    TTL,         \* cacheTTLNanos; 0 if the endpoint is not cached
    Width,       \* number of values of a uint64
    MaxTime,     \* bound on the time that passes
    MaxBack      \* bound on how far the wall clock is set back

ASSUME KeyAssumption == Key \in [Args -> Nat]
ASSUME TimeAssumption ==
    /\ TTL \in Nat /\ MaxTime \in Nat /\ MaxBack \in Nat
    /\ Width \in Nat /\ TTL + MaxTime + MaxBack < Width

VARIABLES
    real,      \* time that has passed
    back,      \* how far the wall clock has been set back in all
    cache,     \* the sync.Map of the command: a function on the keys present
    pc,        \* position of each request in serveQuery
    args,      \* its parameter values
    useCache,  \* its local variable useCache
    val,       \* the entry CacheGet returned to it
    buf,       \* its cacheValueBuf
    reply      \* what it has answered

clock == <<real, back>>
locals == <<args, useCache, val, buf>>
vars == <<clock, cache, pc, locals, reply>>

\* time.Now().UnixNano(); MaxBack keeps it from being negative.
Now == MaxBack + real - back

\* The value of a cache entry: 8 bytes of time stamp, then the result of a query
\* with the given arguments, encoded as a whole or cut short. History: made is
\* the time at which it was stamped.
Entries == [stamp : Nat, args : Args, whole : BOOLEAN, made : Nat]

NoEntry == [stamp |-> "none"]
Keys == {Key[a] : a \in Args} \ {0}

\* What the client has been sent: the result for some arguments, out of the cache
\* or of a query, an error, or a reply that could not be written completely. For
\* one out of the cache, age is the time since the entry was stamped, and ahead
\* how far its stamp is in the future of the wall clock.
Replies ==
    [kind : {"cache"}, args : Args, age : Nat, ahead : Int]
      \cup [kind : {"query"}, args : Args]
      \cup [kind : {"none", "failed", "broken"}]

Positions == {"idle", "get", "check", "delete", "query", "stamp", "encode", "set", "done"}

TypeOK ==
    /\ real \in 0..MaxTime /\ back \in 0..MaxBack
    /\ DOMAIN cache \subseteq Keys /\ cache \in [DOMAIN cache -> Entries]
    /\ pc \in [Requests -> Positions]
    /\ args \in [Requests -> Args]
    /\ useCache \in [Requests -> BOOLEAN]
    /\ val \in [Requests -> Entries \cup {NoEntry}]
    /\ buf \in [Requests -> Entries \cup {NoEntry}]
    /\ reply \in [Requests -> Replies]
    /\ \A r \in Requests :
         /\ useCache[r] => Key[args[r]] \in Keys
         /\ pc[r] \in {"get", "check", "delete", "stamp", "set"} => useCache[r]
         /\ pc[r] = "check" => val[r] \in Entries
         /\ pc[r] = "encode" /\ useCache[r] => buf[r] \in Entries
         /\ pc[r] = "set" => buf[r] \in Entries

Init ==
    /\ real = 0 /\ back = 0
    /\ cache = [k \in {} |-> NoEntry]
    /\ pc = [r \in Requests |-> "idle"]
    /\ args \in [Requests -> Args]
    /\ useCache = [r \in Requests |-> FALSE]
    /\ val = [r \in Requests |-> NoEntry]
    /\ buf = [r \in Requests |-> NoEntry]
    /\ reply = [r \in Requests |-> [kind |-> "none"]]

-----------------------------------------------------------------------------
(* The clock.                                                                  *)

Tick ==
    /\ real < MaxTime
    /\ real' = real + 1
    /\ UNCHANGED <<back, cache, pc, locals, reply>>

\* The wall clock, which UnixNano reads, is set back.
SetBack ==
    /\ back < MaxBack
    /\ back' = back + 1
    /\ UNCHANGED <<real, cache, pc, locals, reply>>

-----------------------------------------------------------------------------
(* serveQuery for request r.                                                   *)

Goto(r, position) == pc' = [pc EXCEPT ![r] = position]
Answer(r, answer) == reply' = [reply EXCEPT ![r] = answer]

\* cacheSet and cacheGet of main.go.
Stored(k, entry) == [j \in DOMAIN cache \cup {k} |-> IF j = k THEN entry ELSE cache[j]]
Deleted(k) == [j \in DOMAIN cache \ {k} |-> cache[j]]

\* useCache and cacheKey are computed.
Begin(r) ==
    /\ pc[r] = "idle"
    /\ useCache' = [useCache EXCEPT ![r] = TTL > 0 /\ Key[args[r]] # 0]
    /\ Goto(r, IF useCache'[r] THEN "get" ELSE "query")
    /\ UNCHANGED <<clock, cache, args, val, buf, reply>>

\* Faulty variant: the entry of another key is returned.
Get_AnyKey(r) ==
    /\ pc[r] = "get"
    /\ \/ \E k \in DOMAIN cache :
             /\ val' = [val EXCEPT ![r] = cache[k]]
             /\ Goto(r, "check")
       \/ /\ DOMAIN cache = {}
          /\ Goto(r, "query")
          /\ UNCHANGED val
    /\ UNCHANGED <<clock, cache, args, useCache, buf, reply>>

\* a.rti.CacheGet(cacheKey)
Get(r) ==
    /\ pc[r] = "get"
    /\ \/ /\ Key[args[r]] \in DOMAIN cache
          /\ val' = [val EXCEPT ![r] = cache[Key[args[r]]]]
          /\ Goto(r, "check")
       \/ /\ Key[args[r]] \notin DOMAIN cache
          /\ Goto(r, "query")
          /\ UNCHANGED val
    /\ UNCHANGED <<clock, cache, args, useCache, buf, reply>>

\* Faulty variant: the subtraction is signed.
Elapsed_Signed(since) == Now - since

\* uint64(time.Now().UnixNano()) - stamp
Elapsed(since) == (Now - since) % Width

\* The age of the entry is checked; a valid entry is the answer.
Check(r) ==
    /\ pc[r] = "check"
    /\ \/ /\ Elapsed(val[r].stamp) <= TTL
          /\ Answer(r, [kind |-> "cache", args |-> val[r].args,
                        age |-> real - val[r].made, ahead |-> val[r].stamp - Now])
          /\ Goto(r, "done")
       \/ /\ Elapsed(val[r].stamp) > TTL
          /\ Goto(r, "delete")
          /\ UNCHANGED reply
    /\ val' = [val EXCEPT ![r] = NoEntry]
    /\ UNCHANGED <<clock, cache, args, useCache, buf>>

\* a.rti.CacheSet(cacheKey, nil), on whatever the cache holds by now.
Delete(r) ==
    /\ pc[r] = "delete"
    /\ cache' = Deleted(Key[args[r]])
    /\ Goto(r, "query")
    /\ UNCHANGED <<clock, locals, reply>>

\* a.ds.withTx runs the query, with or without success.
Query(r) ==
    /\ pc[r] = "query"
    /\ \/ /\ Goto(r, IF useCache[r] THEN "stamp" ELSE "encode")
          /\ UNCHANGED reply
       \/ /\ Answer(r, [kind |-> "failed"])
          /\ Goto(r, "done")
    /\ UNCHANGED <<clock, cache, locals>>

\* The buffer for the cache is started with the current time.
Stamp(r) ==
    /\ pc[r] = "stamp"
    /\ buf' = [buf EXCEPT ![r] = [stamp |-> Now, args |-> args[r], whole |-> FALSE,
                                  made |-> real]]
    /\ Goto(r, "encode")
    /\ UNCHANGED <<clock, cache, args, useCache, val, reply>>

\* Faulty variant: the result is stored even if the client could not be written
\* to and the encoder gave up.
Encode_StoreAnyway(r) ==
    /\ pc[r] = "encode"
    /\ \/ /\ Answer(r, [kind |-> "query", args |-> args[r]])
          /\ buf' = IF useCache[r] THEN [buf EXCEPT ![r].whole = TRUE] ELSE buf
       \/ /\ Answer(r, [kind |-> "broken"])
          /\ UNCHANGED buf
    /\ Goto(r, IF useCache[r] THEN "set" ELSE "done")
    /\ UNCHANGED <<clock, cache, args, useCache, val>>

\* The encoder writes to the client and to the buffer at the same time, through a
\* MultiWriter: an error of the client's side leaves the buffer incomplete.
Encode(r) ==
    /\ pc[r] = "encode"
    /\ \/ /\ Answer(r, [kind |-> "query", args |-> args[r]])
          /\ buf' = IF useCache[r] THEN [buf EXCEPT ![r].whole = TRUE] ELSE buf
          /\ Goto(r, IF useCache[r] THEN "set" ELSE "done")
       \/ /\ Answer(r, [kind |-> "broken"])
          /\ Goto(r, "done")
          /\ UNCHANGED buf
    /\ UNCHANGED <<clock, cache, args, useCache, val>>

\* a.rti.CacheSet(cacheKey, cacheValueBuf.Bytes())
Set(r) ==
    /\ pc[r] = "set"
    /\ cache' = Stored(Key[args[r]], buf[r])
    /\ buf' = [buf EXCEPT ![r] = NoEntry]
    /\ Goto(r, "done")
    /\ UNCHANGED <<clock, args, useCache, val, reply>>

ServeQuery(r) ==
    \/ Begin(r) \/ Get(r) \/ Check(r) \/ Delete(r) \/ Query(r)
    \/ Stamp(r) \/ Encode(r) \/ Set(r)

Next == Tick \/ SetBack \/ \E r \in Requests : ServeQuery(r)

Spec == Init /\ [][Next]_vars

-----------------------------------------------------------------------------
(* Properties.                                                                 *)

\* A reply out of the cache was stamped by the request that stored it at most TTL
\* before, or longer only by what the wall clock has been set back since; an entry
\* stamped in the future of the wall clock is never served, as its age wraps
\* around to a huge uint64.
HitIsFresh ==
    \A r \in Requests :
        reply[r].kind = "cache" => reply[r].age <= TTL + back /\ reply[r].ahead <= 0

\* Every entry of the cache is a complete result of a query with its key: neither
\* a failed query nor a client that went away while being written to leaves
\* anything in the cache, for others to be served.
WholeEntries ==
    \A k \in DOMAIN cache : cache[k].whole /\ Key[cache[k].args] = k

\* model.go 179-181: "The cache entry is specific to the exact values of
\* parameters for the invocation." A client gets the result for its own values.
OwnResult ==
    \A r \in Requests :
        reply[r].kind \in {"cache", "query"} => reply[r].args = args[r]
=============================================================================
