--------------------------- MODULE QueryCacheProofs ---------------------------
(* The safety properties of QueryCache, for any requests, arguments, keys, TTL   *)
(* and clock. The properties speak of replies; the inductive invariant IInv      *)
(* follows the entries they come from: through the buffer of the request that     *)
(* stamps one, the cache, and the variable val of the request that looks it up.   *)
EXTENDS QueryCache, TLAPS

\* The stamp of an entry lies between the times the wall clock could have shown
\* when it was made, given how far the clock has been set back by now.
Stamped(e) ==
    /\ e.made <= real
    /\ MaxBack + e.made <= e.stamp + back
    /\ e.stamp <= MaxBack + e.made

\* What the entries on their way to and from the cache are.
CacheInv ==
    \A k \in DOMAIN cache : Stamped(cache[k]) /\ cache[k].whole /\ Key[cache[k].args] = k
ValInv ==
    \A r \in Requests : pc[r] = "check" => Stamped(val[r]) /\ Key[val[r].args] = Key[args[r]]
BufInv ==
    \A r \in Requests : useCache[r] /\ pc[r] \in {"encode", "set"} =>
        Stamped(buf[r]) /\ buf[r].args = args[r] /\ (pc[r] = "set" => buf[r].whole)

\* A reply is for the request's own arguments, or for some with the same key.
SameKey(a, b) == a = b \/ (Key[a] = Key[b] /\ Key[b] # 0)
OwnKey ==
    \A r \in Requests :
        reply[r].kind \in {"cache", "query"} => SameKey(reply[r].args, args[r])

IInv == TypeOK /\ CacheInv /\ ValInv /\ BufInv /\ OwnKey /\ HitIsFresh

-----------------------------------------------------------------------------
\* The remainder in Go's uint64 subtraction, for clocks that fit.
LEMMA Remainder ==
    ASSUME NEW n \in Int, NEW w \in Nat, n < w, -w < n
    PROVE  /\ n >= 0 => n % w = n
           /\ n < 0 => n % w = n + w
OBVIOUS

\* An entry that passes the test of its age is not stamped in the future, and is
\* older than TTL at most by what the clock was set back.
LEMMA FreshEnough ==
    ASSUME TypeOK, NEW e \in Entries, Stamped(e), Elapsed(e.stamp) <= TTL
    PROVE  real - e.made <= TTL + back /\ e.stamp - Now <= 0 /\ real - e.made \in Nat
<1> DEFINE n == Now - e.stamp
<1>1. /\ real \in Nat /\ back \in Nat /\ real <= MaxTime /\ back <= MaxBack
      /\ TTL \in Nat /\ MaxTime \in Nat /\ MaxBack \in Nat
      /\ Width \in Nat /\ TTL + MaxTime + MaxBack < Width
  BY TimeAssumption DEF TypeOK
<1>2. e.stamp \in Nat /\ e.made \in Nat /\ e.made <= real
      /\ MaxBack + e.made <= e.stamp + back /\ e.stamp <= MaxBack + e.made
  BY DEF Entries, Stamped
<1>3. n \in Int /\ n < Width /\ -Width < n /\ TTL < n + Width
  BY <1>1, <1>2 DEF Now
<1>4. n % Width <= TTL
  BY DEF Elapsed
<1>5. n >= 0 /\ n <= TTL
  <2> HIDE DEF n
  <2>1. n < 0 => n % Width = n + Width
    BY ONLY <1>1, <1>3, Remainder
  <2>2. n >= 0 => n % Width = n
    BY ONLY <1>1, <1>3, Remainder
  <2> QED
    BY ONLY <1>1, <1>3, <1>4, <2>1, <2>2
<1> QED
  BY <1>1, <1>2, <1>5 DEF Now

-----------------------------------------------------------------------------
\* Types, with the positions at which a request holds an entry.
LEMMA TypeInductive ==
    ASSUME IInv, [Next]_vars
    PROVE  TypeOK'
<1> USE DEF TypeOK, Goto
<1>0. TypeOK
  BY DEF IInv
<1>1. CASE UNCHANGED vars
  BY <1>0, <1>1 DEF vars, clock, locals
<1>2. CASE Tick \/ SetBack
  BY <1>0, <1>2, TimeAssumption DEF Tick, SetBack, locals
<1>3. ASSUME NEW r \in Requests, Begin(r) PROVE TypeOK'
  <2>1. Key[args[r]] # 0 => Key[args[r]] \in Keys
    BY <1>0 DEF Keys
  <2> QED
    BY <1>0, <1>3, <2>1 DEF Begin, clock, Positions
<1>4. ASSUME NEW r \in Requests, Get(r) PROVE TypeOK'
  BY <1>0, <1>4 DEF Get, clock, Positions
<1>5. ASSUME NEW r \in Requests, Check(r) PROVE TypeOK'
  <2>1. val[r] \in Entries /\ Stamped(val[r])
    BY <1>0, <1>5 DEF Check, IInv, ValInv
  <2>2. /\ val' = [val EXCEPT ![r] = NoEntry] /\ pc' \in [Requests -> Positions]
        /\ pc'[r] \in {"done", "delete"} /\ \A s \in Requests \ {r} : pc'[s] = pc[s]
        /\ UNCHANGED <<clock, cache, args, useCache, buf>>
    BY <1>0, <1>5 DEF Check, Positions
  <2>3. reply' \in [Requests -> Replies]
    <3>1. CASE Elapsed(val[r].stamp) <= TTL
      <4> DEFINE a == [kind |-> "cache", args |-> val[r].args,
                       age |-> real - val[r].made, ahead |-> val[r].stamp - Now]
      <4>1. real - val[r].made \in Nat
        BY <1>0, <2>1, <3>1, FreshEnough
      <4>2. val[r].stamp - Now \in Int /\ val[r].args \in Args
        BY <1>0, <2>1, TimeAssumption DEF Entries, Now
      <4>3. a \in Replies
        BY <4>1, <4>2 DEF Replies
      <4>4. reply' = [reply EXCEPT ![r] = a] \/ reply' = reply
        BY <1>5 DEF Check, Answer
      <4> QED
        BY <1>0, <4>3, <4>4
    <3>2. CASE ~(Elapsed(val[r].stamp) <= TTL)
      BY <1>0, <1>5, <3>2 DEF Check
    <3> QED
      BY <3>1, <3>2
  <2>4. val' \in [Requests -> Entries \cup {NoEntry}] /\ \A s \in Requests \ {r} : val'[s] = val[s]
    BY <1>0, <2>2
  <2>5. \A s \in Requests :
           /\ useCache'[s] => Key[args'[s]] \in Keys
           /\ pc'[s] \in {"get", "check", "delete", "stamp", "set"} => useCache'[s]
           /\ pc'[s] = "check" => val'[s] \in Entries
           /\ pc'[s] = "encode" /\ useCache'[s] => buf'[s] \in Entries
           /\ pc'[s] = "set" => buf'[s] \in Entries
    BY <1>0, <1>5, <2>2, <2>4 DEF Check
  <2> QED
    BY <1>0, <2>2, <2>3, <2>4, <2>5 DEF clock
<1>6. ASSUME NEW r \in Requests, Delete(r) PROVE TypeOK'
  BY <1>0, <1>6 DEF Delete, Deleted, clock, locals, Positions
<1>7. ASSUME NEW r \in Requests, Query(r) PROVE TypeOK'
  BY <1>0, <1>7 DEF Query, Answer, clock, locals, Positions, Replies
<1>8. ASSUME NEW r \in Requests, Stamp(r) PROVE TypeOK'
  <2>1. [stamp |-> Now, args |-> args[r], whole |-> FALSE, made |-> real] \in Entries
    BY <1>0, TimeAssumption DEF Now, Entries
  <2> QED
    BY <1>0, <1>8, <2>1, Zenon DEF Stamp, clock, Positions
<1>9. ASSUME NEW r \in Requests, Encode(r) PROVE TypeOK'
  <2>1. [kind |-> "query", args |-> args[r]] \in Replies /\ [kind |-> "broken"] \in Replies
    BY <1>0 DEF Replies
  <2>2. useCache[r] => [buf[r] EXCEPT !.whole = TRUE] \in Entries
    BY <1>0, <1>9, ZenonT(30) DEF Encode, Entries
  <2>3. reply' \in [Requests -> Replies]
    BY <1>0, <1>9, <2>1 DEF Encode, Answer
  <2>4. buf' \in [Requests -> Entries \cup {NoEntry}] /\ \A s \in Requests : buf[s] \in Entries => buf'[s] \in Entries
    BY <1>0, <1>9, <2>2, ZenonT(30) DEF Encode
  <2>5. /\ pc' \in [Requests -> Positions] /\ \A s \in Requests \ {r} : pc'[s] = pc[s]
        /\ pc[r] = "encode" /\ (pc'[r] = "done" \/ (pc'[r] = "set" /\ useCache[r]))
        /\ UNCHANGED <<clock, cache, args, useCache, val>>
    BY <1>0, <1>9 DEF Encode, Positions
  <2>6. \A s \in Requests :
           /\ useCache'[s] => Key[args'[s]] \in Keys
           /\ pc'[s] \in {"get", "check", "delete", "stamp", "set"} => useCache'[s]
           /\ pc'[s] = "check" => val'[s] \in Entries
           /\ pc'[s] = "encode" /\ useCache'[s] => buf'[s] \in Entries
           /\ pc'[s] = "set" => buf'[s] \in Entries
    BY <1>0, <2>4, <2>5
  <2> QED
    BY <1>0, <2>3, <2>4, <2>5, <2>6 DEF clock
<1>10. ASSUME NEW r \in Requests, Set(r) PROVE TypeOK'
  <2>1. Key[args[r]] \in Keys /\ buf[r] \in Entries
    BY <1>0, <1>10 DEF Set
  <2>2. DOMAIN cache' \subseteq Keys /\ cache' \in [DOMAIN cache' -> Entries]
    BY <1>0, <1>10, <2>1 DEF Set, Stored
  <2> QED
    BY <1>0, <1>10, <2>2 DEF Set, clock, Positions
<1> QED
  BY <1>1, <1>2, <1>3, <1>4, <1>5, <1>6, <1>7, <1>8, <1>9, <1>10 DEF Next, ServeQuery

\* An entry that was stamped within bounds stays so: the time moves on, and the
\* clock is set back only further.
LEMMA StampedStays ==
    ASSUME TypeOK, TypeOK', [Next]_vars, NEW e \in Entries, Stamped(e)
    PROVE  Stamped(e)'
<1>1. real \in Nat /\ back \in Nat /\ real' \in Nat /\ back' \in Nat
  BY DEF TypeOK
<1>2. CASE UNCHANGED clock
  BY <1>2 DEF clock, Stamped
<1>3. CASE Tick \/ SetBack
  <2>1. real <= real' /\ back <= back'
    BY <1>1, <1>3 DEF Tick, SetBack
  <2>2. e.made \in Nat /\ e.stamp \in Nat /\ MaxBack \in Nat
    BY TimeAssumption DEF Entries
  <2> QED
    BY <1>1, <2>1, <2>2 DEF Stamped
<1>4. ASSUME NEW r \in Requests, ServeQuery(r) PROVE UNCHANGED clock
  BY <1>4 DEF ServeQuery, Begin, Get, Check, Delete, Query, Stamp, Encode, Set
<1> QED
  BY <1>2, <1>3, <1>4 DEF Next, vars

\* An entry stamped now is within bounds.
LEMMA StampedNow ==
    ASSUME TypeOK, NEW a \in Args
    PROVE  Stamped([stamp |-> Now, args |-> a, whole |-> FALSE, made |-> real])
  BY TimeAssumption DEF TypeOK, Stamped, Now

\* The entries of the cache: CacheSet stores complete ones, under their key.
LEMMA CacheInductive ==
    ASSUME IInv, TypeOK', [Next]_vars
    PROVE  CacheInv'
<1>0. TypeOK /\ CacheInv
  BY DEF IInv
<1>1. ASSUME NEW k \in DOMAIN cache, NEW e \in Entries, cache[k] = e
      PROVE  Stamped(e)' /\ e.whole /\ Key[e.args] = k
  BY <1>0, <1>1, StampedStays DEF CacheInv
<1>2. CASE \A k \in DOMAIN cache' : k \in DOMAIN cache /\ cache'[k] = cache[k]
  <2> SUFFICES ASSUME NEW k \in DOMAIN cache'
               PROVE  Stamped(cache[k])' /\ cache'[k].whole /\ Key[cache'[k].args] = k
    BY DEF CacheInv
  <2>1. PICK e \in Entries : cache[k] = e
    BY <1>0, <1>2 DEF TypeOK
  <2> QED
    BY <1>1, <1>2, <2>1 DEF Stamped
<1>3. ASSUME NEW r \in Requests, Delete(r)
      PROVE  \A k \in DOMAIN cache' : k \in DOMAIN cache /\ cache'[k] = cache[k]
  BY <1>3 DEF Delete, Deleted
<1>4. ASSUME NEW r \in Requests, Set(r) PROVE CacheInv'
  <2>1. buf[r] \in Entries /\ useCache[r] /\ pc[r] = "set"
    BY <1>0, <1>4 DEF Set, TypeOK
  <2>2. PICK e \in Entries : e = buf[r]
    BY <2>1
  <2>3. PICK k \in Keys : k = Key[args[r]]
    BY <1>0, <2>1 DEF TypeOK
  <2>4. Stamped(e) /\ Key[e.args] = k /\ e.whole
    BY <2>1, <2>2, <2>3 DEF IInv, BufInv
  <2>5. Stamped(e)'
    BY <1>0, <2>4, StampedStays
  <2>6. cache' = [j \in DOMAIN cache \cup {k} |-> IF j = k THEN e ELSE cache[j]]
    BY <1>4, <2>2, <2>3 DEF Set, Stored
  <2>7. SUFFICES ASSUME NEW j \in DOMAIN cache'
                 PROVE  Stamped(cache[j])' /\ cache'[j].whole /\ Key[cache'[j].args] = j
    BY DEF CacheInv
  <2>8. CASE j = k
    <3>1. cache'[j] = e
      BY <2>6, <2>8
    <3> QED
      BY <2>4, <2>5, <2>8, <3>1 DEF Stamped
  <2>9. CASE j # k
    <3>1. j \in DOMAIN cache /\ cache'[j] = cache[j]
      BY <2>6, <2>9
    <3>2. PICK f \in Entries : cache[j] = f
      BY <1>0, <3>1 DEF TypeOK
    <3> QED
      BY <1>1, <3>1, <3>2 DEF Stamped
  <2> QED
    BY <2>8, <2>9
<1>5. UNCHANGED cache \/ \E r \in Requests : Delete(r) \/ Set(r)
  BY Zenon DEF Next, vars, Tick, SetBack, ServeQuery, Begin, Get, Check, Query, Stamp, Encode
<1> QED
  BY <1>2, <1>3, <1>4, <1>5

\* The clock changes nothing of a request, a request nothing of another, and none
\* its arguments.
LEMMA OwnSteps ==
    ASSUME TypeOK, [Next]_vars, NEW r \in Requests
    PROVE  /\ args' = args
           /\ \/ ServeQuery(r)
              \/ /\ pc'[r] = pc[r] /\ useCache'[r] = useCache[r] /\ val'[r] = val[r]
                 /\ buf'[r] = buf[r] /\ reply'[r] = reply[r]
<1>1. CASE UNCHANGED vars \/ Tick \/ SetBack
  BY <1>1 DEF vars, locals, Tick, SetBack
<1>2. CASE ServeQuery(r)
  BY <1>2 DEF ServeQuery, Begin, Get, Check, Delete, Query, Stamp, Encode, Set, locals
<1>3. ASSUME NEW s \in Requests, s # r, ServeQuery(s)
      PROVE  /\ args' = args /\ pc'[r] = pc[r] /\ useCache'[r] = useCache[r] /\ val'[r] = val[r]
             /\ buf'[r] = buf[r] /\ reply'[r] = reply[r]
  <2> USE DEF TypeOK, locals, Goto, Answer
  <2>1. CASE Begin(s) \/ Get(s) \/ Delete(s)
    BY <1>3, <2>1 DEF Begin, Get, Delete
  <2>2. CASE Check(s) \/ Query(s)
    BY <1>3, <2>2 DEF Check, Query
  <2>3. CASE Stamp(s) \/ Set(s)
    BY <1>3, <2>3 DEF Stamp, Set
  <2>4. CASE Encode(s)
    BY <1>3, <2>4 DEF Encode
  <2> QED
    BY <1>3, <2>1, <2>2, <2>3, <2>4 DEF ServeQuery
<1> QED
  BY <1>1, <1>2, <1>3 DEF Next

\* What CacheGet returned: an entry of the request's key.
LEMMA ValInductive ==
    ASSUME IInv, TypeOK', [Next]_vars
    PROVE  ValInv'
<1>0. TypeOK /\ CacheInv /\ ValInv
  BY DEF IInv
<1> SUFFICES ASSUME NEW r \in Requests, pc'[r] = "check"
             PROVE  Stamped(val[r])' /\ Key[val'[r].args] = Key[args'[r]]
  BY DEF ValInv
<1>1. args' = args
  BY <1>0, OwnSteps
<1>2. PICK e \in Entries : e = val'[r]
  BY DEF TypeOK
<1>3. Stamped(e) /\ Key[e.args] = Key[args[r]]
  <2>1. CASE Get(r)
    <3>1. Key[args[r]] \in DOMAIN cache /\ val'[r] = cache[Key[args[r]]]
      BY <1>0, <2>1 DEF Get, Goto, TypeOK
    <3> QED
      BY <1>0, <1>2, <3>1 DEF CacheInv
  <2>2. CASE ~Get(r)
    <3>1. pc[r] = "check" /\ val'[r] = val[r]
      <4>1. CASE ServeQuery(r)
        BY <1>0, <2>2, <4>1 DEF TypeOK, ServeQuery, Begin, Check, Delete, Query, Stamp, Encode, Set, Goto
      <4> QED
        BY <1>0, <4>1, OwnSteps
    <3> QED
      BY <1>0, <1>2, <3>1 DEF ValInv
  <2> QED
    BY <2>1, <2>2
<1>4. Stamped(e)'
  BY <1>0, <1>3, StampedStays
<1> QED
  BY <1>1, <1>2, <1>3, <1>4 DEF Stamped

\* The buffer of a request: stamped when its query was done, and complete when
\* the encoder has returned without an error.
LEMMA BufInductive ==
    ASSUME IInv, TypeOK', [Next]_vars
    PROVE  BufInv'
<1>0. TypeOK /\ BufInv
  BY DEF IInv
<1> SUFFICES ASSUME NEW r \in Requests, useCache'[r], pc'[r] \in {"encode", "set"}
             PROVE  Stamped(buf[r])' /\ buf'[r].args = args'[r] /\ (pc'[r] = "set" => buf'[r].whole)
  BY DEF BufInv
<1>1. args' = args
  BY <1>0, OwnSteps
<1>2. PICK e \in Entries : e = buf'[r]
  BY DEF TypeOK
<1>3. Stamped(e) /\ e.args = args[r] /\ (pc'[r] = "set" => e.whole)
  <2>1. CASE Stamp(r)
    <3>1. e = [stamp |-> Now, args |-> args[r], whole |-> FALSE, made |-> real] /\ pc'[r] = "encode"
      BY <1>0, <1>2, <2>1 DEF Stamp, Goto, TypeOK
    <3>2. args[r] \in Args
      BY <1>0 DEF TypeOK
    <3> QED
      BY <1>0, <3>1, <3>2, StampedNow
  <2>2. CASE Encode(r)
    <3>1. /\ pc[r] = "encode" /\ useCache[r] /\ buf[r] \in Entries
          /\ buf'[r] = [buf[r] EXCEPT !.whole = TRUE]
      BY <1>0, <2>2 DEF Encode, Goto, TypeOK
    <3>2. e.stamp = buf[r].stamp /\ e.made = buf[r].made /\ e.args = buf[r].args /\ e.whole
      BY <1>2, <3>1 DEF Entries
    <3> QED
      BY <1>0, <3>1, <3>2 DEF BufInv, Stamped
  <2>3. CASE ~Stamp(r) /\ ~Encode(r)
    <3>1. useCache[r] /\ pc'[r] = pc[r] /\ buf'[r] = buf[r]
      <4>1. CASE ServeQuery(r)
        BY <1>0, <2>3, <4>1, ZenonT(30) DEF TypeOK, locals, ServeQuery, Begin, Get, Check, Delete, Query, Set, Goto
      <4> QED
        BY <1>0, <4>1, OwnSteps
    <3> QED
      BY <1>0, <1>2, <3>1 DEF BufInv
  <2> QED
    BY <2>1, <2>2, <2>3
<1>4. Stamped(e)'
  BY <1>0, <1>3, StampedStays
<1> QED
  BY <1>1, <1>2, <1>3, <1>4 DEF Stamped

\* Replies: of the request's key, and fresh if they come out of the cache.
LEMMA ReplyInductive ==
    ASSUME IInv, TypeOK', [Next]_vars
    PROVE  OwnKey' /\ HitIsFresh'
<1>0. TypeOK /\ ValInv /\ OwnKey /\ HitIsFresh
  BY DEF IInv
<1> SUFFICES ASSUME NEW r \in Requests
             PROVE  /\ reply'[r].kind \in {"cache", "query"} => SameKey(reply'[r].args, args'[r])
                    /\ reply'[r].kind = "cache" => reply'[r].age <= TTL + back' /\ reply'[r].ahead <= 0
  BY DEF OwnKey, HitIsFresh
<1>1. args' = args
  BY <1>0, OwnSteps
<1>2. real \in Nat /\ back \in Nat /\ back' \in Nat /\ TTL \in Nat
  BY <1>0, TimeAssumption DEF TypeOK
<1>3. back <= back'
  <2>1. CASE UNCHANGED clock
    BY <1>2, <2>1 DEF clock
  <2>2. CASE Tick \/ SetBack
    BY <1>2, <2>2 DEF Tick, SetBack
  <2>3. ASSUME NEW s \in Requests, ServeQuery(s) PROVE UNCHANGED clock
    BY <2>3 DEF ServeQuery, Begin, Get, Check, Delete, Query, Stamp, Encode, Set
  <2> QED
    BY <2>1, <2>2, <2>3 DEF Next, vars
<1>4. CASE reply'[r] = reply[r]
  <2>1. reply[r] \in Replies
    BY <1>0 DEF TypeOK
  <2>2. reply[r].kind = "cache" => reply[r].age \in Nat /\ reply[r].age <= TTL + back /\ reply[r].ahead <= 0
    BY <1>0, <2>1 DEF Replies, HitIsFresh
  <2>3. reply[r].kind = "cache" => reply[r].age <= TTL + back'
    BY <1>2, <1>3, <2>2
  <2> QED
    BY <1>0, <1>1, <1>4, <2>2, <2>3 DEF OwnKey
<1>5. CASE Check(r) /\ Elapsed(val[r].stamp) <= TTL
  <2>1. val[r] \in Entries /\ Stamped(val[r]) /\ SameKey(val[r].args, args[r])
    BY <1>0, <1>5 DEF Check, ValInv, TypeOK, Keys, SameKey
  <2>2. real - val[r].made <= TTL + back /\ val[r].stamp - Now <= 0
    BY <1>0, <1>5, <2>1, FreshEnough
  <2>3. UNCHANGED back
    BY <1>5 DEF Check, clock
  <2>4. reply'[r] = [kind |-> "cache", args |-> val[r].args,
                     age |-> real - val[r].made, ahead |-> val[r].stamp - Now]
    <3>1. Elapsed(val[r].stamp) \in Int
      BY <2>1, <1>0, TimeAssumption DEF Elapsed, Now, Entries, TypeOK
    <3>2. ~(Elapsed(val[r].stamp) > TTL)
      BY <1>2, <1>5, <3>1
    <3> QED
      BY <1>0, <1>5, <3>2 DEF Check, Answer, TypeOK
  <2> QED
    BY <1>1, <2>1, <2>2, <2>3, <2>4
<1>6. CASE reply'[r] \in {[kind |-> "query", args |-> args[r]], [kind |-> "failed"], [kind |-> "broken"]}
  <2>1. CASE reply'[r] = [kind |-> "query", args |-> args[r]]
    <3>1. reply'[r].kind = "query" /\ reply'[r].args = args[r]
      BY ONLY <2>1
    <3>2. SameKey(reply'[r].args, args'[r])
      BY ONLY <1>1, <3>1 DEF SameKey
    <3> QED
      BY <3>1, <3>2
  <2> QED
    BY <1>6, <2>1
<1>7. CASE ServeQuery(r)
  <2>1. CASE Query(r) \/ Encode(r)
    BY <1>0, <1>4, <1>6, <2>1 DEF Query, Encode, Answer, TypeOK
  <2>2. CASE Check(r)
    BY <1>4, <1>5, <2>2 DEF Check
  <2>3. CASE Begin(r) \/ Get(r) \/ Delete(r) \/ Stamp(r) \/ Set(r)
    BY <1>4, <2>3 DEF Begin, Get, Delete, Stamp, Set
  <2> QED
    BY <1>7, <2>1, <2>2, <2>3 DEF ServeQuery
<1> QED
  BY <1>0, <1>4, <1>7, OwnSteps

-----------------------------------------------------------------------------
\* The initial states.
LEMMA InitIInv == Init => IInv
<1> SUFFICES ASSUME Init PROVE IInv
  OBVIOUS
<1>1. TypeOK
  <2>1. [kind |-> "none"] \in Replies
    BY DEF Replies
  <2> QED
    BY <2>1, TimeAssumption DEF Init, TypeOK, Positions
<1>2. CacheInv /\ ValInv /\ BufInv
  BY DEF Init, CacheInv, ValInv, BufInv
<1>3. OwnKey /\ HitIsFresh
  BY DEF Init, OwnKey, HitIsFresh
<1> QED
  BY <1>1, <1>2, <1>3 DEF IInv

\* IInv is an invariant of serveQuery's requests.
THEOREM CacheInvariant == Spec => []IInv
<1>1. IInv /\ [Next]_vars => IInv'
  <2> SUFFICES ASSUME IInv, [Next]_vars PROVE IInv'
    OBVIOUS
  <2>1. TypeOK'
    BY TypeInductive
  <2> QED
    BY <2>1, CacheInductive, ValInductive, BufInductive, ReplyInductive DEF IInv
<1> QED
  BY <1>1, InitIInv, PTL DEF Spec

\* Types are kept, for every set of requests and any keys: in particular the cache
\* is read, stamped and written only by requests whose key could be computed.
THEOREM CacheTypeOK == Spec => []TypeOK
<1>1. IInv => TypeOK
  BY DEF IInv
<1> QED
  BY <1>1, CacheInvariant, PTL

\* Only results at most TTL old, but for what the wall clock was set back since, are
\* served out of the cache, and none that is stamped in the future: the unsigned
\* subtraction of serveQuery is right for every width and TTL that fit.
THEOREM CacheHitIsFresh == Spec => []HitIsFresh
<1>1. IInv => HitIsFresh
  BY DEF IInv
<1> QED
  BY <1>1, CacheInvariant, PTL

\* Whatever the interleaving of requests, failed queries and lost clients, the cache
\* holds complete results, each under the key of its arguments.
THEOREM CacheWholeEntries == Spec => []WholeEntries
<1>1. IInv => WholeEntries
  BY DEF IInv, CacheInv, WholeEntries
<1> QED
  BY <1>1, CacheInvariant, PTL

\* If makeCacheKey tells apart all arguments of the endpoint that it accepts, as it
\* does when no parameter is optional (ExactKey of CacheKey), a client only ever gets
\* the result for its own.
THEOREM CacheOwnResult ==
    ASSUME \A a, b \in Args : Key[a] = Key[b] /\ Key[a] # 0 => a = b
    PROVE  Spec => []OwnResult
<1>1. IInv => OwnResult
  <2> SUFFICES ASSUME IInv, NEW r \in Requests, reply[r].kind \in {"cache", "query"}
               PROVE  reply[r].args = args[r]
    BY DEF OwnResult
  <2>1. args[r] \in Args /\ reply[r] \in Replies
    BY DEF IInv, TypeOK
  <2>2. reply[r].args \in Args
    BY <2>1 DEF Replies
  <2>3. SameKey(reply[r].args, args[r])
    BY DEF IInv, OwnKey
  <2> QED
    BY <2>1, <2>2, <2>3 DEF SameKey
<1> QED
  BY <1>1, CacheInvariant, PTL
=============================================================================
