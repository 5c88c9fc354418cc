-------------------------------- MODULE Proxies --------------------------------
(* Proxy objects (quickjs.c). The handler's traps are scripts: they may do anything *)
(* to the target and return anything. After a trap has returned the engine compares *)
(* its answer with the target and throws if the two do not fit. One property name   *)
(* is looked at; the target is an ordinary object. An operation for which the       *)
(* handler has no trap goes to the target.                                          *)
EXTENDS Naturals, FiniteSets, TLAPS

CONSTANTS
    Values, Protos,
    Undef       \* the value undefined, and an accessor without a function

VARIABLES
    target,     \* own property, extensible and prototype
    revoked,
    known       \* what a script has been told through the proxy

proxyVars == <<target, revoked, known>>

NoProp == [kind |-> "none"]
DataProp(v, w, c) == [kind |-> "data", val |-> v, w |-> w, c |-> c]
AccProp(g, c) == [kind |-> "getset", val |-> g, w |-> FALSE, c |-> c]
Descs == {DataProp(v, w, c) : v \in Values, w \in BOOLEAN, c \in BOOLEAN}
            \cup {AccProp(g, c) : g \in {Undef, "fn"}, c \in BOOLEAN}

Exists == target.own # NoProp
Fixed(p) == p.kind = "data" /\ ~p.c /\ ~p.w
Throw == [op |-> "throw"]

check_define_prop_flags(p, d) ==
    ~p.c => /\ ~d.c
            /\ p.kind = d.kind
            /\ p.kind = "data" /\ ~p.w => ~d.w

\* JS_DefineProperty on the ordinary target.
Definable(d) ==
    IF ~Exists THEN target.ext
    ELSE check_define_prop_flags(target.own, d)
         /\ (~target.own.c => (target.own.kind = "data" /\ target.own.w) \/ d.val = target.own.val)

-----------------------------------------------------------------------------
\* Each operator below is the answer of an operation whose trap returned t.

js_proxy_getPrototypeOf(t) ==
    IF ~target.ext /\ t # target.proto THEN Throw ELSE [op |-> "getPrototypeOf", r |-> t]

js_proxy_setPrototypeOf(p, t) ==
    IF t /\ ~target.ext /\ p # target.proto THEN Throw
    ELSE [op |-> "setPrototypeOf", p |-> p, r |-> t]

js_proxy_isExtensible(t) == IF t # target.ext THEN Throw ELSE [op |-> "isExtensible", r |-> t]

js_proxy_preventExtensions(t) ==
    IF t /\ target.ext THEN Throw ELSE [op |-> "preventExtensions", r |-> t]

js_proxy_has(t) ==
    IF ~t /\ Exists /\ (~target.own.c \/ ~target.ext) THEN Throw ELSE [op |-> "has", r |-> t]

js_proxy_get(t) ==
    IF Exists /\ \/ Fixed(target.own) /\ target.own.val # t
                 \/ target.own.kind = "getset" /\ ~target.own.c /\ target.own.val = Undef /\ t # Undef
    THEN Throw ELSE [op |-> "get", r |-> t]

\* The setter of an accessor is present exactly when its getter is.
js_proxy_set(v, t) ==
    IF t /\ Exists /\ \/ Fixed(target.own) /\ target.own.val # v
                      \/ target.own.kind = "getset" /\ ~target.own.c /\ target.own.val = Undef
    THEN Throw ELSE [op |-> "set", v |-> v, r |-> t]

\* The value of the answer is not compared with the target's.
js_proxy_get_own_property(t) ==
    IF t = NoProp
    THEN IF Exists /\ (~target.own.c \/ ~target.ext) THEN Throw ELSE [op |-> "getOwn", r |-> t]
    ELSE IF \/ IF Exists THEN ~check_define_prop_flags(target.own, t) ELSE ~target.ext
            \/ ~t.c /\ (~Exists \/ target.own.c)
            \/ ~t.c /\ t.kind = "data" /\ ~t.w /\ target.own.w
         THEN Throw ELSE [op |-> "getOwn", r |-> t]

\* Faulty variant: a property the target has is not compared.
js_proxy_define_own_property_Trusts(d, t) ==
    IF t /\ ~Exists /\ (~target.ext \/ ~d.c) THEN Throw
    ELSE [op |-> "define", d |-> d, r |-> t]

\* Defining writable on a writable property that is not configurable is refused too.
js_proxy_define_own_property(d, t) ==
    IF t /\ IF ~Exists THEN ~target.ext \/ ~d.c
            ELSE \/ ~check_define_prop_flags(target.own, d)
                 \/ target.own.c /\ ~d.c
                 \/ d.kind = "getset" /\ target.own.kind = "getset" /\ ~target.own.c
                      /\ d.val # target.own.val
                 \/ d.kind = "data" /\ ~target.own.c /\ ~target.own.w /\ d.val # target.own.val
                 \/ d.kind = "data" /\ target.own.kind = "data" /\ ~target.own.c /\ target.own.w
    THEN Throw ELSE [op |-> "define", d |-> d, r |-> t]

js_proxy_delete_property(t) ==
    IF t /\ Exists /\ (~target.own.c \/ ~target.ext) THEN Throw ELSE [op |-> "delete", r |-> t]

js_proxy_get_own_property_names(t) ==
    IF \/ Exists /\ (~target.own.c \/ ~target.ext) /\ ~t
       \/ ~target.ext /\ t /\ ~Exists
    THEN Throw ELSE [op |-> "ownKeys", r |-> t]

Answers ==
    {js_proxy_getPrototypeOf(t) : t \in Protos}
    \cup {js_proxy_setPrototypeOf(p, t) : p \in Protos, t \in BOOLEAN}
    \cup (UNION {{js_proxy_isExtensible(t), js_proxy_preventExtensions(t), js_proxy_has(t),
                  js_proxy_delete_property(t), js_proxy_get_own_property_names(t)} : t \in BOOLEAN})
    \cup {js_proxy_get(t) : t \in Values \cup {Undef}}
    \cup {js_proxy_set(v, t) : v \in Values, t \in BOOLEAN}
    \cup {js_proxy_get_own_property(t) : t \in Descs \cup {NoProp}}
    \cup {js_proxy_define_own_property(d, t) : d \in Descs, t \in BOOLEAN}

-----------------------------------------------------------------------------
\* What an answer promises for good: nothing can be added any more; the property is
\* there to stay; its value is fixed; a closed object lacks it, or has this prototype.
Learn(k, ans) ==
    [k EXCEPT
        !.closed = @ \/ (ans.op = "isExtensible" /\ ~ans.r) \/ (ans.op = "preventExtensions" /\ ans.r),
        !.stays = @ \/ (ans.op = "getOwn" /\ ans.r # NoProp /\ ~ans.r.c)
                    \/ (ans.op = "define" /\ ans.r /\ ~ans.d.c),
        !.readonly = @ \/ (ans.op = "getOwn" /\ ans.r # NoProp /\ Fixed(ans.r))
                       \/ (ans.op = "define" /\ ans.r /\ Fixed(ans.d)),
        !.val = IF k.readonly /\ ans.op = "get" THEN ans.r ELSE @,
        !.lacks = @ \/ (k.closed /\ ans.op = "getOwn" /\ ans.r = NoProp)
                    \/ (k.closed /\ ans.op = "ownKeys" /\ ~ans.r),
        !.proto = IF k.closed /\ ans.op = "getPrototypeOf" THEN ans.r ELSE @]

Contradicts(k, ans) ==
    \/ k.closed /\ ans.op = "isExtensible" /\ ans.r
    \/ k.stays /\ \/ ans.op \in {"has", "ownKeys"} /\ ~ans.r
                  \/ ans.op = "getOwn" /\ (ans.r = NoProp \/ ans.r.c)
                  \/ ans.op = "delete" /\ ans.r
    \/ k.readonly /\ ans.op = "getOwn" /\ (ans.r.kind # "data" \/ ans.r.w)
    \/ k.val # "?" /\ \/ ans.op = "get" /\ ans.r # k.val
                      \/ ans.op = "set" /\ ans.r /\ ans.v # k.val
                      \/ ans.op = "define" /\ ans.r /\ ans.d.val # k.val
    \/ k.lacks /\ \/ ans.op = "getOwn" /\ ans.r # NoProp
                  \/ ans.op \in {"define", "ownKeys"} /\ ans.r
    \/ k.proto # "?" /\ \/ ans.op = "getPrototypeOf" /\ ans.r # k.proto
                        \/ ans.op = "setPrototypeOf" /\ ans.r /\ ans.p # k.proto

ProxyInit ==
    /\ target = [own |-> NoProp, ext |-> TRUE, proto |-> CHOOSE p \in Protos : TRUE]
    /\ revoked = FALSE
    /\ known = [closed |-> FALSE, stays |-> FALSE, readonly |-> FALSE, val |-> "?",
                lacks |-> FALSE, proto |-> "?", broken |-> FALSE]

\* A trap, or a script that has the target, does what an ordinary object allows.
TargetStep ==
    /\ \/ \E d \in Descs : Definable(d) /\ target' = [target EXCEPT !.own = d]
       \/ Exists /\ target.own.c /\ target' = [target EXCEPT !.own = NoProp]
       \/ target' = [target EXCEPT !.ext = FALSE]
       \/ target.ext /\ \E p \in Protos : target' = [target EXCEPT !.proto = p]
    /\ UNCHANGED <<revoked, known>>

\* get_proxy_method throws on a revoked proxy; otherwise the trap is called and its
\* answer checked.
TrapStep ==
    /\ ~revoked
    /\ \E ans \in Answers \ {Throw} :
          known' = [Learn(known, ans) EXCEPT !.broken = @ \/ Contradicts(known, ans)]
    /\ UNCHANGED <<target, revoked>>

js_proxy_revoke == ~revoked /\ revoked' = TRUE /\ UNCHANGED <<target, known>>

ProxyNext == TargetStep \/ TrapStep \/ js_proxy_revoke

ProxySpec == ProxyInit /\ [][ProxyNext]_proxyVars

-----------------------------------------------------------------------------
\* Whatever the traps answer and do, a script that trusts the proxy is never told the
\* opposite later: an object that cannot grow does not grow, a property that cannot
\* be deleted is there, a value that cannot change does not (the checks after each
\* call of a trap). The value in a reported descriptor is no such promise: "XXX: not
\* complete check: need to compare value & getter/setter" (quickjs.c:44834).
ProxyKeepsItsWord == ~known.broken

-----------------------------------------------------------------------------
(* A proxy keeps its word, for all values and prototypes. What a script has    *)
(* been told holds of the target (Backed), every answer that passes its check  *)
(* fits the target (Fits), and what an ordinary object has closed it does not  *)
(* open again.                                                                 *)

AllProtos == Protos \cup {CHOOSE p \in Protos : TRUE}

Targets == [own : Descs \cup {NoProp}, ext : BOOLEAN, proto : AllProtos]

Knowledge ==
    [closed : BOOLEAN, stays : BOOLEAN, readonly : BOOLEAN, val : Values \cup {Undef, "?"},
     lacks : BOOLEAN, proto : AllProtos \cup {"?"}, broken : BOOLEAN]

\* What is known through the proxy is true of the target, and final.
Backed ==
    /\ known.closed => ~target.ext
    /\ known.stays => Exists /\ ~target.own.c
    /\ known.readonly => Exists /\ Fixed(target.own)
    /\ known.val # "?" => known.readonly /\ known.val = target.own.val
    /\ known.lacks => known.closed /\ ~Exists
    /\ known.proto # "?" => known.closed /\ known.proto = target.proto

ProxyInv == target \in Targets /\ known \in Knowledge /\ Backed /\ ~known.broken

\* What an answer that was let through says of the target.
Fits(ans) ==
    /\ ans.op = "isExtensible" => ans.r = target.ext
    /\ ans.op = "preventExtensions" /\ ans.r => ~target.ext
    /\ ans.op \in {"has", "ownKeys"} /\ ~ans.r /\ Exists => target.own.c
    /\ ans.op = "ownKeys" /\ ~ans.r /\ ~target.ext => ~Exists
    /\ ans.op = "ownKeys" /\ ans.r /\ ~target.ext => Exists
    /\ ans.op = "delete" /\ ans.r /\ Exists => target.own.c
    /\ ans.op = "get" /\ Exists /\ Fixed(target.own) => ans.r = target.own.val
    /\ ans.op = "set" /\ ans.r /\ Exists /\ Fixed(target.own) => ans.v = target.own.val
    /\ ans.op = "getPrototypeOf" /\ ~target.ext => ans.r = target.proto
    /\ ans.op = "setPrototypeOf" /\ ans.r /\ ~target.ext => ans.p = target.proto
    /\ ans.op = "getOwn" /\ ans.r = NoProp /\ Exists => target.own.c /\ target.ext
    /\ ans.op = "getOwn" /\ ans.r # NoProp =>
         /\ ~target.ext => Exists
         /\ ~ans.r.c => Exists /\ ~target.own.c
         /\ Exists /\ ~target.own.c => ~ans.r.c
         /\ Fixed(ans.r) => Fixed(target.own)
         /\ Exists /\ Fixed(target.own) => Fixed(ans.r)
    /\ ans.op = "define" /\ ans.r =>
         /\ ~target.ext => Exists
         /\ ~ans.d.c => Exists /\ ~target.own.c
         /\ Fixed(ans.d) => Fixed(target.own)
         /\ Exists /\ Fixed(target.own) => ans.d.val = target.own.val

-----------------------------------------------------------------------------
\* A description of a property: its kind, and flags that are Booleans.
LEMMA DescTypes ==
  ASSUME NEW d \in Descs
  PROVE  /\ d # NoProp /\ d.kind \in {"data", "getset"} /\ d.c \in BOOLEAN /\ d.w \in BOOLEAN
         /\ d.val \in Values \cup {Undef, "fn"}
         /\ d.kind = "data" => d.val \in Values
         /\ d.kind = "getset" => ~d.w
<1>1. CASE \E v \in Values, w \in BOOLEAN, c \in BOOLEAN : d = DataProp(v, w, c)
  BY <1>1 DEF DataProp, NoProp
<1>2. CASE \E g \in {Undef, "fn"}, c \in BOOLEAN : d = AccProp(g, c)
  BY <1>2 DEF AccProp, NoProp
<1> QED
  BY <1>1, <1>2 DEF Descs

\* Every check that lets an answer through makes it fit.
LEMMA AnswersFit ==
  ASSUME target \in Targets, NEW ans \in Answers, ans # Throw
  PROVE  Fits(ans)
<1>1. target.ext \in BOOLEAN /\ (Exists => target.own \in Descs)
  BY DEF Targets, Exists
<1>2. CASE \E t \in Protos : ans = js_proxy_getPrototypeOf(t)
  BY <1>1, <1>2 DEF js_proxy_getPrototypeOf, Fits, Throw
<1>3. CASE \E p \in Protos, t \in BOOLEAN : ans = js_proxy_setPrototypeOf(p, t)
  BY <1>1, <1>3 DEF js_proxy_setPrototypeOf, Fits, Throw
<1>4. CASE \E t \in BOOLEAN : ans = js_proxy_isExtensible(t)
  BY <1>1, <1>4 DEF js_proxy_isExtensible, Fits, Throw
<1>5. CASE \E t \in BOOLEAN : ans = js_proxy_preventExtensions(t)
  BY <1>1, <1>5 DEF js_proxy_preventExtensions, Fits, Throw
<1>6. CASE \E t \in BOOLEAN : ans = js_proxy_has(t)
  BY <1>1, <1>6 DEF js_proxy_has, Fits, Throw
<1>7. CASE \E t \in BOOLEAN : ans = js_proxy_delete_property(t)
  BY <1>1, <1>7 DEF js_proxy_delete_property, Fits, Throw
<1>8. CASE \E t \in BOOLEAN : ans = js_proxy_get_own_property_names(t)
  BY <1>1, <1>8 DEF js_proxy_get_own_property_names, Fits, Throw
<1>9. CASE \E t \in Values \cup {Undef} : ans = js_proxy_get(t)
  BY <1>1, <1>9 DEF js_proxy_get, Fits, Throw
<1>10. CASE \E v \in Values, t \in BOOLEAN : ans = js_proxy_set(v, t)
  BY <1>1, <1>10 DEF js_proxy_set, Fits, Throw
<1>11. CASE \E t \in Descs \cup {NoProp} : ans = js_proxy_get_own_property(t)
  BY <1>1, <1>11, DescTypes DEF js_proxy_get_own_property, check_define_prop_flags, Fixed, Fits, Throw
<1>12. CASE \E d \in Descs, t \in BOOLEAN : ans = js_proxy_define_own_property(d, t)
  BY <1>1, <1>12, DescTypes DEF js_proxy_define_own_property, check_define_prop_flags, Fixed, Fits, Throw
<1>13. CASE ans \in UNION {{js_proxy_isExtensible(t), js_proxy_preventExtensions(t), js_proxy_has(t),
                            js_proxy_delete_property(t), js_proxy_get_own_property_names(t)}
                              : t \in BOOLEAN}
  <2>1. PICK t \in BOOLEAN :
          ans \in {js_proxy_isExtensible(t), js_proxy_preventExtensions(t), js_proxy_has(t),
                  js_proxy_delete_property(t), js_proxy_get_own_property_names(t)}
    BY <1>13, Zenon
  <2> QED
    BY <2>1, <1>4, <1>5, <1>6, <1>7, <1>8
<1> QED
  BY <1>2, <1>3, <1>9, <1>10, <1>11, <1>12, <1>13 DEF Answers

-----------------------------------------------------------------------------
\* An answer that fits does not contradict what is known.
LEMMA NoContradiction ==
  ASSUME ProxyInv, NEW ans, Fits(ans)
  PROVE  ~Contradicts(known, ans)
<1>1. /\ known.closed \in BOOLEAN /\ known.stays \in BOOLEAN /\ known.readonly \in BOOLEAN
      /\ known.lacks \in BOOLEAN /\ target.ext \in BOOLEAN
      /\ Exists => target.own \in Descs
  BY DEF ProxyInv, Knowledge, Targets, Exists
<1> QED
  BY <1>1 DEF ProxyInv, Backed, Fits, Contradicts, Fixed

\* What is learnt from it is true of the target.
LEMMA LearntIsBacked ==
  ASSUME ProxyInv, NEW ans \in Answers, Fits(ans), target' = target,
         known' = [Learn(known, ans) EXCEPT !.broken = @ \/ Contradicts(known, ans)]
  PROVE  ProxyInv'
<1>1. /\ known \in Knowledge /\ ~known.broken /\ target \in Targets
      /\ ~Contradicts(known, ans)
  BY NoContradiction DEF ProxyInv
<1> DEFINE closed == known.closed \/ (ans.op = "isExtensible" /\ ~ans.r)
                                  \/ (ans.op = "preventExtensions" /\ ans.r)
           stays == known.stays \/ (ans.op = "getOwn" /\ ans.r # NoProp /\ ~ans.r.c)
                                \/ (ans.op = "define" /\ ans.r /\ ~ans.d.c)
           readonly == known.readonly \/ (ans.op = "getOwn" /\ ans.r # NoProp /\ Fixed(ans.r))
                                      \/ (ans.op = "define" /\ ans.r /\ Fixed(ans.d))
           val == IF known.readonly /\ ans.op = "get" THEN ans.r ELSE known.val
           lacks == known.lacks \/ (known.closed /\ ans.op = "getOwn" /\ ans.r = NoProp)
                                \/ (known.closed /\ ans.op = "ownKeys" /\ ~ans.r)
           proto == IF known.closed /\ ans.op = "getPrototypeOf" THEN ans.r ELSE known.proto
<1>2. known' = [closed |-> closed, stays |-> stays, readonly |-> readonly, val |-> val,
                lacks |-> lacks, proto |-> proto,
                broken |-> known.broken \/ Contradicts(known, ans)]
  BY <1>1, ZenonT(30) DEF Learn, Knowledge
<1>3. /\ closed \in BOOLEAN /\ stays \in BOOLEAN /\ readonly \in BOOLEAN /\ lacks \in BOOLEAN
      /\ (known.broken \/ Contradicts(known, ans)) = FALSE
  BY <1>1
<1>4. /\ known.closed \in BOOLEAN /\ known.stays \in BOOLEAN /\ known.readonly \in BOOLEAN
      /\ known.lacks \in BOOLEAN /\ target.ext \in BOOLEAN
      /\ known.val \in Values \cup {Undef, "?"} /\ known.proto \in AllProtos \cup {"?"}
      /\ target.proto \in AllProtos /\ (Exists => target.own \in Descs)
  BY <1>1 DEF Knowledge, Targets, Exists
<1>5. /\ closed => ~target.ext
      /\ stays => Exists /\ ~target.own.c
      /\ readonly => Exists /\ Fixed(target.own)
      /\ val # "?" => readonly /\ val = target.own.val
      /\ lacks => closed /\ ~Exists
      /\ proto # "?" => closed /\ proto = target.proto
  <2>1. closed => ~target.ext
    BY <1>4 DEF ProxyInv, Backed, Fits
  <2>2. stays => Exists /\ ~target.own.c
    BY <1>4 DEF ProxyInv, Backed, Fits
  <2>3. readonly => Exists /\ Fixed(target.own)
    BY <1>4 DEF ProxyInv, Backed, Fits, Fixed
  <2>4. val # "?" => readonly /\ val = target.own.val
    BY <1>4 DEF ProxyInv, Backed, Fits
  <2>5. lacks => closed /\ ~Exists
    BY <1>4 DEF ProxyInv, Backed, Fits
  <2>6. proto # "?" => closed /\ proto = target.proto
    BY <1>4 DEF ProxyInv, Backed, Fits
  <2> QED
    BY <2>1, <2>2, <2>3, <2>4, <2>5, <2>6
<1>6. val \in Values \cup {Undef, "?"} /\ proto \in AllProtos \cup {"?"}
  <2>1. Exists /\ Fixed(target.own) => target.own.val \in Values
    BY <1>4, DescTypes DEF Fixed
  <2> QED
    BY <1>4, <2>1 DEF ProxyInv, Backed, Fits
<1> HIDE DEF closed, stays, readonly, val, lacks, proto
<1>7. known' \in Knowledge /\ known'.broken = FALSE
  <2>1. known' = [closed |-> closed, stays |-> stays, readonly |-> readonly, val |-> val,
                  lacks |-> lacks, proto |-> proto, broken |-> FALSE]
    BY <1>2, <1>3, Zenon
  <2>2. /\ closed \in BOOLEAN /\ stays \in BOOLEAN /\ readonly \in BOOLEAN /\ lacks \in BOOLEAN
        /\ FALSE \in BOOLEAN
    BY <1>3
  <2>3. [closed |-> closed, stays |-> stays, readonly |-> readonly, val |-> val,
         lacks |-> lacks, proto |-> proto, broken |-> FALSE] \in Knowledge
    BY ONLY <1>6, <2>2, Zenon DEF Knowledge
  <2>4. known'.broken = FALSE
    BY ONLY <2>1
  <2> QED
    BY <2>1, <2>3, <2>4, Zenon
<1>8. /\ known'.closed = closed /\ known'.stays = stays /\ known'.readonly = readonly
      /\ known'.val = val /\ known'.lacks = lacks /\ known'.proto = proto
  BY <1>2
<1>9. Exists' = Exists
  BY DEF Exists
<1>10. Backed'
  BY <1>5, <1>8, <1>9 DEF Backed
<1> QED
  BY <1>1, <1>7, <1>10 DEF ProxyInv

\* The target is an ordinary object: what it has closed stays closed.
LEMMA TargetStepKeeps == ProxyInv /\ TargetStep => ProxyInv'
<1> SUFFICES ASSUME ProxyInv, TargetStep PROVE ProxyInv'
  OBVIOUS
<1>1. target \in Targets /\ known' = known
  BY DEF ProxyInv, TargetStep
<1>2. /\ target.own \in Descs \cup {NoProp} /\ target.ext \in BOOLEAN
      /\ known.closed \in BOOLEAN /\ known.stays \in BOOLEAN /\ known.readonly \in BOOLEAN
      /\ known.lacks \in BOOLEAN
  BY DEF ProxyInv, Targets, Knowledge
<1>3. ASSUME NEW d \in Descs, Definable(d), target' = [target EXCEPT !.own = d]
      PROVE  target' \in Targets /\ Backed'
  <2>1. target' \in Targets /\ target'.own = d /\ target'.ext = target.ext /\ target'.proto = target.proto
    BY <1>1, <1>3 DEF Targets
  <2>2. /\ d # NoProp /\ d.kind \in {"data", "getset"} /\ d.c \in BOOLEAN /\ d.w \in BOOLEAN
        /\ Exists'
    BY <1>3, <2>1, DescTypes DEF Exists
  <2>3. CASE ~Exists
    BY <1>1, <1>2, <1>3, <2>1, <2>2, <2>3 DEF ProxyInv, Backed, Definable
  <2>4. CASE Exists /\ target.own.c
    BY <1>1, <1>2, <1>3, <2>1, <2>2, <2>4 DEF ProxyInv, Backed, Fixed
  <2>5. CASE Exists /\ ~target.own.c
    BY <1>1, <1>2, <1>3, <2>1, <2>2, <2>5 DEF ProxyInv, Backed, Fixed, Definable, check_define_prop_flags
  <2> QED
    BY <2>1, <2>3, <2>4, <2>5
<1>4. ASSUME Exists, target.own.c, target' = [target EXCEPT !.own = NoProp]
      PROVE  target' \in Targets /\ Backed'
  <2>1. /\ target' \in Targets /\ target'.own = NoProp /\ target'.ext = target.ext
        /\ target'.proto = target.proto
    BY <1>1, <1>4 DEF Targets
  <2> QED
    BY <1>1, <1>2, <1>4, <2>1 DEF ProxyInv, Backed, Fixed, Exists
<1>5. ASSUME target' = [target EXCEPT !.ext = FALSE]
      PROVE  target' \in Targets /\ Backed'
  <2>1. /\ target' \in Targets /\ target'.own = target.own /\ target'.ext = FALSE
        /\ target'.proto = target.proto
    BY <1>1, <1>5, Zenon DEF Targets
  <2> QED
    BY <1>1, <1>2, <2>1 DEF ProxyInv, Backed, Fixed, Exists
<1>6. ASSUME target.ext, NEW p \in Protos, target' = [target EXCEPT !.proto = p]
      PROVE  target' \in Targets /\ Backed'
  <2>1. /\ target' \in Targets /\ target'.own = target.own /\ target'.ext = target.ext
        /\ target'.proto = p
    BY <1>1, <1>6, Zenon DEF Targets, AllProtos
  <2> QED
    BY <1>1, <1>2, <1>6, <2>1 DEF ProxyInv, Backed, Fixed, Exists
<1>7. target' \in Targets /\ Backed'
  BY <1>3, <1>4, <1>5, <1>6 DEF TargetStep
<1> QED
  BY <1>1, <1>7 DEF ProxyInv

-----------------------------------------------------------------------------
\* Every step keeps the invariant.
LEMMA ProxyInvariant == ProxySpec => []ProxyInv
<1>1. ProxyInit => ProxyInv
  <2> SUFFICES ASSUME ProxyInit PROVE ProxyInv
    OBVIOUS
  <2>1. target \in Targets /\ known \in Knowledge
    BY DEF ProxyInit, Targets, Knowledge, AllProtos
  <2> QED
    BY <2>1 DEF ProxyInit, ProxyInv, Backed
<1>2. ProxyInv /\ [ProxyNext]_proxyVars => ProxyInv'
  <2> SUFFICES ASSUME ProxyInv, [ProxyNext]_proxyVars PROVE ProxyInv'
    OBVIOUS
  <2>1. CASE TrapStep
    <3>1. PICK ans \in Answers \ {Throw} :
            known' = [Learn(known, ans) EXCEPT !.broken = @ \/ Contradicts(known, ans)]
      BY <2>1 DEF TrapStep
    <3>2. Fits(ans)
      BY <3>1, AnswersFit DEF ProxyInv
    <3> QED
      BY <2>1, <3>1, <3>2, LearntIsBacked, Zenon DEF TrapStep
  <2>2. CASE js_proxy_revoke \/ UNCHANGED proxyVars
    BY <2>2 DEF js_proxy_revoke, proxyVars, ProxyInv, Backed, Exists
  <2> QED
    BY <2>1, <2>2, TargetStepKeeps DEF ProxyNext
<1> QED
  BY <1>1, <1>2, PTL DEF ProxySpec

\* Whatever the traps of a handler do and answer, for all values and
\* prototypes, the checks of js_proxy_get and the other operations keep a proxy
\* from taking back what it has said of its target.
THEOREM ProxiesKeepTheirWord == ProxySpec => []ProxyKeepsItsWord
BY ProxyInvariant, PTL DEF ProxyInv, ProxyKeepsItsWord
=============================================================================
