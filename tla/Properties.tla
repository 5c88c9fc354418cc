-------------------------------- MODULE Properties --------------------------------
(* Reading and writing a property through a prototype chain (quickjs.c). The chain *)
(* is an object, its prototype, and so on, all of them ordinary objects; one name  *)
(* is looked at. A property is a data property, an accessor with or without a       *)
(* setter, or one whose value is made on first use (JS_PROP_AUTOINIT).              *)
EXTENDS Integers, Sequences, FiniteSets, FiniteSetsExt, SequencesExt

CONSTANTS
    ChainLength,    \* the objects of the chain
    WriteVal,       \* the value written
    InitVal,        \* the value a lazy property is made with
    OldVal          \* the value of the other data properties

VARIABLE chain      \* the chain, the object first

chainVars == <<chain>>

Links == 1..ChainLength
None == [kind |-> "none"]
Data(v, w, c) == [kind |-> "data", val |-> v, w |-> w, c |-> c]
Lazy(w, c) == [kind |-> "auto", val |-> InitVal, w |-> w, c |-> c]
Getset(setter, c) == [kind |-> "getset", setter |-> setter, c |-> c]
Has(ch, k) == ch[k].own # None

\* What an operation ends with: the chain, its result, and the setter it called.
Outcome(ch, r, called) == [ch |-> ch, r |-> r, called |-> called]

find_first(ch, from) ==
    LET found == {k \in from..ChainLength : Has(ch, k)} IN IF found = {} THEN 0 ELSE Min(found)

JS_AutoInitProperty(ch, k) ==
    IF ch[k].own.kind = "auto" THEN [ch EXCEPT ![k].own = Data(@.val, @.w, @.c)] ELSE ch

\* Without a setter the write fails; the receiver of the call is the object.
call_setter(ch, k) ==
    IF ch[k].own.setter THEN Outcome(ch, TRUE, k) ELSE Outcome(ch, FALSE, 0)

add_or_refuse(ch, v) ==
    IF ch[1].ext THEN Outcome([ch EXCEPT ![1].own = Data(v, TRUE, TRUE)], TRUE, 0)
    ELSE Outcome(ch, FALSE, 0)

JS_HasProperty(ch) == find_first(ch, 1) # 0

\* The value found, the getter that computes it, or undefined; a lazy value is made.
JS_GetPropertyInternal(ch) ==
    LET k == find_first(ch, 1) IN
    CASE k = 0 -> [ch |-> ch, val |-> "undefined"]
      [] k # 0 /\ ch[k].own.kind = "getset" -> [ch |-> ch, val |-> <<"getter", k>>]
      [] OTHER -> [ch |-> JS_AutoInitProperty(ch, k), val |-> <<"value", ch[k].own.val>>]

\* The prototypes are searched for a setter or a property that may not be written;
\* the search goes on past a data property that may be. Lazy ones met are made.
SetThroughPrototypes(ch, v) ==
    LET stops == {k \in 2..ChainLength :
                    ch[k].own.kind = "getset" \/ (ch[k].own.kind \in {"data", "auto"} /\ ~ch[k].own.w)}
        stop == IF stops = {} THEN ChainLength + 1 ELSE Min(stops)
        made == [k \in Links |-> IF 2 <= k /\ k <= stop THEN JS_AutoInitProperty(ch, k)[k] ELSE ch[k]]
    IN IF stops = {} THEN add_or_refuse(made, v)
       ELSE IF ch[stop].own.kind = "getset" THEN call_setter(made, stop)
       ELSE Outcome(made, FALSE, 0)

JS_SetPropertyInternal(ch, v) ==
    LET own == ch[1].own IN
    CASE own.kind \in {"data", "auto"} ->
           IF own.w THEN Outcome([ch EXCEPT ![1].own = Data(v, TRUE, own.c)], TRUE, 0)
           ELSE Outcome(JS_AutoInitProperty(ch, 1), FALSE, 0)
      [] own.kind = "getset" -> call_setter(ch, 1)
      [] OTHER -> SetThroughPrototypes(ch, v)

\* The first object with the property decides, then the receiver is written.
JS_SetPropertyGeneric(ch, v) ==
    LET k == find_first(ch, 1)
        made == IF k = 0 THEN ch ELSE JS_AutoInitProperty(ch, k)
    IN CASE k = 0 -> add_or_refuse(ch, v)
         [] k # 0 /\ made[k].own.kind = "getset" -> call_setter(made, k)
         [] k # 0 /\ made[k].own.kind = "data" /\ ~made[k].own.w -> Outcome(made, FALSE, 0)
         [] OTHER -> IF k = 1 THEN Outcome([made EXCEPT ![1].own.val = v], TRUE, 0)
                     ELSE add_or_refuse(made, v)

-----------------------------------------------------------------------------
Props ==
    {None} \cup {Getset(s, TRUE) : s \in BOOLEAN}
           \cup {Data(OldVal, w, TRUE) : w \in BOOLEAN} \cup {Lazy(w, TRUE) : w \in BOOLEAN}

\* The script builds any chain and changes any object of it; a property that is not
\* configurable is not modelled here, ArrayElements has what may be done to one.
ChainInit == chain \in [Links -> [own : {None}, ext : {TRUE}]]

Redefine(k, p) == (chain[k].ext \/ Has(chain, k)) /\ chain' = [chain EXCEPT ![k].own = p]
Forbid(k) == chain[k].ext /\ chain' = [chain EXCEPT ![k].ext = FALSE]
Read == chain' = JS_GetPropertyInternal(chain).ch
Write == chain' = JS_SetPropertyInternal(chain, WriteVal).ch
ReflectSet == chain' = JS_SetPropertyGeneric(chain, WriteVal).ch

ChainNext ==
    \/ \E k \in Links, p \in Props : Redefine(k, p)
    \/ \E k \in Links : Forbid(k)
    \/ Read \/ Write \/ ReflectSet

-----------------------------------------------------------------------------
\* What a script can tell apart: a lazy property is the data property it becomes.
Visible(ch) == [k \in Links |-> IF Has(ch, k) THEN JS_AutoInitProperty(ch, k)[k] ELSE ch[k]]
Same(x, y) == Visible(x.ch) = Visible(y.ch) /\ x.r = y.r /\ x.called = y.called

\* The generic version of JS_SetProperty "for Reflect.set()" does what JS_SetProperty
\* does: the same result, the same setter called, the same objects afterwards
\* (JS_SetPropertyGeneric, JS_SetPropertyInternal).
SetAgreesWithGeneric ==
    Same(JS_SetPropertyInternal(chain, WriteVal), JS_SetPropertyGeneric(chain, WriteVal))

Shadowing == \E j, k \in 2..ChainLength : j < k /\ Has(chain, j) /\ Has(chain, k)

\* The two agree in every chain in which at most one prototype has the property, lazy
\* properties, missing setters and objects that may not grow included.
SetAgreesUnshadowed == Shadowing \/ SetAgreesWithGeneric

-----------------------------------------------------------------------------
(***************************************************************************)
(* Walks over the properties of an object in QuickJS (src/qjs/quickjs.c)   *)
(* while the script changes it: for-in, Object.keys and its kin, and the   *)
(* copying of properties by spread, rest and Object.assign.  The body of a *)
(* loop, and the getters the others call, run between the steps of a walk. *)
(*                                                                         *)
(* An object is [class, count, props]: the elements of an array or a       *)
(* string object, and the other properties [n, e] in the order of their    *)
(* creation with their enumerable flag.  walk.chain is the object and its  *)
(* prototype.  A name is a number: below 10 an array index, below 20 a     *)
(* string, above a symbol.                                                 *)
(***************************************************************************)

CONSTANTS Names,        \* the names of properties
          Chains,       \* the objects and prototypes a walk may start with
          MaxChanges    \* how often the script changes them during a walk

VARIABLE walk

IsIndex(n) == n < 10
JS_AtomGetKind(n) == IF n < 20 THEN "string" ELSE "symbol"
Prop(n, e) == [n |-> n, e |-> e]

Own(o) == 0..(o.count - 1) \cup {o.props[i].n : i \in DOMAIN o.props}
Enumerable(o, n) == n < o.count \/ \E i \in DOMAIN o.props : o.props[i] = Prop(n, TRUE)
HasName(objs, n) == \E i \in DOMAIN objs : n \in Own(objs[i])

Elements(o) == [i \in 1..o.count |-> Prop(i - 1, TRUE)]

\* rqsort with num_keys_cmp
ByNumber(tab) == SortSeq(tab, LAMBDA x, y : x.n < y.n)

\* The own properties of the given kinds: the indexes in ascending order, then
\* strings and symbols as they were created.
JS_GetOwnPropertyNamesInternal(o, kinds, enum_only) ==
    LET tab == SelectSeq(o.props, LAMBDA x : JS_AtomGetKind(x.n) \in kinds /\ (x.e \/ ~enum_only))
        index == SelectSeq(tab, LAMBDA x : IsIndex(x.n))
        num_keys == index \o (IF "string" \in kinds THEN Elements(o) ELSE <<>>)
    IN  (IF index = <<>> THEN num_keys ELSE ByNumber(num_keys))
        \o SelectSeq(tab, LAMBDA x : ~IsIndex(x.n) /\ JS_AtomGetKind(x.n) = "string")
        \o SelectSeq(tab, LAMBDA x : JS_AtomGetKind(x.n) = "symbol")

-----------------------------------------------------------------------------
(* for-in *)

\* JS_DefinePropertyValue on the object of the iterator: the properties are
\* not configurable, so the first definition stays.
Define(tab, x) == IF \E i \in DOMAIN tab : tab[i].n = x.n THEN tab ELSE Append(tab, x)

\* A property that is not enumerable does not hide those of the prototype.
SlowPath_Unhidden(objs) ==
    FoldLeft(Define, <<>>, FlattenSeq([i \in DOMAIN objs |-> JS_GetOwnPropertyNamesInternal(objs[i], {"string"}, TRUE)]))

SlowPath(objs) ==
    FoldLeft(Define, <<>>, FlattenSeq([i \in DOMAIN objs |-> JS_GetOwnPropertyNamesInternal(objs[i], {"string"}, FALSE)]))

\* The names to visit, with a flag.  An array without other enumerable
\* properties is walked by number.
build_for_in_iterator(objs) ==
    LET o == objs[1]
        enums(i) == JS_GetOwnPropertyNamesInternal(objs[i], {"string"}, TRUE)
    IN  IF \E i \in 2..Len(objs) : enums(i) # <<>> THEN SlowPath(objs)
        ELSE IF o.class = "array" /\ \A i \in DOMAIN o.props : ~o.props[i].e THEN Elements(o)
        ELSE enums(1)

-----------------------------------------------------------------------------
(* Changes of an object by the script *)

\* convert_fast_array_to_array
Slow(o) == IF o.class # "array" THEN o
           ELSE [class |-> "slow", count |-> 0, props |-> o.props \o Elements(o)]

delete_property(o, n) ==
    IF n < o.count THEN
        IF o.class = "string" THEN o
        ELSE IF n = o.count - 1 THEN [o EXCEPT !.count = @ - 1]
        ELSE [Slow(o) EXCEPT !.props = SelectSeq(@, LAMBDA x : x.n # n)]
    ELSE [o EXCEPT !.props = SelectSeq(@, LAMBDA x : x.n # n)]

JS_DefineProperty(o, n, e) ==
    IF n < o.count THEN IF o.class = "string" \/ e THEN o
                        ELSE [Slow(o) EXCEPT !.props = [i \in DOMAIN @ |-> IF @[i].n = n THEN Prop(n, e) ELSE @[i]]]
    ELSE IF n \in Own(o) THEN [o EXCEPT !.props = [i \in DOMAIN @ |-> IF @[i].n = n THEN Prop(n, e) ELSE @[i]]]
    ELSE IF o.class = "array" /\ n = o.count /\ e THEN [o EXCEPT !.count = @ + 1]
    ELSE [(IF IsIndex(n) THEN Slow(o) ELSE o) EXCEPT !.props = Append(@, Prop(n, e))]

-----------------------------------------------------------------------------
(* The walk. out are the names it has come by; live says whether each was    *)
(* there then, for-in, or an enumerable own property; start is the chain    *)
(* when the walk began and lost the names for which that has not been so     *)
(* since then.                                                               *)

EnumerationInit ==
    \E c \in Chains, kind \in {"for_in", "keys", "copy"} :
        walk = [kind |-> kind, phase |-> "start", chain |-> c, start |-> c, tab |-> <<>>,
                idx |-> 1, out |-> <<>>, live |-> TRUE, lost |-> {}, changes |-> 0]

Begin(kind, tab) == /\ walk.kind = kind /\ walk.phase = "start"
                    /\ walk' = [walk EXCEPT !.phase = "walking", !.tab = tab]

js_for_in_start == Begin("for_in", build_for_in_iterator(walk.chain))

\* JS_GetOwnPropertyNames2 lists all the names and looks at each again.
js_object_keys == Begin("keys", JS_GetOwnPropertyNamesInternal(walk.chain[1], {"string"}, FALSE))

JS_CopyDataProperties == Begin("copy", JS_GetOwnPropertyNamesInternal(walk.chain[1], {"string", "symbol"}, TRUE))

\* The walk goes on at the first of the names left for which Here holds.
Next(kind, Here(_)) ==
    LET left == {i \in walk.idx..Len(walk.tab) : Here(walk.tab[i])}
        n == walk.tab[Min(left)].n
    IN  /\ walk.kind = kind /\ walk.phase = "walking"
        /\ walk' = IF left = {} THEN [walk EXCEPT !.phase = "done"]
                   ELSE [walk EXCEPT !.idx = Min(left) + 1, !.out = Append(@, n),
                                     !.live = @ /\ IF kind = "for_in" THEN HasName(walk.chain, n)
                                                  ELSE Enumerable(walk.chain[1], n)]

js_for_in_next == Next("for_in", LAMBDA x : x.e /\ HasName(walk.chain, x.n))

JS_GetOwnPropertyNames2 == Next("keys", LAMBDA x : Enumerable(walk.chain[1], x.n))

\* An ordinary object is not asked again.
CopyProperty == Next("copy", LAMBDA x : TRUE)

\* The body of the loop, or the getter of the property just come by.
Change(i, o) ==
    /\ walk.phase = "walking" /\ walk.out # <<>> /\ walk.changes < MaxChanges
    /\ LET c == [walk.chain EXCEPT ![i] = o]
           missing == IF walk.kind = "for_in" THEN {n \in Names : ~HasName(c, n)}
                      ELSE {n \in Names : ~Enumerable(c[1], n)}
       IN  walk' = [walk EXCEPT !.chain = c, !.changes = @ + 1, !.lost = @ \cup missing]

EnumerationNext ==
    \/ js_for_in_start
    \/ js_object_keys
    \/ JS_CopyDataProperties
    \/ js_for_in_next
    \/ JS_GetOwnPropertyNames2
    \/ CopyProperty
    \/ \E i \in 1..2, n \in Names :
          \/ Change(i, delete_property(walk.chain[i], n))
          \/ \E e \in BOOLEAN : Change(i, JS_DefineProperty(walk.chain[i], n, e))

-----------------------------------------------------------------------------
(* Properties *)

\* The names a walk is to come by when nothing changes: those whose first
\* holder in the chain shows them, object by object, indexes first.
Precedes(c, m, n) ==
    LET holder(x) == Min({i \in DOMAIN c : x \in Own(c[i])})
        place(x) == IF IsIndex(x) THEN x
                    ELSE 100 * (IF JS_AtomGetKind(x) = "string" THEN 1 ELSE 2)
                         + CHOOSE j \in DOMAIN c[holder(x)].props : c[holder(x)].props[j].n = x
    IN  holder(m) < holder(n) \/ (holder(m) = holder(n) /\ place(m) < place(n))

Wanted(c, kind) ==
    {n \in Names : IF kind = "for_in" THEN /\ JS_AtomGetKind(n) = "string"
                                           /\ \E i \in DOMAIN c : Enumerable(c[i], n) /\ \A j \in 1..(i - 1) : n \notin Own(c[j])
                   ELSE Enumerable(c[1], n) /\ (kind = "copy" \/ JS_AtomGetKind(n) = "string")}

\* Whatever the script does to the object and its prototype during a walk,
\* every name is visited at most once and in the order the properties have,
\* and one that is there all the time is not missed.  for-in visits no other
\* names than those which could be seen when it began: not the added ones, nor
\* those a property that is not enumerable hides (build_for_in_iterator,
\* js_for_in_next, JS_GetOwnPropertyNames2).
WalksAsSpecified ==
    /\ \A i, j \in DOMAIN walk.out : i < j => Precedes(walk.start, walk.out[i], walk.out[j])
    /\ walk.kind = "for_in" => ToSet(walk.out) \subseteq Wanted(walk.start, "for_in")
    /\ walk.phase = "done" => Wanted(walk.start, walk.kind) \ walk.lost \subseteq ToSet(walk.out)

\* for-in visits no property that has been deleted, and Object.keys and its
\* kin show none that is not there and enumerable at the time (the tests in
\* js_for_in_next, "check if the property was deleted", and in
\* JS_GetOwnPropertyNames2, "Check if property is still enumerable").
VisitsAreLive == walk.kind # "copy" => walk.live

\* The copies that spread, rest and Object.assign make have no others either:
\* listing only the enumerable properties beforehand "introduces a visible
\* change" for proxies and is to introduce none for other objects
\* (JS_CopyDataProperties).
CopiesAreLive == walk.kind = "copy" => walk.live
=============================================================================
