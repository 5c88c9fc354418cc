-------------------------------- MODULE ArrayElements --------------------------------
(* What the operations on an array object promise (ECMAScript 10.4.2, with         *)
(* ArraySetLength). An array is its elements with their attributes, its length,     *)
(* and whether either may still change; an operation gives the arrays and results   *)
(* it may end with. It departs from ECMAScript in one place: defining an element     *)
(* past the end of an array that may not grow can move the length although it fails *)
(* (the second case of DefineElement).                                               *)
EXTENDS Integers, Sequences, SequencesExt, FiniteSets, FiniteSetsExt

CONSTANT Absent    \* a field a descriptor does not have; the value undefined

IsAccessor(d) == d.get # Absent
IsData(d) == d.val # Absent \/ d.w # Absent

Ends(s, r) == {[s |-> s, r |-> r]}
Elem(kind, val, w, c) == [kind |-> kind, val |-> val, w |-> w, c |-> c]
WithElem(s, i, e) ==
    [s EXCEPT !.elems = [j \in DOMAIN @ \cup {i} |-> IF j = i THEN e ELSE @[j]],
              !.length = Max({@, i + 1})]

\* ValidateAndApplyPropertyDescriptor on an existing element: may it, and what it becomes.
Compatible(e, d) ==
    \/ e.c
    \/ /\ d.c # "yes"
       /\ IsAccessor(d) => e.kind = "getset" /\ d.get = e.val
       /\ IsData(d) => /\ e.kind = "data"
                       /\ ~e.w => d.w # "yes" /\ d.val \in {Absent, e.val}

Applied(e, d) ==
    LET c == IF d.c = Absent THEN e.c ELSE d.c = "yes" IN
    CASE IsAccessor(d) -> Elem("getset", d.get, FALSE, c)
      [] IsData(d) ->
           Elem("data",
                IF d.val # Absent THEN d.val ELSE IF e.kind = "data" THEN e.val ELSE Absent,
                IF d.w # Absent THEN d.w = "yes" ELSE e.kind = "data" /\ e.w, c)
      [] OTHER -> [e EXCEPT !.c = c]

Created(d) == IF IsAccessor(d) THEN Elem("getset", d.get, FALSE, d.c = "yes")
              ELSE Elem("data", d.val, d.w = "yes", d.c = "yes")

MayGrow(s, i) == s.ext /\ (s.lenW \/ i < s.length)

DefineElement(s, i, d) ==
    CASE i \in DOMAIN s.elems ->
           IF Compatible(s.elems[i], d) THEN Ends([s EXCEPT !.elems[i] = Applied(@, d)], TRUE)
           ELSE Ends(s, FALSE)
      [] i \notin DOMAIN s.elems /\ ~MayGrow(s, i) ->
           Ends(s, FALSE) \cup IF s.lenW THEN Ends([s EXCEPT !.length = Max({@, i + 1})], FALSE) ELSE {}
      [] OTHER -> Ends(WithElem(s, i, Created(d)), TRUE)

SetElement(s, i, v) ==
    CASE i \in DOMAIN s.elems ->
           IF s.elems[i].kind = "data" /\ s.elems[i].w
           THEN Ends([s EXCEPT !.elems[i].val = v], TRUE) ELSE Ends(s, FALSE)
      [] i \notin DOMAIN s.elems /\ MayGrow(s, i) ->
           Ends(WithElem(s, i, Elem("data", v, TRUE, TRUE)), TRUE)
      [] OTHER -> Ends(s, FALSE)

DeleteElement(s, i) ==
    IF i \in DOMAIN s.elems /\ ~s.elems[i].c THEN Ends(s, FALSE)
    ELSE Ends([s EXCEPT !.elems = [j \in DOMAIN @ \ {i} |-> @[j]]], TRUE)

\* Elements are removed from the end up to the last one that may not be.
Truncated(s, n, w) ==
    LET stuck == {i \in DOMAIN s.elems : i >= n /\ ~s.elems[i].c}
        len == IF stuck = {} THEN n ELSE Max(stuck) + 1
    IN Ends([s EXCEPT !.length = len, !.lenW = w,
                      !.elems = [i \in {j \in DOMAIN @ : j < len} |-> @[i]]], stuck = {})

DefineLength(s, n, w) ==
    CASE ~s.lenW /\ (w = "yes" \/ n \notin {Absent, s.length}) -> Ends(s, FALSE)
      [] n = Absent -> Ends([s EXCEPT !.lenW = @ /\ w # "no"], TRUE)
      [] OTHER -> Truncated(s, n, s.lenW /\ w # "no")

SetLength(s, n) == IF s.lenW THEN Truncated(s, n, TRUE) ELSE Ends(s, FALSE)

-----------------------------------------------------------------------------
(* The elements of an array object (quickjs.c). A fast array keeps its elements in *)
(* a vector of values, all of them configurable and writable and without holes; an *)
(* operation the vector cannot hold turns it, for good, into an ordinary object    *)
(* whose elements are properties. Deleted properties leave empty places until the   *)
(* object is compacted. The prototype chain has no elements; enumerability behaves *)
(* as configurability does and is left out.                                         *)

CONSTANTS
    Indices, Lengths, Vals,
    Descriptors,    \* partial descriptors: val, get, w and c
    CompactFrom,    \* the deleted properties from which an object is compacted, 8 in the code
    MaxPlaces       \* bound on the places of the property list

VARIABLE a

arrayVars == <<a>>

\* length is the first property; the list holds the others, -1 for an empty place.
Empty == [atom |-> -1]
prop_count(x) == 1 + Len(x.props)
Place(x, i) == {k \in DOMAIN x.props : x.props[k].atom = i}
DeletedPlaces(x) == Cardinality({k \in DOMAIN x.props : x.props[k] = Empty})
Prop(i, kind, val, w, c) == [atom |-> i, kind |-> kind, val |-> val, w |-> w, c |-> c]

\* History: skipped once a change of the length has compacted the object on its way.
ArrayInit ==
    a = [fast |-> TRUE, vals |-> <<>>, props |-> <<>>, length |-> 0, lenW |-> TRUE, ext |-> TRUE,
         skipped |-> FALSE]

\* An operation ends with the array and its result.
Done(x, r) == [x |-> x, r |-> r]

convert_fast_array_to_array(x) ==
    [x EXCEPT !.fast = FALSE, !.vals = <<>>,
              !.props = @ \o [k \in DOMAIN x.vals |-> Prop(k - 1, "data", x.vals[k], TRUE, TRUE)]]

add_fast_array_element(x, v) ==
    LET n == Len(x.vals) + 1
    IN IF n > x.length /\ ~x.lenW THEN Done(x, FALSE)
       ELSE Done([x EXCEPT !.vals = Append(@, v), !.length = Max({n, @})], TRUE)

compact_array(x) == [x EXCEPT !.props = SelectSeq(@, LAMBDA e : e # Empty)]

\* The place of a deleted property stays empty until enough of them are.
delete_place(x, k) ==
    LET y == [x EXCEPT !.props[k] = Empty]
    IN IF DeletedPlaces(y) >= CompactFrom /\ DeletedPlaces(y) >= prop_count(y) \div 2
       THEN compact_array(y) ELSE y

delete_slow(x, i) ==
    IF Place(x, i) = {} THEN Done(x, TRUE)
    ELSE LET k == CHOOSE n \in Place(x, i) : TRUE
         IN IF x.props[k].c THEN Done(delete_place(x, k), TRUE) ELSE Done(x, FALSE)

\* Only the last element of a fast array can be deleted in place.
array_delete_property(x, i) ==
    IF x.fast /\ i < Len(x.vals)
    THEN IF i = Len(x.vals) - 1 THEN Done([x EXCEPT !.vals = Front(@)], TRUE)
         ELSE delete_slow(convert_fast_array_to_array(x), i)
    ELSE delete_slow(x, i)

\* One by one from the end, up to an element that cannot be deleted.
RECURSIVE DeleteDown(_, _, _)
DeleteDown(x, cur, n) ==
    IF cur <= n THEN Done(x, cur)
    ELSE LET d == delete_slow(x, cur - 1)
         IN IF d.r THEN DeleteDown(d.x, cur - 1, n) ELSE Done(x, cur)

\* The places are visited in order, by number, while they are emptied: when the object
\* is compacted in between, the elements that move to lower places are passed over.
RECURSIVE DeletePlaces(_, _, _)
DeletePlaces(x, k, n) ==
    IF k > Len(x.props) THEN x
    ELSE LET e == x.props[k]
             y == IF e # Empty /\ e.atom >= n /\ e.c THEN delete_place(x, k) ELSE x
         IN DeletePlaces(y, k + 1, n)

\* A short distance is deleted index by index; a long one in two passes over the
\* properties, the first of which finds the length that can be reached.
set_array_length(x, n) ==
    IF ~x.lenW THEN Done(x, FALSE)
    ELSE IF x.fast
         THEN Done([x EXCEPT !.vals = SubSeq(@, 1, Min({n, Len(@)})), !.length = n], TRUE)
         ELSE LET stuck == {x.props[k].atom : k \in {j \in DOMAIN x.props :
                               x.props[j] # Empty /\ x.props[j].atom >= n /\ ~x.props[j].c}}
                  lim == IF stuck = {} THEN n ELSE Max(stuck) + 1
                  d == IF n >= x.length THEN Done(x, n)
                       ELSE IF x.length - n <= prop_count(x) THEN DeleteDown(x, x.length, n)
                       ELSE LET y == DeletePlaces(x, 1, lim)
                            IN Done([y EXCEPT !.skipped = @ \/ Len(y.props) < Len(x.props)], lim)
              IN Done([d.x EXCEPT !.length = d.r], d.r <= n)

HasAccessor(d) == d.get # Absent
HasData(d) == d.val # Absent \/ d.w # Absent

\* The length moves before the array is known to be extensible.
JS_CreateProperty(x, i, d) ==
    LET y == IF x.fast THEN convert_fast_array_to_array(x) ELSE x
        z == [y EXCEPT !.length = Max({i + 1, @})]
        new == IF HasAccessor(d) THEN Prop(i, "getset", d.get, FALSE, d.c = "yes")
               ELSE Prop(i, "data", d.val, d.w = "yes", d.c = "yes")
    IN CASE x.fast /\ i = Len(x.vals) /\ ~x.ext -> Done(x, FALSE)
         [] x.fast /\ i = Len(x.vals) /\ x.ext /\ ~HasAccessor(d) /\ d.w = "yes" /\ d.c = "yes" ->
              add_fast_array_element(x, d.val)
         [] i + 1 > y.length /\ ~y.lenW -> Done(y, FALSE)
         [] OTHER -> IF ~x.ext THEN Done(z, FALSE) ELSE Done([z EXCEPT !.props = Append(@, new)], TRUE)

check_define_prop_flags(e, d) ==
    ~e.c => /\ d.c # "yes"
            /\ HasAccessor(d) \/ HasData(d) =>
                  /\ HasAccessor(d) <=> e.kind = "getset"
                  /\ e.kind = "data" /\ ~e.w => d.w # "yes"

\* Faulty variant: the value of a property that is neither configurable nor writable changes.
redefine_Overwrites(e, d) ==
    LET f == IF d.c = Absent THEN e ELSE [e EXCEPT !.c = d.c = "yes"]
        g == IF e.kind = "getset" THEN [f EXCEPT !.kind = "data", !.w = FALSE, !.val = Absent] ELSE f
    IN CASE HasAccessor(d) -> {[f EXCEPT !.kind = "getset", !.w = FALSE, !.val = d.get]}
         [] HasData(d) -> {[g EXCEPT !.val = IF d.val = Absent THEN @ ELSE d.val,
                                     !.w = IF d.w = Absent THEN @ ELSE d.w = "yes"]}
         [] OTHER -> {f}

\* The redefined property; none if the change is refused.
redefine(e, d) ==
    LET f == IF d.c = Absent THEN e ELSE [e EXCEPT !.c = d.c = "yes"]
        g == IF e.kind = "getset" THEN [f EXCEPT !.kind = "data", !.w = FALSE, !.val = Absent] ELSE f
    IN CASE HasAccessor(d) ->
              IF e.kind = "getset" /\ ~e.c /\ d.get # e.val THEN {}
              ELSE {[f EXCEPT !.kind = "getset", !.w = FALSE, !.val = d.get]}
         [] HasData(d) ->
              IF e.kind = "data" /\ ~e.c /\ ~e.w /\ d.val # Absent
              THEN IF d.val = e.val THEN {e} ELSE {}
              ELSE {[g EXCEPT !.val = IF d.val = Absent THEN @ ELSE d.val,
                              !.w = IF d.w = Absent THEN @ ELSE d.w = "yes"]}
         [] OTHER -> {f}

define_slow(x, i, d) ==
    IF Place(x, i) = {} THEN JS_CreateProperty(x, i, d)
    ELSE LET k == CHOOSE n \in Place(x, i) : TRUE
             new == IF check_define_prop_flags(x.props[k], d) THEN redefine(x.props[k], d) ELSE {}
         IN IF new = {} THEN Done(x, FALSE)
            ELSE Done([x EXCEPT !.props[k] = CHOOSE e \in new : TRUE], TRUE)

JS_DefineProperty(x, i, d) ==
    IF x.fast /\ i < Len(x.vals)
    THEN IF d.w = "no" \/ d.c = "no" \/ HasAccessor(d)
         THEN define_slow(convert_fast_array_to_array(x), i, d)
         ELSE Done(IF d.val = Absent THEN x ELSE [x EXCEPT !.vals[i + 1] = d.val], TRUE)
    ELSE define_slow(x, i, d)

\* The length property is never configurable; writable is taken away even if the
\* length could not be reached.
define_length(x, n, w) ==
    IF ~x.lenW /\ (w = "yes" \/ n \notin {Absent, x.length}) THEN Done(x, FALSE)
    ELSE IF ~x.lenW /\ n # Absent THEN Done(x, TRUE)
    ELSE LET s == IF n = Absent THEN Done(x, TRUE) ELSE set_array_length(x, n)
         IN Done([s.x EXCEPT !.lenW = @ /\ w # "no"], s.r)

JS_SetPropertyValue(x, i, v) ==
    IF x.fast /\ i < Len(x.vals) THEN Done([x EXCEPT !.vals[i + 1] = v], TRUE)
    ELSE IF x.fast /\ i = Len(x.vals) /\ x.ext THEN add_fast_array_element(x, v)
    ELSE IF Place(x, i) # {}
         THEN LET k == CHOOSE n \in Place(x, i) : TRUE
              IN IF x.props[k].kind = "data" /\ x.props[k].w
                 THEN Done([x EXCEPT !.props[k].val = v], TRUE) ELSE Done(x, FALSE)
         ELSE IF ~x.ext THEN Done(x, FALSE)
         ELSE JS_CreateProperty(x, i, [val |-> v, get |-> Absent, w |-> "yes", c |-> "yes"])

JS_PreventExtensions == a.ext /\ a' = [a EXCEPT !.ext = FALSE]

-----------------------------------------------------------------------------
Step(d) == Len(d.x.props) <= MaxPlaces /\ a' = d.x

ArrayNext ==
    \/ \E i \in Indices, d \in Descriptors : Step(JS_DefineProperty(a, i, d))
    \/ \E i \in Indices, v \in Vals : Step(JS_SetPropertyValue(a, i, v))
    \/ \E i \in Indices : Step(array_delete_property(a, i))
    \/ \E n \in Lengths \cup {Absent}, w \in {"yes", "no", Absent} : Step(define_length(a, n, w))
    \/ \E n \in Lengths : Step(set_array_length(a, n))
    \/ JS_PreventExtensions

-----------------------------------------------------------------------------

\* The array as a caller sees it.
Seen(x) ==
    [elems |-> [i \in {k - 1 : k \in DOMAIN x.vals} \cup
                      {x.props[k].atom : k \in {j \in DOMAIN x.props : x.props[j] # Empty}} |->
                  IF i < Len(x.vals)
                  THEN [kind |-> "data", val |-> x.vals[i + 1], w |-> TRUE, c |-> TRUE]
                  ELSE LET e == x.props[CHOOSE k \in Place(x, i) : TRUE]
                       IN [kind |-> e.kind, val |-> e.val, w |-> e.w, c |-> e.c]],
     length |-> x.length, lenW |-> x.lenW, ext |-> x.ext]

SeenEnd(d) == [s |-> Seen(d.x), r |-> d.r]

\* The two representations do not show: in every array that the operations can build,
\* each operation on the elements and on the length does and returns what its promise
\* says, whether the array is still fast, converts in the middle of it, or has been
\* an ordinary object for long (JS_DefineProperty, JS_SetPropertyValue,
\* delete_property, set_array_length). The exception is a change of the length that
\* compacts the object while it goes through the properties (second pass of
\* set_array_length): nothing is said of it, nor of the array from then on.
ElementsAsSpecified ==
    ~a.skipped =>
    LET s == Seen(a) IN
    /\ \A i \in Indices : /\ \A d \in Descriptors :
                              SeenEnd(JS_DefineProperty(a, i, d)) \in DefineElement(s, i, d)
                         /\ \A v \in Vals :
                              SeenEnd(JS_SetPropertyValue(a, i, v)) \in SetElement(s, i, v)
                         /\ SeenEnd(array_delete_property(a, i)) \in DeleteElement(s, i)
    /\ \A n \in Lengths : LET d == set_array_length(a, n)
                          IN  d.x.skipped \/ SeenEnd(d) \in SetLength(s, n)
    /\ \A n \in Lengths \cup {Absent}, w \in {"yes", "no", Absent} :
          LET d == define_length(a, n, w)
          IN  d.x.skipped \/ SeenEnd(d) \in DefineLength(s, n, w)

\* The length is above every element, and a fast array has its elements in the vector
\* alone ("set the array length and remove the array elements if necessary",
\* set_array_length), with the same exception.
LengthAboveElements ==
    ~a.skipped =>
    /\ Len(a.vals) <= a.length
    /\ \A k \in DOMAIN a.props : a.props[k] # Empty => a.props[k].atom < a.length
    /\ IF a.fast THEN \A k \in DOMAIN a.props : a.props[k] = Empty ELSE a.vals = <<>>
=============================================================================
