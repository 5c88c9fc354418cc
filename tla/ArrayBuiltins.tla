-------------------------------- MODULE ArrayBuiltins --------------------------------
(***************************************************************************)
(* The methods of Array.prototype.  An array has its own elements el (a     *)
(* function from indices to [val, fixed]; a fixed element can neither be    *)
(* written nor deleted), a length, and whether the length may change (lenW) *)
(* and elements may be added (ext).  A fast array keeps its elements, which *)
(* are then 0..count-1 and not fixed, in one block of memory: the methods   *)
(* have paths of their own for it.  A method is an operator from the array  *)
(* and its arguments to the array it leaves, whether it returned or threw   *)
(* (ok), and what it returned; a step of it that throws ends it there.      *)
(***************************************************************************)
EXTENDS Integers, Sequences, FiniteSets, SequencesExt, FiniteSetsExt, TLC

CONSTANTS
    Inherited,    \* the elements of Array.prototype: a function from indices to values
    Undef         \* the value undefined

Elem(v) == [val |-> v, fixed |-> FALSE]
NewArray == [fast |-> TRUE, el |-> <<>>, length |-> 0, lenW |-> TRUE, ext |-> TRUE]
Count(a) == Cardinality(DOMAIN a.el)

Runs(a) == [a |-> a, ok |-> TRUE, ret |-> <<>>]
Throws(r) == [r EXCEPT !.ok = FALSE, !.ret = <<>>]
Returns(r, v) == IF r.ok THEN [r EXCEPT !.ret = v] ELSE r

-----------------------------------------------------------------------------
(* The accesses that the methods are made of. *)

JS_HasProperty(a, i) == i \in DOMAIN a.el \cup DOMAIN Inherited
JS_GetPropertyInt64(a, i) ==
    IF i \in DOMAIN a.el THEN a.el[i].val ELSE IF i \in DOMAIN Inherited THEN Inherited[i] ELSE Undef

JS_SetPropertyInt64(r, i, v) ==
    LET a == r.a
    IN  IF ~r.ok THEN r
        ELSE IF i \in DOMAIN a.el
        THEN IF a.el[i].fixed THEN Throws(r) ELSE [r EXCEPT !.a.el[i].val = v]
        ELSE IF ~a.ext \/ (i >= a.length /\ ~a.lenW) THEN Throws(r)
        ELSE [r EXCEPT !.a.el = @ @@ (i :> Elem(v)), !.a.length = Max({@, i + 1}),
                       !.a.fast = @ /\ i = Count(a)]

JS_DeletePropertyInt64(r, i) ==
    LET a == r.a
    IN  IF ~r.ok \/ i \notin DOMAIN a.el THEN r
        ELSE IF a.el[i].fixed THEN Throws(r)
        ELSE [r EXCEPT !.a.el = [k \in DOMAIN @ \ {i} |-> @[k]], !.a.fast = @ /\ i = Count(a) - 1]

\* A shorter length removes elements from the end down to one that is fixed.
SetLength(r, n) ==
    LET stuck == {i \in DOMAIN r.a.el : i >= n /\ r.a.el[i].fixed}
        len == IF stuck = {} THEN n ELSE Max(stuck) + 1
        cut == [r EXCEPT !.a.length = len, !.a.el = [i \in {k \in DOMAIN @ : k < len} |-> @[i]]]
    IN  IF ~r.ok THEN r
        ELSE IF ~r.a.lenW THEN Throws(r)
        ELSE IF stuck = {} THEN cut ELSE Throws(cut)

\* Definitions on the array a method has made for its result.
Define(a, i, v) == JS_SetPropertyInt64(Runs(a), i, v).a
WithLength(a, n) == SetLength(Runs(a), n).a

\* A position argument: negative ones count from the end.
JS_ToInt64Clamp(v, min, max, neg_offset) == Min({Max({IF v < 0 THEN v + neg_offset ELSE v, min}), max})

Steps(n) == [k \in 1..n |-> k - 1]

\* Faulty variant: the block is always moved from its start.
JS_CopySubArray_Up(r, to, from, count, dir) ==
    FoldLeft(LAMBDA s, i :
                IF JS_HasProperty(s.a, from + i)
                THEN JS_SetPropertyInt64(s, to + i, JS_GetPropertyInt64(s.a, from + i))
                ELSE JS_DeletePropertyInt64(s, to + i), r, Steps(count))

JS_CopySubArray(r, to, from, count, dir) ==
    FoldLeft(LAMBDA s, k :
                LET i == IF dir < 0 THEN count - k - 1 ELSE k
                IN  IF JS_HasProperty(s.a, from + i)
                    THEN JS_SetPropertyInt64(s, to + i, JS_GetPropertyInt64(s.a, from + i))
                    ELSE JS_DeletePropertyInt64(s, to + i), r, Steps(count))

-----------------------------------------------------------------------------
(* Methods that change the array. *)

\* The elements of a fast array, moved in memory.
Block(vals) == [i \in 0..(Len(vals) - 1) |-> Elem(vals[i + 1])]
Values(a) == [k \in 1..Count(a) |-> a.el[k - 1].val]

js_array_pop(a, shift) ==
    LET n == a.length - 1
        vals == Values(a)
        res == JS_GetPropertyInt64(a, IF shift THEN 0 ELSE n)
        moved == IF shift THEN JS_CopySubArray(Runs(a), 0, 1, n, 1) ELSE Runs(a)
    IN  IF a.length = 0 THEN Returns(SetLength(Runs(a), 0), <<Undef>>)
        ELSE IF a.fast /\ Count(a) = a.length
        THEN Returns(SetLength(Runs([a EXCEPT !.el = Block(IF shift THEN Tail(vals) ELSE Front(vals))]), n),
                     <<IF shift THEN Head(vals) ELSE Last(vals)>>)
        ELSE Returns(SetLength(JS_DeletePropertyInt64(moved, n), n), <<res>>)

SetAll(r, from, vals) ==
    FoldLeft(LAMBDA s, k : JS_SetPropertyInt64(s, from + k - 1, vals[k]), r, [k \in DOMAIN vals |-> k])

js_array_push(a, args, unshift) ==
    LET n == a.length + Len(args)
        front == unshift /\ args # <<>>
        moved == IF front THEN JS_CopySubArray(Runs(a), Len(args), 0, a.length, -1) ELSE Runs(a)
    IN  IF a.fast /\ a.ext /\ a.lenW /\ Count(a) = a.length
        THEN [Runs([a EXCEPT !.length = n,
                     !.el = Block(IF front THEN args \o Values(a) ELSE Values(a) \o args)]) EXCEPT !.ret = <<n>>]
        ELSE Returns(SetLength(SetAll(moved, IF front THEN 0 ELSE a.length, args), n), <<n>>)

ReverseStep(r, l, h) ==
    LET lp == JS_HasProperty(r.a, l)
        hp == JS_HasProperty(r.a, h)
        lv == JS_GetPropertyInt64(r.a, l)
        low == JS_SetPropertyInt64(r, l, JS_GetPropertyInt64(r.a, h))
    IN  IF hp THEN IF lp THEN JS_SetPropertyInt64(low, h, lv) ELSE JS_DeletePropertyInt64(low, h)
        ELSE IF lp THEN JS_SetPropertyInt64(JS_DeletePropertyInt64(r, l), h, lv) ELSE r

js_array_reverse(a) ==
    IF a.fast /\ Count(a) = a.length THEN Runs([a EXCEPT !.el = Block(Reverse(Values(a)))])
    ELSE FoldLeft(LAMBDA s, l : ReverseStep(s, l, a.length - 1 - l), Runs(a), Steps(a.length \div 2))

js_array_fill(a, v, start, end) ==
    LET s == JS_ToInt64Clamp(start, 0, a.length, a.length)
        e == JS_ToInt64Clamp(end, 0, a.length, a.length)
    IN  SetAll(Runs(a), s, [k \in 1..(e - s) |-> v])

js_array_copyWithin(a, target, start, end) ==
    LET to == JS_ToInt64Clamp(target, 0, a.length, a.length)
        from == JS_ToInt64Clamp(start, 0, a.length, a.length)
        count == Min({JS_ToInt64Clamp(end, 0, a.length, a.length) - from, a.length - to})
    IN  JS_CopySubArray(Runs(a), to, from, count, IF from < to /\ to < from + count THEN -1 ELSE 1)

\* The elements from start on, count of them, as a new array.  The elements of a
\* fast array are copied from its memory, the others by their indices.
Copied(a, start, count) ==
    LET quick == IF a.fast THEN Max({0, Min({count, Count(a) - start})}) ELSE 0
        block == [NewArray EXCEPT !.el = [i \in 0..(quick - 1) |-> a.el[start + i]],
                                  !.length = count]
        rest == {i \in quick..(count - 1) : JS_HasProperty(a, start + i)}
    IN  WithLength(FoldLeft(LAMBDA arr, i : IF i \in rest THEN Define(arr, i, JS_GetPropertyInt64(a, start + i))
                                            ELSE arr, block, Steps(count)), count)

js_array_slice(a, start, end) ==
    LET s == JS_ToInt64Clamp(start, 0, a.length, a.length)
        e == JS_ToInt64Clamp(end, 0, a.length, a.length)
    IN  Returns(Runs(a), <<Copied(a, s, Max({e - s, 0}))>>)

\* slice with splice set: args replace the elements that are taken out.
js_array_splice(a, start, del, args) ==
    LET s == JS_ToInt64Clamp(start, 0, a.length, a.length)
        d == JS_ToInt64Clamp(del, 0, a.length - s, 0)
        n == Len(args)
        len == a.length + n - d
        moved == JS_CopySubArray(Runs(a), s + n, s + d, a.length - (s + d), IF n <= d THEN 1 ELSE -1)
        cut == FoldLeft(LAMBDA r, k : JS_DeletePropertyInt64(r, a.length - 1 - k), moved, Steps(a.length - len))
    IN  Returns(SetLength(SetAll(IF n = d THEN Runs(a) ELSE cut, s, args), len), <<Copied(a, s, d)>>)

\* The elements that are there, sorted by the rank that the comparison gives them and
\* by position, then as many
\* undefined as there were; the rest is deleted.  An element that kept its place
\* is not written.
js_array_sort(a, rank) ==
    LET there == {i \in 0..(a.length - 1) : JS_HasProperty(a, i)}
        val(i) == JS_GetPropertyInt64(a, i)
        defined == SetToSortSeq({i \in there : val(i) # Undef},
                                LAMBDA i, j : \/ rank[val(i)] < rank[val(j)]
                                              \/ rank[val(i)] = rank[val(j)] /\ i < j)
        pos == Len(defined)
        undefs == Cardinality(there) - pos
        sorted == FoldLeft(LAMBDA r, n : IF defined[n + 1] = n THEN r
                                         ELSE JS_SetPropertyInt64(r, n, val(defined[n + 1])), Runs(a), Steps(pos))
        filled == SetAll(sorted, pos, [k \in 1..undefs |-> Undef])
    IN  FoldLeft(LAMBDA r, k : JS_DeletePropertyInt64(r, pos + undefs + k), filled,
                 Steps(a.length - pos - undefs))

-----------------------------------------------------------------------------
(* Methods that read it. *)

\* The first match at or after n: in the block of a fast array, then by index.
js_array_indexOf(a, v, from) ==
    LET n == JS_ToInt64Clamp(from, 0, a.length, a.length)
        block == {i \in n..(Count(a) - 1) : a.fast /\ a.el[i].val = v}
        rest == {i \in n..(a.length - 1) : JS_HasProperty(a, i) /\ JS_GetPropertyInt64(a, i) = v}
    IN  IF block # {} THEN Min(block) ELSE IF rest # {} THEN Min(rest) ELSE -1

js_array_includes(a, v, from) ==
    \E i \in JS_ToInt64Clamp(from, 0, a.length, a.length)..(a.length - 1) : JS_GetPropertyInt64(a, i) = v

js_array_lastIndexOf(a, v, from) ==
    LET n == JS_ToInt64Clamp(from, -1, a.length - 1, a.length)
        found == {i \in 0..n : JS_HasProperty(a, i) /\ JS_GetPropertyInt64(a, i) = v}
    IN  IF a.length > 0 /\ found # {} THEN Max(found) ELSE -1

\* b is an argument that is spread, args the ones that are not.
js_array_concat(a, b, args) ==
    LET Spread(s, e) == [n |-> s.n + e.length,
                         arr |-> FoldLeft(LAMBDA arr, k : IF JS_HasProperty(e, k)
                                              THEN Define(arr, s.n + k, JS_GetPropertyInt64(e, k)) ELSE arr,
                                          s.arr, Steps(e.length))]
        s1 == Spread(Spread([n |-> 0, arr |-> NewArray], a), b)
        s2 == FoldLeft(LAMBDA s, v : [n |-> s.n + 1, arr |-> Define(s.arr, s.n, v)], s1, args)
    IN  WithLength(s2.arr, s2.n)

-----------------------------------------------------------------------------
(* Methods that call a function for the elements.  The n-th call returns       *)
(* f[n].ret and has changed the array by then as f[n].does says.               *)

Does(a, what, k) ==
    CASE what = "nothing" -> a
      [] what = "clears" -> SetLength(Runs(a), 0).a
      [] what = "appends" -> js_array_push(a, <<"new">>, FALSE).a
      [] what = "deletes next" -> JS_DeletePropertyInt64(Runs(a), k + 1).a
      [] what = "sets next" -> JS_SetPropertyInt64(Runs(a), k + 1, "set").a

\* The state of a loop: the array, the calls (index, value, and the array as the
\* call left it), the result and whether the loop was left.
Loop(a, ret) == [a |-> a, calls |-> <<>>, ret |-> ret, over |-> FALSE]
Call(st, f, k) == f[Len(st.calls) + 1]
Called(st, f, k) ==
    LET after == Does(st.a, Call(st, f, k).does, k)
    IN  [st EXCEPT !.a = after,
                   !.calls = Append(@, [k |-> k, val |-> JS_GetPropertyInt64(st.a, k), after |-> after,
                                        ret |-> Call(st, f, k).ret])]

js_array_every(a, special, f) ==
    LET first == CASE special = "every" -> <<TRUE>>
                   [] special = "some" -> <<FALSE>>
                   [] special = "map" -> <<WithLength(NewArray, a.length)>>
                   [] special = "filter" -> <<NewArray>>
                   [] OTHER -> <<>>
        Ret(st, k) ==
            LET yes == Call(st, f, k).ret
            IN  CASE special = "every" -> <<yes>>
                  [] special = "some" -> <<yes>>
                  [] special = "map" -> <<Define(st.ret[1], k, yes)>>
                  [] special = "filter" /\ yes ->
                        <<Define(st.ret[1], st.ret[1].length, JS_GetPropertyInt64(st.a, k))>>
                  [] OTHER -> st.ret
        Round(st, k) ==
            IF st.over \/ ~JS_HasProperty(st.a, k) THEN st
            ELSE [Called(st, f, k) EXCEPT
                    !.ret = Ret(st, k),
                    !.over = special \in {"every", "some"} /\ Call(st, f, k).ret = (special = "some")]
    IN  FoldLeft(Round, Loop(a, first), Steps(a.length))

\* The accumulator is the sequence of the values that were folded into it; it is
\* empty while no element has been found to start from.
js_array_reduce(a, right, f) ==
    LET Round(st, k) ==
            LET k1 == IF right THEN a.length - k - 1 ELSE k
            IN  IF ~JS_HasProperty(st.a, k1) THEN st
                ELSE IF st.ret = <<>> THEN [st EXCEPT !.ret = <<JS_GetPropertyInt64(st.a, k1)>>]
                ELSE [Called(st, f, k1) EXCEPT !.ret = Append(@, JS_GetPropertyInt64(st.a, k1))]
    IN  FoldLeft(Round, Loop(a, <<>>), Steps(a.length))

\* find and findIndex look at holes too; the result is the index, -1 if none.
js_array_find(a, f) ==
    LET Round(st, k) ==
            IF st.over THEN st
            ELSE [Called(st, f, k) EXCEPT !.ret = IF Call(st, f, k).ret THEN <<k>> ELSE @,
                                          !.over = Call(st, f, k).ret]
    IN  FoldLeft(Round, Loop(a, <<-1>>), Steps(a.length))

-----------------------------------------------------------------------------
(* What ECMAScript says of the methods. *)

Hole == "hole"
Own(a) == [i \in 0..(a.length - 1) |-> IF i \in DOMAIN a.el THEN a.el[i].val ELSE Hole]
Seen(a) == [i \in 0..(a.length - 1) |-> IF JS_HasProperty(a, i) THEN JS_GetPropertyInt64(a, i) ELSE Hole]

\* Two arrays a script cannot tell apart.
Alike(a, b) == a.el = b.el /\ a.length = b.length /\ a.lenW = b.lenW /\ a.ext = b.ext
AlikeEnds(r, s) == Alike(r.a, s.a) /\ r.ok = s.ok /\ r.ret = s.ret

\* The methods with a path of their own for fast arrays do what they do on the
\* same array without it, also when the length is read-only or no element may be
\* added, and whether or not the array ends in holes (js_array_pop, js_array_push,
\* js_array_reverse, js_array_slice, js_array_indexOf).
FastAgreesWithGeneric(a, args) ==
    LET slow == [a EXCEPT !.fast = FALSE]
    IN  /\ \A dir \in BOOLEAN : /\ AlikeEnds(js_array_pop(a, dir), js_array_pop(slow, dir))
                               /\ AlikeEnds(js_array_push(a, args, dir), js_array_push(slow, args, dir))
        /\ AlikeEnds(js_array_reverse(a), js_array_reverse(slow))
        /\ \A s, e \in 0..a.length :
              /\ Alike(js_array_slice(a, s, e).ret[1], js_array_slice(slow, s, e).ret[1])
              /\ \A v \in {Undef, "x", "y"} : js_array_indexOf(a, v, s) = js_array_indexOf(slow, v, s)

Index(v, len) == IF v < 0 THEN Max({len + v, 0}) ELSE Min({v, len})

\* On an array that lets every write through, each method gives the sequence that
\* ECMAScript defines by rearranging the old one, holes and inherited elements
\* included; the block moves of copyWithin and splice do not overwrite what they
\* still have to read.
RearrangesAsSpecified(a, p, q, args) ==
    LET len == a.length
        old == [i \in 1..len |-> Seen(a)[i - 1]]
        own == [i \in 1..len |-> Own(a)[i - 1]]
        From(b) == [i \in 1..b.length |-> Own(b)[i - 1]]
        from == Index(p, len)
        to == Index(q, len)
        count == Min({len - from, len - to})
        del == Min({Max({q, 0}), len - from})
        mid == (len \div 2) + 1
    IN  /\ From(js_array_push(a, args, FALSE).a) = own \o args
        /\ From(js_array_push(a, args, TRUE).a) = IF args = <<>> THEN own ELSE args \o old
        /\ From(js_array_pop(a, TRUE).a) = IF len = 0 THEN <<>> ELSE Tail(old)
        /\ From(js_array_reverse(a).a)
              = [i \in 1..len |-> IF len % 2 = 1 /\ i = mid THEN own[i] ELSE old[len + 1 - i]]
        /\ From(js_array_copyWithin(a, q, p, len).a)
              = [i \in 1..len |-> IF i > to /\ i <= to + count THEN old[from + i - to] ELSE own[i]]
        /\ From(js_array_slice(a, p, q).ret[1]) = SubSeq(old, from + 1, to)
        /\ From(js_array_splice(a, p, q, args).ret[1]) = SubSeq(old, from + 1, from + del)
        /\ From(js_array_splice(a, p, q, args).a)
              = SubSeq(own, 1, from) \o args
                  \o SubSeq(IF Len(args) = del THEN own ELSE old, from + del + 1, len)
        /\ From(js_array_fill(a, "f", p, q).a) = [i \in 1..len |-> IF i > from /\ i <= to THEN "f" ELSE own[i]]
        /\ From(js_array_concat(a, a, args)) = old \o old \o args

\* sort brings the defined elements into order and keeps equal ones in their
\* order, then come the undefined ones, then the holes (js_array_sort).
SortsAsSpecified(a, rank) ==
    LET before == SelectSeq([i \in 1..a.length |-> Seen(a)[i - 1]], LAMBDA v : v # Hole)
        r == js_array_sort(a, rank)
        after == [i \in 1..Len(before) |-> Seen(r.a)[i - 1]]
    IN  /\ r.a.length = a.length /\ \A i \in DOMAIN r.a.el : i < Len(before)
        /\ \A i, j \in DOMAIN after :
              i < j => /\ after[i] = Undef => after[j] = Undef
                       /\ after[j] # Undef => rank[after[i]] <= rank[after[j]]
        /\ \A v \in Range(before) \ {Undef} :
              SelectSeq(after, LAMBDA w : w # Undef /\ rank[w] = rank[v])
                = SelectSeq(before, LAMBDA w : w # Undef /\ rank[w] = rank[v])

\* The calls are made for the indices below the first length in order; each gets
\* the value as the call before left it, and an index is passed over only if the
\* array then had nothing there (holes says that this is no reason).
CallsInOrder(st, a, order, holes, first) ==
    LET calls == st.calls
        Before(n) == IF n = 1 THEN a ELSE calls[n - 1].after
        place(k) == CHOOSE p \in DOMAIN order : order[p] = k
    IN  /\ \A n \in DOMAIN calls :
              /\ n > 1 => place(calls[n - 1].k) < place(calls[n].k)
              /\ calls[n].val = JS_GetPropertyInt64(Before(n), calls[n].k)
        /\ \A k \in Range(order) :
              LET made == Cardinality({n \in DOMAIN calls : place(calls[n].k) <= place(k)})
              IN  \/ \E n \in DOMAIN calls : calls[n].k = k
                  \/ first /\ made = 0
                  \/ made = Len(calls) /\ st.over
                  \/ ~holes /\ ~JS_HasProperty(Before(made + 1), k)

\* The methods that call a function visit what ECMAScript has them visit although
\* the function changes the array, and put the answers together as it says
\* (js_array_every for every, some, forEach, map and filter; js_array_reduce;
\* js_array_find).
VisitsAsSpecified(a, f) ==
    LET up == Steps(a.length)
        yes(st) == SelectSeq(st.calls, LAMBDA c : c.ret)
        Vals(calls) == [n \in DOMAIN calls |-> calls[n].val]
        E(special) == js_array_every(a, special, f)
    IN  /\ \A special \in {"every", "some", "forEach", "map", "filter"} :
              CallsInOrder(E(special), a, up, FALSE, FALSE)
        /\ E("every").ret[1] <=> \A n \in DOMAIN E("every").calls : E("every").calls[n].ret
        /\ E("some").ret[1] <=> yes(E("some")) # <<>>
        /\ LET m == E("map") IN
             /\ m.ret[1].length = a.length
             /\ m.ret[1].el = [k \in {m.calls[n].k : n \in DOMAIN m.calls} |->
                                 Elem(\E n \in DOMAIN m.calls : m.calls[n].k = k /\ m.calls[n].ret)]
        /\ Values(E("filter").ret[1]) = Vals(yes(E("filter")))
        /\ \A right \in BOOLEAN :
              LET st == js_array_reduce(a, right, f)
              IN  /\ CallsInOrder(st, a, IF right THEN Reverse(up) ELSE up, FALSE, TRUE)
                  /\ st.ret # <<>> => Tail(st.ret) = Vals(st.calls)
        /\ LET st == js_array_find(a, f) IN
             /\ CallsInOrder(st, a, up, TRUE, FALSE)
             /\ st.ret[1] = IF yes(st) = <<>> THEN -1 ELSE yes(st)[1].k

-----------------------------------------------------------------------------
(***************************************************************************)
(* The sort of cutils.c: rqsort, a three-way quicksort with its own stack   *)
(* of segments, insertion sort for small segments and heapsort for segments *)
(* that are too deep.  A comparison is a function from pairs of values to   *)
(* -1, 0 and 1; it comes from the caller (Array.prototype.sort hands it the *)
(* script's function) and need not be an order.  Positions start at 1.      *)
(***************************************************************************)

CONSTANTS
    SmallCount,   \* 6: segments up to this size are sorted by insertion
    MaxDepth      \* 50: the partitions after which heapsort takes over

Swap(arr, i, j) == [arr EXCEPT ![i] = arr[j], ![j] = arr[i]]

\* The block of n elements at i changes places with the one at j.
SwapBlock(arr, i, j, n) == FoldLeft(LAMBDA a, k : Swap(a, i + k, j + k), arr, [k \in 1..n |-> k - 1])

\* cmp(basep + i, basep + j)
Compare(arr, cmp, i, j) == cmp[<<arr[i], arr[j]>>]

-----------------------------------------------------------------------------
(* heapsortx, on the n elements from base on.  Offsets start at 0. *)

RECURSIVE SiftDown(_, _, _, _, _)
SiftDown(arr, cmp, base, r, n) ==
    LET left == 2 * r + 1
        c == IF left + 1 < n /\ Compare(arr, cmp, base + left, base + left + 1) <= 0
             THEN left + 1 ELSE left
    IN  IF left >= n \/ Compare(arr, cmp, base + r, base + c) > 0 THEN arr
        ELSE SiftDown(Swap(arr, base + r, base + c), cmp, base, c, n)

heapsortx(arr, cmp, base, n) ==
    LET half == n \div 2
        heap == FoldLeft(LAMBDA a, k : SiftDown(a, cmp, base, half - k, n), arr, [k \in 1..half |-> k])
    IN  FoldLeft(LAMBDA a, k : SiftDown(Swap(a, base, base + n - k), cmp, base, 0, n - k),
                 heap, [k \in 1..(n - 1) |-> k])

-----------------------------------------------------------------------------
(* rqsort *)

med3(arr, cmp, a, b, c) ==
    IF Compare(arr, cmp, a, b) < 0
    THEN IF Compare(arr, cmp, b, c) < 0 THEN b ELSE IF Compare(arr, cmp, a, c) < 0 THEN c ELSE a
    ELSE IF Compare(arr, cmp, b, c) > 0 THEN b ELSE IF Compare(arr, cmp, a, c) < 0 THEN a ELSE c

\* The two scans towards each other: up to an element greater than the pivot at
\* ptr, down to one smaller; elements equal to it gather at both ends.
RECURSIVE ScanUp(_, _, _), ScanDown(_, _, _)
ScanUp(s, cmp, ptr) ==
    LET c == Compare(s.arr, cmp, ptr, s.pi)
    IN  IF s.pi >= s.pj \/ c < 0 THEN ScanDown(s, cmp, ptr)
        ELSE IF c > 0 THEN ScanUp([s EXCEPT !.pi = @ + 1], cmp, ptr)
        ELSE ScanUp([s EXCEPT !.arr = Swap(@, s.plt, s.pi), !.plt = @ + 1, !.pi = @ + 1], cmp, ptr)
ScanDown(s, cmp, ptr) ==
    LET pj == s.pj - 1
        c == Compare(s.arr, cmp, ptr, pj)
    IN  IF s.pi >= pj THEN s
        ELSE IF c > 0 THEN ScanUp([s EXCEPT !.arr = Swap(@, s.pi, pj), !.pi = @ + 1, !.pj = pj], cmp, ptr)
        ELSE IF c < 0 THEN ScanDown([s EXCEPT !.pj = pj], cmp, ptr)
        ELSE ScanDown([s EXCEPT !.arr = Swap(@, s.pgt - 1, pj), !.pgt = @ - 1, !.pj = pj], cmp, ptr)

\* One partition of the n elements at ptr: those smaller than the pivot come
\* first, lt of them, then those equal to it, and from gt on the greater ones.
Partition(arr, cmp, ptr, n) ==
    LET q == n \div 4
        top == ptr + n
        s == ScanUp([arr |-> Swap(arr, ptr, med3(arr, cmp, ptr + q, ptr + 2 * q, ptr + 3 * q)),
                     pi |-> ptr + 1, pj |-> top, plt |-> ptr + 1, pgt |-> top], cmp, ptr)
        low == Min({s.plt - ptr, s.pi - s.plt})
        high == Min({top - s.pgt, s.pgt - s.pi})
    IN  [arr |-> SwapBlock(SwapBlock(s.arr, ptr, s.pi - low, low), s.pi, top - high, high),
         lt |-> s.pi - s.plt, gt |-> n - (s.pgt - s.pi)]

\* The element at pj sinks to its place among those of the segment before it.
RECURSIVE Insert(_, _, _, _)
Insert(arr, cmp, ptr, pj) ==
    IF pj > ptr /\ Compare(arr, cmp, pj - 1, pj) > 0
    THEN Insert(Swap(arr, pj, pj - 1), cmp, ptr, pj - 1) ELSE arr

Segment(base, count, depth) == [base |-> base, count |-> count, depth |-> depth]

\* The segment that waits on the stack and the one that is sorted first.
Larger(ptr, n, p, depth) ==
    LET below == Segment(ptr, p.lt, depth)
        above == Segment(ptr + p.gt, n - p.gt, depth)
    IN  IF p.lt > n - p.gt THEN <<below, above>> ELSE <<above, below>>

\* st is the array, the stack and the greatest height of the stack so far.
RECURSIVE SortSegments(_, _)
SortSegments(st, cmp) ==
    LET s == Last(st.stack)
        rest == Front(st.stack)
        p == Partition(st.arr, cmp, s.base, s.count)
        deeper == rest \o Larger(s.base, s.count, p, s.depth + 1)
    IN  IF st.stack = <<>> THEN st
        ELSE IF s.count > SmallCount /\ s.depth >= MaxDepth
        THEN SortSegments([st EXCEPT !.arr = heapsortx(@, cmp, s.base, s.count), !.stack = rest], cmp)
        ELSE IF s.count > SmallCount
        THEN SortSegments([st EXCEPT !.arr = p.arr, !.stack = deeper,
                                     !.high = Max({@, Len(deeper) - 1})], cmp)
        ELSE SortSegments([st EXCEPT !.stack = rest,
                              !.arr = FoldLeft(LAMBDA a, k : Insert(a, cmp, s.base, s.base + k), @,
                                               [k \in 1..(s.count - 1) |-> k])], cmp)

\* The n elements of the memory mem from base on.
rqsort(mem, base, n, cmp) ==
    SortSegments([arr |-> mem, high |-> 0,
                  stack |-> IF n < 2 THEN <<>> ELSE <<Segment(base, n, 0)>>], cmp)

-----------------------------------------------------------------------------

Permuted(a, b) == \A v \in Range(a) \cup Range(b) :
                     Cardinality({i \in DOMAIN a : a[i] = v}) = Cardinality({i \in DOMAIN b : b[i] = v})

\* With the order of the numbers, rqsort sorts, whichever of its three ways it
\* takes, and the stack of segments stays logarithmic in the length: the fixed
\* stack of 50 is enough for any array.
SortsInBoundedSpace(arr) ==
    LET vals == Range(arr)
        st == rqsort(arr, 1, Len(arr),
                     [p \in vals \X vals |-> IF p[1] < p[2] THEN -1 ELSE IF p[1] = p[2] THEN 0 ELSE 1])
    IN  /\ Permuted(st.arr, arr)
        /\ \A i \in 1..(Len(arr) - 1) : st.arr[i] <= st.arr[i + 1]
        /\ st.high > 0 => SmallCount * 2 ^ (st.high - 1) < Len(arr)

\* Whatever the comparison answers, rqsort ends, no element is lost or doubled and
\* the memory before and after the array is untouched: a script's comparison
\* function need not be consistent.
NothingLost(arr, cmp, before, after) ==
    LET mem == rqsort(<<before>> \o arr \o <<after>>, 2, Len(arr), cmp).arr
    IN  /\ mem[1] = before /\ Last(mem) = after
        /\ Permuted(mem, <<before>> \o arr \o <<after>>)
=============================================================================
