----------------------------- MODULE TypedArrays -----------------------------
(***************************************************************************)
(* ArrayBuffers, the typed arrays and DataViews over them, and Atomics.     *)
(* The memory is a sequence of buffers, a buffer a sequence of bytes; a      *)
(* byte is a number below Base.  A view has a class, the number of its       *)
(* buffer, a byte offset and a count of elements.  A number given by a       *)
(* script is written in halves (5 stands for 2.5), so that the conversions   *)
(* have something to round.  A method is an operator from the memory, a view *)
(* and its arguments to [mem, ok, ret].                                      *)
(* Floating-point and BigInt classes differ from the ones here in the        *)
(* conversion of one element only and are left out; so are detached buffers, *)
(* which no script can make.                                                 *)
(***************************************************************************)
EXTENDS Integers, Sequences, SequencesExt, FiniteSetsExt, Bitwise

CONSTANT Base     \* values of a byte, a power of 2

Classes == {"Uint8C", "Int8", "Uint8", "Int16", "Uint16"}
Signed == {"Int8", "Int16"}
typed_array_size_log2(class) == IF class \in {"Int16", "Uint16"} THEN 1 ELSE 0
Size(class) == 2 ^ typed_array_size_log2(class)
Wrap(class) == Base ^ Size(class)

-----------------------------------------------------------------------------
(* Conversions. *)

\* To an integer, toward zero.
JS_ToInt32(h) == IF h < 0 THEN -((-h) \div 2) ELSE h \div 2

\* To the nearest of 0..Base-1, halves to the even one.
JS_ToUint8Clamp(h) ==
    LET low == h \div 2
        near == IF h % 2 = 0 \/ low % 2 = 0 THEN low ELSE low + 1
    IN  IF h < 0 THEN 0 ELSE IF h > 2 * (Base - 1) THEN Base - 1 ELSE near

ToElement(class, h) == IF class = "Uint8C" THEN JS_ToUint8Clamp(h) ELSE JS_ToInt32(h) % Wrap(class)

\* An element as a number: the signed classes read the upper half as negative.
Number(class, u) == IF class \in Signed /\ 2 * u >= Wrap(class) THEN u - Wrap(class) ELSE u

\* A position argument: negative ones count from the end.
JS_ToInt32Clamp(v, min, max, neg_offset) == Min({Max({IF v < 0 THEN v + neg_offset ELSE v, min}), max})

-----------------------------------------------------------------------------
(* Elements in memory, lowest byte first. *)

get_u(bytes) == FoldRight(LAMBDA b, acc : b + Base * acc, bytes, 0)
put_u(u, n) == [k \in 1..n |-> (u \div Base ^ (k - 1)) % Base]

\* The bytes at and after position pos (from 0) become new.
Put(bytes, pos, new) == [k \in DOMAIN bytes |-> IF k > pos /\ k <= pos + Len(new) THEN new[k - pos] ELSE bytes[k]]
Take(bytes, pos, n) == SubSeq(bytes, pos + 1, pos + n)
memmove(mem, b, pos, new) == [mem EXCEPT ![b] = Put(@, pos, new)]

Element(mem, v, i) == get_u(Take(mem[v.buf], v.off + i * Size(v.class), Size(v.class)))
Store(mem, v, i, u) == memmove(mem, v.buf, v.off + i * Size(v.class), put_u(u, Size(v.class)))

Done(mem, ret) == [mem |-> mem, ok |-> TRUE, ret |-> ret]
Throw(mem) == [mem |-> mem, ok |-> FALSE, ret |-> <<>>]

\* Reads and writes by index; outside of the array a read gives undefined (<<>>)
\* and a write does nothing or throws.
JS_GetPropertyValue(mem, v, i) ==
    IF i \in 0..(v.count - 1) THEN <<Number(v.class, Element(mem, v, i))>> ELSE <<>>
JS_SetPropertyValue(mem, v, i, h) ==
    IF i \in 0..(v.count - 1) THEN Done(Store(mem, v, i, ToElement(v.class, h)), <<>>) ELSE Throw(mem)

-----------------------------------------------------------------------------
(* Construction. *)

View(class, b, offset, n) == [class |-> class, buf |-> b, off |-> offset, count |-> n]

js_array_buffer_constructor(mem, n) == Done(Append(mem, [k \in 1..n |-> 0]), <<Len(mem) + 1>>)

\* A view of buffer b; len is negative for "the rest of it".
js_typed_array_constructor(mem, class, b, offset, len) ==
    LET size == Size(class)
        bytes == Len(mem[b])
        rest == (bytes - offset) \div size
    IN  IF offset % size # 0 \/ offset > bytes THEN Throw(mem)
        ELSE IF len < 0 /\ bytes % size # 0 THEN Throw(mem)
        ELSE IF len >= 0 /\ offset + len * size > bytes THEN Throw(mem)
        ELSE Done(mem, View(class, b, offset, IF len < 0 THEN rest ELSE len))

\* A new array of n elements in a buffer of its own, with the numbers vals.
js_typed_array_create(mem, class, vals) ==
    LET m == js_array_buffer_constructor(mem, Len(vals) * Size(class)).mem
        v == View(class, Len(m), 0, Len(vals))
    IN  Done(FoldLeft(LAMBDA acc, i : JS_SetPropertyValue(acc, v, i - 1, vals[i]).mem, m, [i \in DOMAIN vals |-> i]), v)

\* A new array with the elements of another one.
js_typed_array_constructor_ta(mem, src, class) ==
    IF src.class = class
    THEN Done(Append(mem, Take(mem[src.buf], src.off, src.count * Size(class))), View(class, Len(mem) + 1, 0, src.count))
    ELSE js_typed_array_create(mem, class, [i \in 1..src.count |-> 2 * JS_GetPropertyValue(mem, src, i - 1)[1]])

js_array_buffer_slice(mem, b, start, end) ==
    LET len == Len(mem[b])
        s == JS_ToInt32Clamp(start, 0, len, len)
        n == Max({JS_ToInt32Clamp(end, 0, len, len) - s, 0})
    IN  Done(Append(mem, Take(mem[b], s, n)), <<Len(mem) + 1>>)

js_typed_array_subarray(mem, v, start, end) ==
    LET s == JS_ToInt32Clamp(start, 0, v.count, v.count)
        n == Max({JS_ToInt32Clamp(end, 0, v.count, v.count) - s, 0})
    IN  js_typed_array_constructor(mem, v.class, v.buf, v.off + s * Size(v.class), n)

js_typed_array_slice(mem, v, start, end) ==
    LET s == JS_ToInt32Clamp(start, 0, v.count, v.count)
        n == Max({JS_ToInt32Clamp(end, 0, v.count, v.count) - s, 0})
    IN  Done(Append(mem, Take(mem[v.buf], v.off + s * Size(v.class), n * Size(v.class))),
             View(v.class, Len(mem) + 1, 0, n))

-----------------------------------------------------------------------------
(* Methods that write. *)

\* Elements of the same class are moved as bytes; others go one by one, each read
\* after the one before was written.
js_typed_array_set_internal(mem, dst, src, offset) ==
    IF offset < 0 \/ offset > dst.count - src.count THEN Throw(mem)
    ELSE IF src.class = dst.class
    THEN Done(memmove(mem, dst.buf, dst.off + offset * Size(dst.class),
                      Take(mem[src.buf], src.off, src.count * Size(src.class))), <<>>)
    ELSE Done(FoldLeft(LAMBDA m, i : JS_SetPropertyValue(m, dst, offset + i - 1, 2 * JS_GetPropertyValue(m, src, i - 1)[1]).mem,
                       mem, [i \in 1..src.count |-> i]), <<>>)

js_typed_array_copyWithin(mem, v, target, start, end) ==
    LET to == JS_ToInt32Clamp(target, 0, v.count, v.count)
        from == JS_ToInt32Clamp(start, 0, v.count, v.count)
        n == Min({JS_ToInt32Clamp(end, 0, v.count, v.count) - from, v.count - to})
        size == Size(v.class)
    IN  Done(IF n > 0 THEN memmove(mem, v.buf, v.off + to * size, Take(mem[v.buf], v.off + from * size, n * size))
             ELSE mem, <<>>)

js_typed_array_fill(mem, v, h, start, end) ==
    LET s == JS_ToInt32Clamp(start, 0, v.count, v.count)
        e == JS_ToInt32Clamp(end, 0, v.count, v.count)
    IN  Done(FoldLeft(LAMBDA m, k : Store(m, v, s + k - 1, ToElement(v.class, h)), mem, [k \in 1..(e - s) |-> k]), <<>>)

js_typed_array_reverse(mem, v) ==
    Done(FoldLeft(LAMBDA m, k : Store(Store(m, v, k - 1, Element(m, v, v.count - k)), v, v.count - k, Element(m, v, k - 1)),
                  mem, [k \in 1..(v.count \div 2) |-> k]), <<>>)

\* In the order of the numbers, without a comparison function.
js_typed_array_sort(mem, v) ==
    LET num(i) == Number(v.class, Element(mem, v, i))
        order == SetToSortSeq(0..(v.count - 1), LAMBDA i, j : num(i) < num(j) \/ (num(i) = num(j) /\ i < j))
    IN  Done(FoldLeft(LAMBDA m, k : Store(m, v, k - 1, Element(mem, v, order[k])), mem, [k \in 1..v.count |-> k]), <<>>)

-----------------------------------------------------------------------------
(* Searches. *)

\* Does class hold the number h?
Fits(class, h) == h % 2 = 0 /\ Number(class, ToElement(class, h)) = h \div 2

\* The index of the number h from k on, upward or downward; -1 if there is none.
\* What is compared with an element is the value cut to 16 bits (v below), but the
\* upward scan of a byte array cuts it to a byte first (memchr).
js_typed_array_indexOf(mem, v, h, from, last) ==
    LET k == IF last THEN IF from >= 0 THEN Min({from, v.count - 1}) ELSE from + v.count
             ELSE JS_ToInt32Clamp(from, 0, v.count, v.count)
        wide == (h \div 2) % (Base * Base)
        key == IF last THEN wide ELSE wide % Wrap(v.class)
        range == IF last THEN 0..k ELSE k..(v.count - 1)
        found == {i \in range : Element(mem, v, i) = key}
    IN  IF v.count = 0 \/ ~Fits(v.class, h) \/ found = {} THEN -1
        ELSE IF last THEN Max(found) ELSE Min(found)

-----------------------------------------------------------------------------
(* DataView: any offset, either byte order.  A view of bytes stands for it. *)

js_dataview_constructor(mem, b, offset, len) ==
    LET rest == Len(mem[b]) - offset
    IN  IF offset > Len(mem[b]) \/ len > rest THEN Throw(mem)
        ELSE Done(mem, View("Uint8", b, offset, IF len < 0 THEN rest ELSE len))

bswap(bytes, little) == IF little THEN bytes ELSE Reverse(bytes)

js_dataview_getValue(mem, dv, class, pos, little) ==
    IF pos + Size(class) > dv.count THEN Throw(mem)
    ELSE Done(mem, <<Number(class, get_u(bswap(Take(mem[dv.buf], dv.off + pos, Size(class)), little)))>>)

js_dataview_setValue(mem, dv, class, pos, h, little) ==
    IF pos + Size(class) > dv.count THEN Throw(mem)
    ELSE Done(memmove(mem, dv.buf, dv.off + pos, bswap(put_u(JS_ToInt32(h) % Wrap(class), Size(class)), little)), <<>>)

-----------------------------------------------------------------------------
(* Atomics: what is read is returned, cut to the class, as a number. *)

js_atomics_get_ptr(v, i) == v.class # "Uint8C" /\ i \in 0..(v.count - 1)

js_atomics_op(mem, v, i, op, h, rep) ==
    LET a == Element(mem, v, i)
        b == JS_ToInt32(h) % Wrap(v.class)
        new == CASE op = "add" -> a + b
                 [] op = "sub" -> a - b
                 [] op = "and" -> a & b
                 [] op = "or" -> a | b
                 [] op = "xor" -> a ^^ b
                 [] op = "exchange" -> b
                 [] op = "compareExchange" -> IF a = b THEN JS_ToInt32(rep) ELSE a
                 [] op = "load" -> a
    IN  IF ~js_atomics_get_ptr(v, i) THEN Throw(mem)
        ELSE Done(Store(mem, v, i, new % Wrap(v.class)), <<Number(v.class, a)>>)

js_atomics_store(mem, v, i, h) ==
    IF ~js_atomics_get_ptr(v, i) THEN Throw(mem)
    ELSE Done(Store(mem, v, i, JS_ToInt32(h) % Wrap(v.class)), <<JS_ToInt32(h)>>)

-----------------------------------------------------------------------------
(* What a script may rely on. *)

Numbers(mem, v) == [k \in 1..v.count |-> JS_GetPropertyValue(mem, v, k - 1)[1]]
InBounds(mem, v) == v.off >= 0 /\ v.off + v.count * Size(v.class) <= Len(mem[v.buf])

\* Every buffer keeps its length, and every byte outside of v keeps its value.
OnlyIn(mem, after, v) ==
    /\ Len(after) = Len(mem)
    /\ \A b \in DOMAIN mem :
          /\ Len(after[b]) = Len(mem[b])
          /\ \A k \in DOMAIN mem[b] :
                \/ after[b][k] = mem[b][k]
                \/ b = v.buf /\ k > v.off /\ k <= v.off + v.count * Size(v.class)

\* The numbers of v after r are those of vals, each as v's class holds it.
Becomes(r, v, vals) == Numbers(r.mem, v) = [k \in DOMAIN vals |-> Number(v.class, ToElement(v.class, 2 * vals[k]))]

\* src and dst share bytes that a copy from one to the other could overwrite
\* before it has read them.
Overlap(src, dst) == src.buf = dst.buf /\ src.class # dst.class

\* set leaves the numbers of the source, taken all at once, in the target
\* (js_typed_array_set_internal).
SetCopies(mem, dst, src, offset) ==
    LET r == js_typed_array_set_internal(mem, dst, src, offset)
        old == Numbers(mem, dst)
        new == Numbers(mem, src)
    IN  /\ r.ok <=> offset >= 0 /\ offset + src.count <= dst.count
        /\ ~r.ok => r.mem = mem
        /\ r.ok => /\ OnlyIn(mem, r.mem, dst)
                   /\ Becomes(r, dst, [k \in DOMAIN old |-> IF k > offset /\ k <= offset + Len(new) THEN new[k - offset] ELSE old[k]])

\* The same where the two do not overlap with different classes.
SetCopiesApart(mem, dst, src, offset) == Overlap(src, dst) \/ SetCopies(mem, dst, src, offset)

\* A view that was made lies inside its buffer, reads the elements it should, and
\* exists exactly when its arguments describe such a part (the constructors,
\* subarray and slice, on typed arrays and buffers).
ViewsFit(mem, v, p, q) ==
    LET n == v.count
        from == JS_ToInt32Clamp(p, 0, n, n)
        to == JS_ToInt32Clamp(q, 0, n, n)
        sub == js_typed_array_subarray(mem, v, p, q)
        cut == js_typed_array_slice(mem, v, p, q)
        bytes == Len(mem[v.buf])
        part == js_array_buffer_slice(mem, v.buf, p, q)
    IN  /\ sub.ok /\ InBounds(mem, sub.ret) /\ Numbers(mem, sub.ret) = SubSeq(Numbers(mem, v), from + 1, to)
        /\ InBounds(cut.mem, cut.ret) /\ Numbers(cut.mem, cut.ret) = SubSeq(Numbers(mem, v), from + 1, to)
        /\ part.mem[part.ret[1]] = SubSeq(mem[v.buf], JS_ToInt32Clamp(p, 0, bytes, bytes) + 1, JS_ToInt32Clamp(q, 0, bytes, bytes))
        /\ \A class \in Classes :
              LET copy == js_typed_array_constructor_ta(mem, v, class)
                  new == js_typed_array_constructor(mem, class, v.buf, from, q)
              IN  /\ InBounds(copy.mem, copy.ret) /\ Becomes(copy, copy.ret, Numbers(mem, v))
                  /\ new.ok => /\ InBounds(mem, new.ret)
                               /\ new.ret.count = IF q >= 0 THEN q ELSE (bytes - from) \div Size(class)
                  /\ q >= 0 /\ from % Size(class) = 0 /\ from + q * Size(class) <= bytes => new.ok

\* The methods that rearrange an array do to its numbers what they do to those of
\* any array, and to no byte outside of it (copyWithin, fill, reverse, sort).
RearrangesView(mem, v, p, q, h) ==
    LET n == v.count
        old == Numbers(mem, v)
        from == JS_ToInt32Clamp(p, 0, n, n)
        to == JS_ToInt32Clamp(q, 0, n, n)
        count == Min({n - from, n - to})
        copied == js_typed_array_copyWithin(mem, v, q, p, n)
        filled == js_typed_array_fill(mem, v, h, p, q)
        turned == js_typed_array_reverse(mem, v)
        sorted == js_typed_array_sort(mem, v)
    IN  /\ \A r \in {copied, filled, turned, sorted} : OnlyIn(mem, r.mem, v)
        /\ Becomes(copied, v, [k \in 1..n |-> IF k > to /\ k <= to + count THEN old[from + k - to] ELSE old[k]])
        /\ Becomes(filled, v, [k \in 1..n |-> IF k > from /\ k <= to THEN Number(v.class, ToElement(v.class, h)) ELSE old[k]])
        /\ Becomes(turned, v, Reverse(old))
        /\ Becomes(sorted, v, SortSeq(old, <))

\* indexOf and lastIndexOf find the number where reading the array finds it.
SearchFinds(mem, v, h, from, last) ==
    LET start == IF from < 0 THEN from + v.count ELSE from
        there == {i \in 0..(v.count - 1) : 2 * Numbers(mem, v)[i + 1] = h /\ (IF last THEN i <= start ELSE i >= start)}
    IN  js_typed_array_indexOf(mem, v, h, from, last)
          = IF there = {} THEN -1 ELSE IF last THEN Max(there) ELSE Min(there)

\* A DataView reads and writes at any offset what an array of the class would hold
\* there, in either byte order, and throws exactly when the element would reach
\* over its end; an atomic operation returns the old number and leaves the new
\* one, modulo the range of the class (js_dataview_getValue, js_dataview_setValue,
\* js_atomics_op, js_atomics_store).
AccessesExact(mem, class, b, off, len, pos, h) ==
    LET dv == js_dataview_constructor(mem, b, off, len)
        num == Number(class, JS_ToInt32(h) % Wrap(class))
        size == Size(class)
        In(k) == k + size <= dv.ret.count
        v == View(class, b, off, len)
        old == Numbers(mem, v)
        Fetch(op) == js_atomics_op(mem, v, pos, op, h, h + 2)
    IN  /\ dv.ok <=> off + len <= Len(mem[b])
        /\ dv.ok => \A little \in BOOLEAN :
              LET w == js_dataview_setValue(mem, dv.ret, class, pos, h, little)
                  r == js_dataview_getValue(w.mem, dv.ret, class, pos, little)
                  other == js_dataview_getValue(w.mem, dv.ret, class, pos, ~little)
              IN  /\ w.ok = In(pos) /\ r.ok = In(pos) /\ OnlyIn(mem, w.mem, dv.ret)
                  /\ In(pos) => /\ r.ret = <<num>>
                                /\ OnlyIn(mem, w.mem, View(class, b, off + pos, 1))
                                /\ little => r.ret = JS_GetPropertyValue(w.mem, View(class, b, off + pos, 1), 0)
                                /\ size = 1 => other.ret = r.ret
        /\ InBounds(mem, v) /\ class # "Uint8C" /\ pos < len =>
              /\ \A op \in {"add", "sub", "and", "or", "xor", "exchange", "compareExchange", "load"} :
                    OnlyIn(mem, Fetch(op).mem, View(class, b, off + pos * size, 1)) /\ Fetch(op).ret = <<old[pos + 1]>>
              /\ \A op \in {"add", "sub"} :
                    (Numbers(Fetch(op).mem, v)[pos + 1] - (IF op = "add" THEN old[pos + 1] + num ELSE old[pos + 1] - num)) % Wrap(class) = 0
              /\ Numbers(Fetch("exchange").mem, v)[pos + 1] = num
              /\ Numbers(Fetch("compareExchange").mem, v)[pos + 1]
                   = IF old[pos + 1] = num THEN Number(class, (JS_ToInt32(h + 2)) % Wrap(class)) ELSE old[pos + 1]
              /\ js_atomics_store(mem, v, pos, h).mem = Fetch("exchange").mem
=============================================================================
