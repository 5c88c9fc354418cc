------------------------------- MODULE JSHeap -------------------------------
(* Reference counting and the cycle collector of QuickJS (quickjs.c). A node of the *)
(* heap is a value (an object or the bytecode of a function) or a part: a variable  *)
(* reference, a shape, the state of an async function or a context, which is shared *)
(* by values and has a reference count of its own but is freed only through them.   *)
(* The order of a list is left open: a pass may take the nodes in any order.        *)
EXTENDS Naturals, FiniteSets, Sequences, SequencesExt

CONSTANTS
    Objects,     \* plain objects
    WeakMaps,    \* WeakMap objects, with at most one record each
    Parts,       \* nodes that are not values
    Slots,       \* the references a node may hold
    Null,        \* no node
    MaxHeld      \* bound on the references the stack holds to one node

JSValues == Objects \cup WeakMaps
Nodes == JSValues \cup Parts

VARIABLES
    heap,   \* the nodes, their lists and rt->gc_phase
    held,   \* number of references to a node from the stack and from C code
    gc      \* what JS_RunGC or free_zero_refcount is doing

heapVars == <<heap, held, gc>>

SlotSeq == SetToSeq(Slots)
Refs(f, at) == SelectSeq([i \in DOMAIN at |-> f[at[i]]], LAMBDA n : n # Null)
NoSlots == [s \in Slots |-> Null]

\* mark_children: the counted references of a node. A weak map does not mark its keys.
mark_children(h, n) ==
    Refs(h.slot[n], SlotSeq) \o (IF n \in WeakMaps THEN Refs(h.val, <<n>>) ELSE <<>>)

InList(h, name) == {n \in Nodes : h.list[n] = name}
Allocated(h) == Nodes \ InList(h, "free")

HeapInit ==
    /\ heap = [ref       |-> [n \in Nodes |-> 0],
               slot      |-> [n \in Nodes |-> NoSlots],
               key       |-> [m \in WeakMaps |-> Null],
               val       |-> [m \in WeakMaps |-> Null],
               mark      |-> [n \in Nodes |-> 0],
               free_mark |-> [n \in Nodes |-> FALSE],
               list      |-> [n \in Nodes |-> "free"],
               gc_phase  |-> "none"]
    /\ held = [n \in Nodes |-> 0]
    /\ gc = [pc |-> "idle", todo |-> {}, closing |-> FALSE]

-----------------------------------------------------------------------------
(* Releasing references *)

Dispose(h, n) ==
    [h EXCEPT !.list[n] = "free", !.ref[n] = 0, !.slot[n] = NoSlots, !.mark[n] = 0,
              !.free_mark[n] = FALSE]

\* JS_FreeValueRT of a value: the last reference puts it on gc_zero_ref_count_list.
JS_FreeValueRT(h, n) ==
    LET h1 == [h EXCEPT !.ref[n] = @ - 1]
    IN IF h1.ref[n] > 0 \/ h1.gc_phase = "remove_cycles"
       THEN h1 ELSE [h1 EXCEPT !.list[n] = "zero"]

\* free_var_ref, js_free_shape, js_async_function_free, JS_FreeContext.
free_part(h, n) ==
    LET h1 == [h EXCEPT !.ref[n] = @ - 1]
    IN IF h1.ref[n] > 0 THEN h1
       ELSE Dispose(FoldLeft(JS_FreeValueRT, h1, mark_children(h1, n)), n)

Release(h, n) == IF n \in Parts THEN free_part(h, n) ELSE JS_FreeValueRT(h, n)
ReleaseAll(h, refs) == FoldLeft(Release, h, refs)

\* The records whose key is p are removed, then their values are freed.
reset_weak_ref(h, p) ==
    LET maps == {m \in WeakMaps : h.key[m] = p}
        h1 == [h EXCEPT !.key = [m \in WeakMaps |-> IF m \in maps THEN Null ELSE @[m]],
                        !.val = [m \in WeakMaps |-> IF m \in maps THEN Null ELSE @[m]]]
    IN ReleaseAll(h1, Refs(h.val, SetToSeq(maps)))

\* js_map_finalizer of a WeakMap: delete_weak_ref and the value of its record.
finalizer(h, p) ==
    IF p \notin WeakMaps THEN h
    ELSE ReleaseAll([h EXCEPT !.key[p] = Null, !.val[p] = Null], Refs(h.val, <<p>>))

\* Faulty variant: the memory of an object of a cycle is freed at once.
free_object_AtOnce(h, p) ==
    LET h1 == ReleaseAll([h EXCEPT !.free_mark[p] = TRUE], Refs(h.slot[p], SlotSeq))
        h2 == finalizer(reset_weak_ref(h1, p), p)
    IN Dispose(h2, p)

\* The properties and the shape, the weak references to p, the class finalizer.
\* While cycles are removed an object that is still referenced keeps its memory.
free_object(h, p) ==
    LET h1 == ReleaseAll([h EXCEPT !.free_mark[p] = TRUE], Refs(h.slot[p], SlotSeq))
        h2 == finalizer(reset_weak_ref(h1, p), p)
    IN IF h2.gc_phase = "remove_cycles" /\ h2.ref[p] # 0
       THEN [h2 EXCEPT !.list[p] = "zero", !.slot[p] = NoSlots]
       ELSE Dispose(h2, p)

\* The step after the release of references by the program: free_zero_refcount starts
\* when a count has dropped to zero.
AfterRelease(h) ==
    IF InList(h, "zero") # {}
    THEN /\ heap' = [h EXCEPT !.gc_phase = "decref"]
         /\ gc' = [gc EXCEPT !.pc = "free_zero"]
    ELSE heap' = h /\ UNCHANGED gc

\* One turn of the loop of free_zero_refcount.
free_zero_refcount ==
    /\ gc.pc = "free_zero"
    /\ \E p \in InList(heap, "zero") :
         LET h == free_object(heap, p)
             done == InList(h, "zero") = {}
         IN /\ heap' = [h EXCEPT !.gc_phase = IF done THEN "none" ELSE @]
            /\ gc' = [gc EXCEPT !.pc = IF done THEN "idle" ELSE @]
    /\ UNCHANGED held

-----------------------------------------------------------------------------
(* The program *)

Running == gc.pc = "idle" /\ ~gc.closing

\* JS_NewObjectFromShape, and add_gc_object of a part: the creator owns the reference.
New(n) ==
    /\ Running
    /\ heap.list[n] = "free"
    /\ heap' = [heap EXCEPT !.list[n] = "gc", !.ref[n] = 1]
    /\ held' = [held EXCEPT ![n] = 1]
    /\ UNCHANGED gc

\* JS_DupValue of a value read from a slot of a node that is held.
Get(o, s) ==
    LET n == heap.slot[o][s]
    IN /\ Running
       /\ held[o] > 0 /\ n # Null
       /\ held[n] < MaxHeld
       /\ heap' = [heap EXCEPT !.ref[n] = @ + 1]
       /\ held' = [held EXCEPT ![n] = @ + 1]
       /\ UNCHANGED gc

\* set_value: the slot takes over the reference to n, the old value is freed after.
set_value(o, s, n) ==
    /\ Running
    /\ held[o] > 0 /\ held[n] > 0
    /\ o \notin WeakMaps
    /\ o \in Parts => n \in JSValues
    /\ held' = [held EXCEPT ![n] = @ - 1]
    /\ AfterRelease(ReleaseAll([heap EXCEPT !.slot[o][s] = n], Refs(heap.slot[o], <<s>>)))

JS_FreeValue(n) ==
    /\ Running
    /\ held[n] > 0
    /\ held' = [held EXCEPT ![n] = @ - 1]
    /\ AfterRelease(Release(heap, n))

\* js_map_set of a WeakMap: the value is counted, the key is not.
WeakMapSet(m, k, v) ==
    /\ Running
    /\ held[m] > 0 /\ held[k] > 0 /\ held[v] > 0
    /\ heap.key[m] \in {Null, k}
    /\ AfterRelease(ReleaseAll([heap EXCEPT !.key[m] = k, !.val[m] = v, !.ref[v] = @ + 1],
                               Refs(heap.val, <<m>>)))
    /\ UNCHANGED held

-----------------------------------------------------------------------------
(* JS_RunGC *)

\* js_trigger_gc before an allocation, or JS_FreeRuntime once nothing is held.
JS_RunGC(closing) ==
    /\ Running
    /\ closing => \A n \in Nodes : held[n] = 0
    /\ gc' = [pc |-> "decref", todo |-> InList(heap, "gc"), closing |-> closing]
    /\ UNCHANGED <<heap, held>>

gc_decref_child(h, n) ==
    LET r == h.ref[n] - 1
    IN [h EXCEPT !.ref[n] = r, !.list[n] = IF r = 0 /\ h.mark[n] = 1 THEN "tmp" ELSE @]

\* gc_decref for one node of gc_obj_list.
gc_decref ==
    /\ gc.pc = "decref"
    /\ \E n \in gc.todo :
         LET h == FoldLeft(gc_decref_child, heap, mark_children(heap, n))
             h1 == [h EXCEPT !.mark[n] = 1, !.list[n] = IF h.ref[n] = 0 THEN "tmp" ELSE @]
             todo == gc.todo \ {n}
         IN /\ heap' = h1
            /\ gc' = [gc EXCEPT !.todo = IF todo = {} THEN InList(h1, "gc") ELSE todo,
                                !.pc = IF todo = {} THEN "scan" ELSE @]
    /\ UNCHANGED held

gc_scan_incref_child(h, n) ==
    [h EXCEPT !.ref[n] = @ + 1,
              !.list[n] = IF h.ref[n] = 0 THEN "gc" ELSE @,
              !.mark[n] = IF h.ref[n] = 0 THEN 0 ELSE @]

gc_scan_incref_child2(h, n) == [h EXCEPT !.ref[n] = @ + 1]

\* gc_scan, first loop: a node with references keeps its children.
gc_scan ==
    /\ gc.pc = "scan"
    /\ \E n \in gc.todo :
         LET h == FoldLeft(gc_scan_incref_child, [heap EXCEPT !.mark[n] = 0],
                           mark_children(heap, n))
             found == InList(h, "gc") \ InList(heap, "gc")
         IN /\ heap' = h
            /\ gc' = [gc EXCEPT !.todo = (@ \ {n}) \cup found]
    /\ UNCHANGED held

gc_scan_end ==
    /\ gc.pc = "scan" /\ gc.todo = {}
    /\ gc' = [gc EXCEPT !.pc = "restore", !.todo = InList(heap, "tmp")]
    /\ UNCHANGED <<heap, held>>

\* gc_scan, second loop: the counts of what will be deleted are restored.
gc_restore ==
    /\ gc.pc = "restore"
    /\ heap' = [FoldLeft(gc_scan_incref_child2, heap,
                         FlattenSeq([i \in 1..Cardinality(gc.todo) |->
                                        mark_children(heap, SetToSeq(gc.todo)[i])]))
                EXCEPT !.gc_phase = "remove_cycles"]
    /\ gc' = [gc EXCEPT !.pc = "free_cycles", !.todo = {}]
    /\ UNCHANGED held

\* gc_free_cycles for one node of tmp_obj_list.
gc_free_cycles ==
    /\ gc.pc = "free_cycles"
    /\ \E n \in InList(heap, "tmp") :
         heap' = IF n \in JSValues THEN free_object(heap, n)
                 ELSE [heap EXCEPT !.list[n] = "zero"]
    /\ UNCHANGED <<held, gc>>

\* The end of gc_free_cycles: the memory kept so far is freed.
gc_sweep ==
    /\ gc.pc = "free_cycles" /\ InList(heap, "tmp") = {}
    /\ heap' = FoldLeft(Dispose, [heap EXCEPT !.gc_phase = "none"], SetToSeq(InList(heap, "zero")))
    /\ gc' = [gc EXCEPT !.pc = "idle"]
    /\ UNCHANGED held

Collector ==
    \/ free_zero_refcount \/ gc_decref \/ gc_scan \/ gc_scan_end
    \/ gc_restore \/ gc_free_cycles \/ gc_sweep

HeapNext ==
    \/ \E n \in Nodes : New(n) \/ JS_FreeValue(n)
    \/ \E o \in Nodes, s \in Slots : Get(o, s) \/ \E n \in Nodes : set_value(o, s, n)
    \/ \E m \in WeakMaps, k, v \in JSValues : WeakMapSet(m, k, v)
    \/ \E closing \in BOOLEAN : JS_RunGC(closing)
    \/ Collector

-----------------------------------------------------------------------------
(* Properties *)

\* The nodes, their lists and the counts have their types.
HeapTypeOK ==
    /\ heap.ref \in [Nodes -> Nat]
    /\ heap.slot \in [Nodes -> [Slots -> Nodes \cup {Null}]]
    /\ heap.list \in [Nodes -> {"free", "gc", "tmp", "zero"}]
    /\ held \in [Nodes -> 0..MaxHeld]

RefersTo(refs, n) == {i \in DOMAIN refs : refs[i] = n}
References(n) ==
    held[n] + Cardinality(UNION {{m} \X RefersTo(mark_children(heap, m), n) : m \in Allocated(heap)})

Reach(S) ==
    LET step[k \in 0..Cardinality(Nodes)] ==
            LET near == step[k - 1]
            IN  IF k = 0 THEN S ELSE near \cup UNION {ToSet(mark_children(heap, n)) : n \in near}
    IN step[Cardinality(Nodes)]
Live == Reach({n \in Nodes : held[n] > 0})

\* Outside the collector, ref_count is the number of references to the node, through
\* every sequence of JS_DupValue, JS_FreeValue, set_value and JS_RunGC.
RefCountsExact ==
    gc.pc = "idle" => \A n \in Allocated(heap) : heap.ref[n] = References(n)

\* What the program can reach is never freed, at no step of free_zero_refcount or of
\* JS_RunGC, and no node that has its memory refers to one that has not.
NoDangling ==
    /\ \A n \in Live : heap.list[n] # "free" /\ ~heap.free_mark[n]
    /\ \A n \in Allocated(heap) : ToSet(mark_children(heap, n)) \subseteq Allocated(heap)
    /\ \A m \in Allocated(heap) \cap WeakMaps :
         heap.key[m] # Null => ~heap.free_mark[heap.key[m]]

\* The assertion at the end of gc_free_cycles: only values are left on the list, since
\* every other node of a cycle went with the last value that refers to it.
OnlyValuesLeft ==
    gc.pc = "free_cycles" /\ InList(heap, "tmp") = {} => InList(heap, "zero") \subseteq JSValues

\* gc_scan leaves exactly what the program can reach on gc_obj_list, through any cycles,
\* and between collections nothing is left on the other lists.
CollectsGarbage ==
    /\ gc.pc = "restore" => InList(heap, "gc") = Live
    /\ gc.pc = "idle" => Allocated(heap) = InList(heap, "gc")

\* The assertion of JS_FreeRuntime: gc_obj_list is empty once the host has released all
\* its values, whatever cycles and weak maps there were.
RuntimeFreedEmpty ==
    gc.closing /\ gc.pc = "idle" => Allocated(heap) = {}
=============================================================================
