-------------------------------- MODULE Shapes --------------------------------
(* Shapes (quickjs.c): objects with the same prototype and the same properties     *)
(* share one description of them, found through a hash table. An object holds only *)
(* the values. A shape that others hold, or that the table can hand out, must be   *)
(* cloned or taken off the table before it is changed.                             *)
EXTENDS Naturals, Sequences, FiniteSets, SequencesExt, FiniteSetsExt

CONSTANTS
    Objs,           \* objects: positive numbers, which stand for their addresses
    NoProto,        \* 0, the null prototype
    NoAtom,         \* 0, JS_ATOM_NULL, the atom of a deleted property
    Atoms, Flags, Vals,
    Configurable,   \* the flags with JS_PROP_CONFIGURABLE
    InitialSize,    \* JS_PROP_INITIAL_SIZE
    CompactFrom,    \* the deleted properties from which an object is compacted, 8 in the code
    HashBits,       \* the values of the hash are the numbers below it
    MaxProps        \* bound on the properties of a shape, deleted ones included

VARIABLES
    shape,   \* the shapes, by number; ref_count 0 for a free one
    obj      \* the objects that exist: shape, values and the size of the value array

shapeVars == <<shape, obj>>

ShapeIds == DOMAIN shape
ObjIds == DOMAIN obj
ShapeOf(o) == shape[obj[o].shape]
PropCount(sh) == Len(sh.props)
DeletedCount(sh) == Cardinality({i \in DOMAIN sh.props : sh.props[i].atom = NoAtom})
FreeShape == CHOOSE s \in 1..(Cardinality(Objs) + 1) :
                /\ s \notin ShapeIds
                /\ \A t \in 1..(s - 1) : t \in ShapeIds

\* The properties of an object that are not deleted, in order.
Kept(sh, p) ==
    SelectSeq([i \in DOMAIN sh.props |-> [atom |-> sh.props[i].atom, flags |-> sh.props[i].flags,
                                          val |-> p.vals[i]]],
              LAMBDA e : e.atom # NoAtom)

ShapesInit == shape = <<>> /\ obj = <<>>

shape_hash(h, val) == ((h + val) * 3) % HashBits

find_own_property(sh, a) == {i \in DOMAIN sh.props : sh.props[i].atom = a}

find_hashed_shape_proto(proto) ==
    {s \in ShapeIds : /\ shape[s].is_hashed
                      /\ shape[s].hash = shape_hash(1, proto)
                      /\ shape[s].proto = proto
                      /\ shape[s].props = <<>>}

find_hashed_shape_prop(sh, a, f) ==
    {s \in ShapeIds : /\ shape[s].is_hashed
                      /\ shape[s].hash = shape_hash(shape_hash(sh.hash, a), f)
                      /\ shape[s].proto = sh.proto
                      /\ shape[s].props = Append(sh.props, [atom |-> a, flags |-> f])}

js_new_shape2(proto) ==
    [props |-> <<>>, proto |-> proto, prop_size |-> InitialSize, is_hashed |-> TRUE,
     hash |-> shape_hash(1, proto), ref_count |-> 1]

js_dup_shape(ss, s) == [ss EXCEPT ![s].ref_count = @ + 1]

js_free_shape(ss, s) ==
    IF ss[s].ref_count = 1 THEN [t \in DOMAIN ss \ {s} |-> ss[t]]
    ELSE [ss EXCEPT ![s].ref_count = @ - 1]

Put(ss, s, sh) == [t \in DOMAIN ss \cup {s} |-> IF t = s THEN sh ELSE ss[t]]

\* The copy has one holder and is on the table only if the caller links it there.
js_clone_shape(sh, hashed) == [sh EXCEPT !.ref_count = 1, !.is_hashed = hashed]

\* Faulty variant: only the shape grows.
resize_properties_ShapeOnly(sh, p, count) ==
    [sh |-> [sh EXCEPT !.prop_size = Max({count, (sh.prop_size * 3) \div 2})], p |-> p]

resize_properties(sh, p, count) ==
    LET n == Max({count, (sh.prop_size * 3) \div 2})
    IN [sh |-> [sh EXCEPT !.prop_size = n], p |-> [p EXCEPT !.size = n]]

\* The values of the new property follow; the hash of a hashed shape is renewed.
add_shape_property(sh, p, a, f) ==
    LET r == IF PropCount(sh) >= sh.prop_size THEN resize_properties(sh, p, PropCount(sh) + 1)
             ELSE [sh |-> sh, p |-> p]
    IN [r EXCEPT !.sh.props = Append(@, [atom |-> a, flags |-> f]),
                 !.sh.hash = IF sh.is_hashed THEN shape_hash(shape_hash(@, a), f) ELSE @]

\* A hashed shape with the same properties is shared; a shape that others hold is
\* cloned, and the clone hashed; the only holder extends its shape in place.
add_property(o, a, f, v) ==
    LET sh == ShapeOf(o)
        found == IF sh.is_hashed THEN find_hashed_shape_prop(sh, a, f) ELSE {}
        shared == sh.is_hashed /\ sh.ref_count # 1
        s == IF shared THEN FreeShape ELSE obj[o].shape
        r == add_shape_property(IF shared THEN js_clone_shape(sh, TRUE) ELSE sh, obj[o], a, f)
    IN IF found # {}
       THEN LET n == CHOOSE t \in found : TRUE IN
            /\ shape' = js_free_shape(js_dup_shape(shape, n), obj[o].shape)
            /\ obj' = [obj EXCEPT ![o].shape = n, ![o].vals = Append(@, v),
                                  ![o].size = shape[n].prop_size]
       ELSE /\ shape' = Put(IF shared THEN js_free_shape(shape, obj[o].shape) ELSE shape, s, r.sh)
            /\ obj' = [obj EXCEPT ![o] = [r.p EXCEPT !.shape = s, !.vals = Append(@, v)]]

\* Faulty variant: the shape is taken off the table but not cloned.
js_shape_prepare_update_Shared(o) ==
    [ss |-> shape, s |-> obj[o].shape, sh |-> [ShapeOf(o) EXCEPT !.is_hashed = FALSE]]

\* The shape that may be changed: a clone if others hold it, and off the table.
js_shape_prepare_update(o) ==
    LET sh == ShapeOf(o) IN
    IF sh.is_hashed /\ sh.ref_count # 1
    THEN [ss |-> js_free_shape(shape, obj[o].shape), s |-> FreeShape, sh |-> js_clone_shape(sh, FALSE)]
    ELSE [ss |-> shape, s |-> obj[o].shape, sh |-> [sh EXCEPT !.is_hashed = FALSE]]

\* The deleted properties go; the others keep their order.
compact_properties(sh, p) ==
    LET kept == Kept(sh, p)
        n == Max({InitialSize, Len(kept)})
    IN [sh |-> [sh EXCEPT !.props = [j \in DOMAIN kept |-> [atom |-> kept[j].atom, flags |-> kept[j].flags]],
                          !.prop_size = n],
        p |-> [p EXCEPT !.vals = [j \in DOMAIN kept |-> kept[j].val], !.size = n]]

-----------------------------------------------------------------------------
JS_NewObjectProtoClass(o, proto) ==
    /\ o \notin ObjIds
    /\ LET found == find_hashed_shape_proto(proto)
           s == IF found = {} THEN FreeShape ELSE CHOOSE t \in found : TRUE
           ss == IF found = {} THEN Put(shape, s, js_new_shape2(proto)) ELSE js_dup_shape(shape, s)
       IN /\ shape' = ss
          /\ obj' = [q \in ObjIds \cup {o} |->
                IF q = o THEN [shape |-> s, vals |-> <<>>, size |-> ss[s].prop_size] ELSE obj[q]]

AddProperty(o, a, f, v) ==
    /\ find_own_property(ShapeOf(o), a) = {}
    /\ PropCount(ShapeOf(o)) < MaxProps
    /\ add_property(o, a, f, v)

SetPropertyValue(o, a, v) ==
    /\ \E i \in find_own_property(ShapeOf(o), a) : obj' = [obj EXCEPT ![o].vals[i] = v]
    /\ UNCHANGED shape

js_update_property_flags(o, a, f) ==
    \E i \in find_own_property(ShapeOf(o), a) :
        /\ ShapeOf(o).props[i].flags # f
        /\ LET u == js_shape_prepare_update(o) IN
           /\ shape' = Put(u.ss, u.s, [u.sh EXCEPT !.props[i].flags = f])
           /\ obj' = [obj EXCEPT ![o].shape = u.s]

\* The place of the property stays, empty, until enough of them are.
delete_property(o, a) ==
    \E i \in find_own_property(ShapeOf(o), a) :
        /\ ShapeOf(o).props[i].flags \in Configurable
        /\ LET u == js_shape_prepare_update(o)
               sh == [u.sh EXCEPT !.props[i] = [atom |-> NoAtom, flags |-> Min(Flags)]]
               p == [obj[o] EXCEPT !.shape = u.s, !.vals[i] = NoAtom]
               many == DeletedCount(sh) >= CompactFrom /\ DeletedCount(sh) >= PropCount(sh) \div 2
               r == IF many THEN compact_properties(sh, p) ELSE [sh |-> sh, p |-> p]
           IN shape' = Put(u.ss, u.s, r.sh) /\ obj' = [obj EXCEPT ![o] = r.p]

\* The objects on the prototype chain of an object or of NoProto.
RECURSIVE ChainOf(_)
ChainOf(o) == IF o = NoProto THEN {} ELSE {o} \cup ChainOf(ShapeOf(o).proto)

JS_SetPrototypeInternal(o, proto) ==
    /\ ShapeOf(o).proto # proto
    /\ o \notin ChainOf(proto)
    /\ LET u == js_shape_prepare_update(o) IN
       /\ shape' = Put(u.ss, u.s, [u.sh EXCEPT !.proto = proto])
       /\ obj' = [obj EXCEPT ![o].shape = u.s]

\* An object that is the prototype of a shape is held by it.
free_object_shape(o) ==
    /\ \A s \in ShapeIds : shape[s].proto # o
    /\ shape' = js_free_shape(shape, obj[o].shape)
    /\ obj' = [q \in ObjIds \ {o} |-> obj[q]]

ShapesNext ==
    \/ \E o \in Objs, proto \in ObjIds \cup {NoProto} : JS_NewObjectProtoClass(o, proto)
    \/ \E o \in ObjIds, a \in Atoms, f \in Flags, v \in Vals : AddProperty(o, a, f, v)
    \/ \E o \in ObjIds, a \in Atoms, v \in Vals : SetPropertyValue(o, a, v)
    \/ \E o \in ObjIds, a \in Atoms, f \in Flags : js_update_property_flags(o, a, f)
    \/ \E o \in ObjIds, a \in Atoms : delete_property(o, a)
    \/ \E o \in ObjIds, proto \in ObjIds \cup {NoProto} : JS_SetPrototypeInternal(o, proto)
    \/ \E o \in ObjIds : free_object_shape(o)

ShapesSpec == ShapesInit /\ [][ShapesNext]_shapeVars

-----------------------------------------------------------------------------
OwnLists == INSTANCE PropertyLists
    WITH lists <- [o \in ObjIds |-> [proto |-> ShapeOf(o).proto, props |-> Kept(ShapeOf(o), obj[o])]]

\* Sharing shapes does not show: whatever is added, deleted, redefined or given
\* another prototype, every object behaves as if it had a property list of its own
\* (js_shape_prepare_update, add_property).
ShapesImplementLists == OwnLists!ListSpec

\* The value array of an object is as large as its shape says, whichever object last
\* made the shape grow, and never smaller than the properties in use (add_property,
\* resize_properties, compact_properties).
ValueArraysFit ==
    \A o \in ObjIds : /\ obj[o].size = ShapeOf(o).prop_size
                      /\ Len(obj[o].vals) = PropCount(ShapeOf(o))
                      /\ PropCount(ShapeOf(o)) <= obj[o].size

\* A shape on the table is what its hash says, has no deleted property, and no two
\* shapes on the table are alike, so that like objects do share; reference counts
\* are the numbers of holders (add_shape_property, js_shape_prepare_update).
ShapeTableExact ==
    /\ \A s \in ShapeIds : shape[s].ref_count = Cardinality({o \in ObjIds : obj[o].shape = s})
    /\ \A s \in ShapeIds : shape[s].is_hashed =>
          /\ DeletedCount(shape[s]) = 0
          /\ shape[s].hash = FoldLeft(LAMBDA h, pr : shape_hash(shape_hash(h, pr.atom), pr.flags),
                                      shape_hash(1, shape[s].proto), shape[s].props)
    /\ \A s, t \in ShapeIds : shape[s].is_hashed /\ shape[t].is_hashed /\ s # t
                              => <<shape[s].proto, shape[s].props>> # <<shape[t].proto, shape[t].props>>
=============================================================================
