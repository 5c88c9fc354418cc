---------------------------- MODULE PropertyLists ----------------------------
(* What the own properties of objects promise, shapes apart: every object has its  *)
(* own prototype and its own list of properties in the order of their creation,    *)
(* and an operation on one object changes that object alone.                       *)
EXTENDS Naturals, Sequences, SequencesExt

CONSTANTS Objs, Atoms, Flags, Vals, NoProto

VARIABLE lists    \* the objects that exist: their prototype and their properties

listVars == <<lists>>

ListInit == lists = <<>>

(* An operation is a relation between the lists before it and the lists after it. *)

Own(old, o, a) == {i \in DOMAIN old[o].props : old[o].props[i].atom = a}

Create(old, new, o, proto) ==
    new = [q \in DOMAIN old \cup {o} |-> IF q = o THEN [proto |-> proto, props |-> <<>>] ELSE old[q]]

Add(old, new, o, a, f, v) ==
    /\ Own(old, o, a) = {}
    /\ new = [old EXCEPT ![o].props = Append(@, [atom |-> a, flags |-> f, val |-> v])]

Delete(old, new, o, a) ==
    \E i \in Own(old, o, a) : new = [old EXCEPT ![o].props = RemoveAt(@, i)]

SetFlags(old, new, o, a, f) ==
    \E i \in Own(old, o, a) : new = [old EXCEPT ![o].props[i].flags = f]

SetValue(old, new, o, a, v) ==
    \E i \in Own(old, o, a) : new = [old EXCEPT ![o].props[i].val = v]

SetProto(old, new, o, proto) == new = [old EXCEPT ![o].proto = proto]

Drop(old, new, o) == new = [q \in DOMAIN old \ {o} |-> old[q]]

Operation(old, new) ==
    \/ \E o \in Objs \ DOMAIN old, proto \in DOMAIN old \cup {NoProto} : Create(old, new, o, proto)
    \/ \E o \in DOMAIN old :
          \/ \E a \in Atoms, f \in Flags, v \in Vals : Add(old, new, o, a, f, v)
          \/ \E a \in Atoms : Delete(old, new, o, a)
          \/ \E a \in Atoms, f \in Flags : SetFlags(old, new, o, a, f)
          \/ \E a \in Atoms, v \in Vals : SetValue(old, new, o, a, v)
          \/ \E proto \in DOMAIN old \cup {NoProto} : SetProto(old, new, o, proto)
          \/ Drop(old, new, o)

ListNext == \E old \in {lists}, new \in {lists'} : Operation(old, new)

ListSpec == ListInit /\ [][ListNext]_listVars
=============================================================================
