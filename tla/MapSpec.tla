------------------------------- MODULE MapSpec -------------------------------
(* What the collections of QuickJS promise (ECMAScript, Map objects): a list of     *)
(* entries that only grows, in which a deleted entry stays as an empty one, and     *)
(* iterators that are positions in that list.                                       *)
EXTENDS Naturals, Sequences, FiniteSets, FiniteSetsExt

CONSTANTS Keys, Vals, Iters, Zero, NegZero

VARIABLES
    entries,    \* the entries, in the order of their insertion
    pos,        \* for an iterator, whether it is in use and the last entry it returned
    ret         \* what the last operation returned

Empty == [empty |-> TRUE]
At(state, n) == [state |-> state, cur |-> n]

SameValueZero(a, b) == a = b \/ {a, b} = {Zero, NegZero}
Canonical(k) == IF k = NegZero THEN Zero ELSE k

Present == {i \in DOMAIN entries : entries[i] # Empty}
Find(k) == {i \in Present : SameValueZero(entries[i].key, k)}

MSInit == entries = <<>> /\ pos = [i \in Iters |-> At("off", 0)] /\ ret = <<>>

MSSet(k, v) ==
    /\ entries' = IF Find(k) # {} THEN [i \in DOMAIN entries |->
                                          IF i \in Find(k) THEN [entries[i] EXCEPT !.val = v] ELSE entries[i]]
                  ELSE Append(entries, [key |-> Canonical(k), val |-> v])
    /\ ret' = <<>>
    /\ UNCHANGED pos

MSGet(k) == ret' = <<"get", {entries[i].val : i \in Find(k)}>> /\ UNCHANGED <<entries, pos>>

MSDelete(k) ==
    /\ entries' = [i \in DOMAIN entries |-> IF i \in Find(k) THEN Empty ELSE entries[i]]
    /\ ret' = <<"delete", Find(k) # {}>>
    /\ UNCHANGED pos

MSClear == entries' = [i \in DOMAIN entries |-> Empty] /\ ret' = <<>> /\ UNCHANGED pos
MSSize == ret' = <<"size", Cardinality(Present)>> /\ UNCHANGED <<entries, pos>>

MSIter(i) ==
    /\ pos[i].state = "off" /\ pos' = [pos EXCEPT ![i] = At("on", 0)]
    /\ ret' = <<>> /\ UNCHANGED entries

\* The next entry that is not empty; entries added meanwhile are visited too.
MSNext(i) ==
    LET ahead == {j \in Present : j > pos[i].cur}
    IN /\ pos[i].state # "off"
       /\ IF pos[i].state = "done" \/ ahead = {}
          THEN pos' = [pos EXCEPT ![i] = At("done", 0)] /\ ret' = <<"done">>
          ELSE pos' = [pos EXCEPT ![i] = At("on", Min(ahead))] /\ ret' = <<"next", entries[Min(ahead)]>>
       /\ UNCHANGED entries

MSFree(i) ==
    /\ pos[i].state # "off" /\ pos' = [pos EXCEPT ![i] = At("off", 0)]
    /\ ret' = <<>> /\ UNCHANGED entries

MSStep ==
    \/ \E k \in Keys : MSGet(k) \/ MSDelete(k) \/ \E v \in Vals : MSSet(k, v)
    \/ MSClear \/ MSSize
    \/ \E i \in Iters : MSIter(i) \/ MSNext(i) \/ MSFree(i)

MSSpec == MSInit /\ [][MSStep]_<<entries, pos, ret>>
=============================================================================
