------------------------------ MODULE MapRecords ------------------------------
(* Map and Set objects and their iterators (quickjs.c): a linked list of records    *)
(* with reference counts, in which a record that is deleted while an iterator       *)
(* stands on it stays as a zombie, and a hash table over them. Records are numbered *)
(* in the order of their creation, which is the order of the list. An iterator is   *)
(* a Map iterator or a running forEach; iterators are not stored in the map itself. *)
EXTENDS Naturals, Sequences, FiniteSets

CONSTANTS
    Keys, Vals, Iters,
    Zero, NegZero,       \* the keys 0 and -0
    Undefined,           \* JS_UNDEFINED
    Hash,                \* map_hash_key
    InitialThreshold,    \* the first record_count_threshold, 4 in the code
    MaxRecords           \* bound on the number of records created

VARIABLES
    rec,     \* the records created so far
    map,     \* record_count, hash_size and record_count_threshold
    iter,    \* the iterators
    ret      \* what the last operation returned

mapVars == <<rec, map, iter, ret>>

Ids == DOMAIN rec
Linked == {r \in Ids : rec[r].linked}
Active == {r \in Linked : ~rec[r].empty}

MapInit ==
    /\ rec = <<>>
    /\ map = [record_count |-> 0, hash_size |-> 1, threshold |-> InitialThreshold]
    /\ iter = [i \in Iters |-> [state |-> "off", cur |-> 0]]
    /\ ret = <<>>

\* Faulty variant: -0 is kept.
map_normalize_key_Id(k) == k

map_normalize_key(k) == IF k = NegZero THEN Zero ELSE k

js_same_value_zero(a, b) == a = b \/ {a, b} = {Zero, NegZero}

\* The records of the key's bucket are compared one by one.
map_find_record(k) ==
    {r \in Active : rec[r].bucket = Hash[k] % map.hash_size /\ js_same_value_zero(rec[r].key, k)}

\* Every record that is not empty moves to its bucket in the new table.
map_hash_resize(rs, size) ==
    [r \in DOMAIN rs |-> IF rs[r].linked /\ ~rs[r].empty
                         THEN [rs[r] EXCEPT !.bucket = Hash[rs[r].key] % size] ELSE rs[r]]

map_add_record(k, v) ==
    LET rs == Append(rec, [key |-> k, val |-> v, linked |-> TRUE, empty |-> FALSE,
                           ref_count |-> 1, bucket |-> Hash[k] % map.hash_size])
        n == map.record_count + 1
        size == IF map.hash_size = 1 THEN 4 ELSE map.hash_size * 2
    IN IF n >= map.threshold
       THEN /\ rec' = map_hash_resize(rs, size)
            /\ map' = [record_count |-> n, hash_size |-> size, threshold |-> size * 2]
       ELSE rec' = rs /\ map' = [map EXCEPT !.record_count = n]

\* Faulty variant: the record is unlinked even if an iterator stands on it.
map_delete_record_Unlinks(rs, r) ==
    [rs EXCEPT ![r].ref_count = @ - 1, ![r].linked = FALSE, ![r].empty = TRUE,
               ![r].key = Undefined, ![r].val = Undefined, ![r].bucket = 0]

\* A record that an iterator stands on becomes a zombie, any other one is freed.
map_delete_record(rs, r) ==
    [rs EXCEPT ![r] = [key |-> Undefined, val |-> Undefined, linked |-> @.ref_count > 1,
                       empty |-> TRUE, ref_count |-> @.ref_count - 1, bucket |-> 0]]

map_decref_record(rs, r) ==
    [rs EXCEPT ![r] = [rs[r] EXCEPT !.ref_count = rs[r].ref_count - 1,
                                     !.linked = rs[r].ref_count > 1]]

-----------------------------------------------------------------------------
(* The methods of Map and Set *)

js_map_set(k, v) ==
    LET key == map_normalize_key(k)
        found == map_find_record(key)
    IN /\ IF found # {}
          THEN rec' = [r \in Ids |-> IF r \in found THEN [rec[r] EXCEPT !.val = v] ELSE rec[r]] /\ UNCHANGED map
          ELSE Len(rec) < MaxRecords /\ map_add_record(key, v)
       /\ ret' = <<>>
       /\ UNCHANGED iter

js_map_get(k) ==
    /\ ret' = <<"get", {rec[r].val : r \in map_find_record(map_normalize_key(k))}>>
    /\ UNCHANGED <<rec, map, iter>>

js_map_delete(k) ==
    LET found == map_find_record(map_normalize_key(k))
    IN /\ ret' = <<"delete", found # {}>>
       /\ IF found = {} THEN UNCHANGED <<rec, map>>
          ELSE /\ rec' = map_delete_record(rec, CHOOSE r \in found : TRUE)
               /\ map' = [map EXCEPT !.record_count = @ - 1]
       /\ UNCHANGED iter

js_map_clear ==
    /\ rec' = [r \in Ids |-> IF r \in Active THEN map_delete_record(rec, r)[r] ELSE rec[r]]
    /\ map' = [map EXCEPT !.record_count = 0]
    /\ ret' = <<>>
    /\ UNCHANGED iter

js_map_get_size == ret' = <<"size", map.record_count>> /\ UNCHANGED <<rec, map, iter>>

-----------------------------------------------------------------------------
(* Iterators, and forEach between two calls of its function *)

js_create_map_iterator(i) ==
    /\ iter[i].state = "off"
    /\ iter' = [iter EXCEPT ![i] = [state |-> "on", cur |-> 0]]
    /\ ret' = <<>>
    /\ UNCHANGED <<rec, map>>

\* The record after the current one is found before the current one is let go, then
\* empty records are skipped.
js_map_iterator_next(i) ==
    LET cur == iter[i].cur
        rs == IF cur = 0 THEN rec ELSE map_decref_record(rec, cur)
        ahead == {r \in Active : r > cur}
    IN /\ iter[i].state # "off"
       /\ IF iter[i].state = "done" THEN ret' = <<"done">> /\ UNCHANGED <<rec, iter>>
          ELSE IF ahead = {}
          THEN /\ rec' = rs
               /\ iter' = [iter EXCEPT ![i] = [state |-> "done", cur |-> 0]]
               /\ ret' = <<"done">>
          ELSE \E r \in ahead :
                  /\ \A s \in ahead : r <= s
                  /\ rec' = [rs EXCEPT ![r] = [rs[r] EXCEPT !.ref_count = rs[r].ref_count + 1]]
                  /\ iter' = [iter EXCEPT ![i] = [iter[i] EXCEPT !.cur = r]]
                  /\ ret' = <<"next", [key |-> rec[r].key, val |-> rec[r].val]>>
       /\ UNCHANGED map

\* The iterator is freed, or the function of a forEach throws.
js_map_iterator_finalizer(i) ==
    /\ iter[i].state # "off"
    /\ rec' = IF iter[i].cur = 0 THEN rec ELSE map_decref_record(rec, iter[i].cur)
    /\ iter' = [iter EXCEPT ![i] = [state |-> "off", cur |-> 0]]
    /\ ret' = <<>>
    /\ UNCHANGED map

MapNext ==
    \/ \E k \in Keys : js_map_get(k) \/ js_map_delete(k) \/ \E v \in Vals : js_map_set(k, v)
    \/ js_map_clear \/ js_map_get_size
    \/ \E i \in Iters :
         js_create_map_iterator(i) \/ js_map_iterator_next(i) \/ js_map_iterator_finalizer(i)

MapRun == MapInit /\ [][MapNext]_mapVars

-----------------------------------------------------------------------------
(* Properties *)

On(r) == {i \in Iters : iter[i].cur = r}

\* A record lives exactly as long as it is in the map or an iterator stands on it, so an
\* iterator never stands on freed memory and a zombie goes with its last iterator.
RecordsLocked ==
    \A r \in Ids :
        /\ rec[r].ref_count = Cardinality(On(r)) + (IF rec[r].empty THEN 0 ELSE 1)
        /\ rec[r].linked <=> rec[r].ref_count > 0

\* The hash table and the record count describe the list of records after every resize
\* and deletion, and no two records have the same key.
TableMatchesList ==
    /\ map.record_count = Cardinality(Active)
    /\ \A r \in Active : rec[r].bucket = Hash[rec[r].key] % map.hash_size
    /\ \A r, s \in Active : r # s => ~js_same_value_zero(rec[r].key, rec[s].key)

\* The list of entries that the records stand for; freed records and zombies are empty.
Entries ==
    [r \in Ids |-> IF r \in Active THEN [key |-> rec[r].key, val |-> rec[r].val] ELSE [empty |-> TRUE]]

Promise == INSTANCE MapSpec WITH entries <- Entries, pos <- iter

\* A Map behaves as the list of entries of ECMAScript under any interleaving of set,
\* delete, clear and several iterations: an iteration visits every entry that is there
\* when it gets to it, once, in insertion order, and no deleted one.
MapImplementsSpec == Promise!MSSpec
=============================================================================
