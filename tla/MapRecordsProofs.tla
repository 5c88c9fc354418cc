--------------------------- MODULE MapRecordsProofs ---------------------------
(* A Map or Set of QuickJS for any keys, values, hash function, number of        *)
(* records and finite set of iterators. The reference counts are right because   *)
(* an iterator that is not in an iteration stands on no record, and one that is  *)
(* stands on a record of the map (LockInv). The hash table is right because the  *)
(* keys in it are normalized, so that a key is looked for in the bucket where it *)
(* was put (MapInv). From there every operation is one of MapSpec.               *)
EXTENDS MapRecords, FiniteSetTheorems, TLAPS

AllKeys == Keys \cup {Zero, Undefined}
Buckets == {0} \cup {Hash[k] % n : k \in AllKeys, n \in Nat}

Recs == [key : AllKeys, val : Vals \cup {Undefined}, linked : BOOLEAN, empty : BOOLEAN,
         ref_count : Nat, bucket : Buckets]

Iterators == [state : {"off", "on", "done"}, cur : Nat]

\* What the hash table contributes: its size, which the records' buckets depend on.
Tables == [record_count : Int, hash_size : Nat, threshold : Nat \cup {InitialThreshold}]

\* Where the iterators stand.
Standing ==
    /\ iter \in [Iters -> Iterators]
    /\ \A i \in Iters : iter[i].cur # 0 => iter[i].state = "on" /\ iter[i].cur \in Ids

LockInv == rec \in Seq(Recs) /\ map \in Tables /\ Standing /\ RecordsLocked

-----------------------------------------------------------------------------
\* What the count of a record says: it is locked by itself and by the iterators on it.
Locked(r, R) ==
    /\ R.ref_count = Cardinality(On(r)) + (IF R.empty THEN 0 ELSE 1)
    /\ R.linked <=> R.ref_count > 0

\* A sequence with one more element.
LEMMA AppendSeq ==
  ASSUME NEW S, NEW q \in Seq(S), NEW e \in S
  PROVE  /\ Append(q, e) \in Seq(S) /\ Len(Append(q, e)) = Len(q) + 1
         /\ \A i \in 1 .. Len(q) : Append(q, e)[i] = q[i]
         /\ Append(q, e)[Len(q) + 1] = e
OBVIOUS

\* Finitely many iterators stand on a record.
LEMMA OnFinite ==
  ASSUME IsFiniteSet(Iters), NEW r
  PROVE  IsFiniteSet(On(r)) /\ Cardinality(On(r)) \in Nat
BY FS_Subset, FS_CardinalityType DEF On

\* A step that moves no iterator keeps the invariant if it keeps it record by record.
LEMMA RecordByRecord ==
  ASSUME LockInv, iter' = iter, rec' \in Seq(Recs), map' \in Tables, Len(rec') >= Len(rec),
         \A r \in DOMAIN rec' : Locked(r, rec'[r])
  PROVE  LockInv'
<1>1. /\ DOMAIN rec = 1..Len(rec) /\ DOMAIN rec' = 1..Len(rec')
      /\ Len(rec) \in Nat /\ Len(rec') \in Nat
  BY DEF LockInv
<1>2. Standing'
  BY <1>1 DEF LockInv, Standing, Ids
<1>3. \A r : On(r)' = On(r)
  BY DEF On
<1>4. RecordsLocked'
  BY <1>3 DEF RecordsLocked, Locked, Ids
<1> QED
  BY <1>2, <1>4 DEF LockInv

\* Nothing is lost when nothing changes but what is returned.
LEMMA GetsKeep ==
  ASSUME LockInv, UNCHANGED <<rec, map, iter>>
  PROVE  LockInv'
BY Zenon DEF LockInv, Standing, RecordsLocked, Ids, On

\* A deleted record is left to the iterators that stand on it.
LEMMA DeleteKeeps ==
  ASSUME LockInv, IsFiniteSet(Iters), NEW r \in Active
  PROVE  LET R == map_delete_record(rec, r)[r]
         IN  R \in Recs /\ Locked(r, R)
<1>1. r \in DOMAIN rec /\ rec[r] \in Recs /\ ~rec[r].empty
  BY DEF LockInv, Active, Linked, Ids
<1>2. rec[r].ref_count = Cardinality(On(r)) + 1 /\ Cardinality(On(r)) \in Nat
  BY <1>1, OnFinite DEF LockInv, RecordsLocked, Ids
<1>3. PICK n \in Nat : n = rec[r].ref_count - 1 /\ n = Cardinality(On(r))
  BY <1>2
<1>b. PICK b : b = (rec[r].ref_count > 1)
  OBVIOUS
<1>4. b \in BOOLEAN /\ (b <=> n > 0)
  <2>1. CASE n > 0
    <3>1. (rec[r].ref_count > 1) = TRUE
      BY <1>2, <1>3, <2>1
    <3> QED
      BY <1>b, <2>1, <3>1, Zenon
  <2>2. CASE ~(n > 0)
    <3>1. (rec[r].ref_count > 1) = FALSE
      BY <1>2, <1>3, <2>2
    <3> QED
      BY <1>b, <2>2, <3>1, Zenon
  <2> QED
    BY <2>1, <2>2
<1>5. map_delete_record(rec, r)[r] =
        [key |-> Undefined, val |-> Undefined, linked |-> b, empty |-> TRUE, ref_count |-> n,
         bucket |-> 0]
  BY <1>1, <1>3, <1>b DEF map_delete_record
<1>6. 0 \in Buckets /\ Undefined \in AllKeys
  BY DEF Buckets, AllKeys
<1> QED
  BY <1>3, <1>4, <1>5, <1>6 DEF Recs, Locked

\* Deleting a key touches the record of the key only.
LEMMA MapDeleteKeeps ==
  ASSUME LockInv, IsFiniteSet(Iters), NEW k \in Keys, js_map_delete(k)
  PROVE  LockInv'
<1>1. CASE map_find_record(map_normalize_key(k)) = {}
  BY <1>1, GetsKeep DEF js_map_delete
<1>2. CASE map_find_record(map_normalize_key(k)) # {}
  <2>1. PICK r \in Active : rec' = map_delete_record(rec, r)
    <3>1. (CHOOSE r \in map_find_record(map_normalize_key(k)) : TRUE) \in Active
      BY <1>2 DEF map_find_record
    <3> QED
      BY <1>2, <3>1 DEF js_map_delete
  <2>2. PICK R \in Recs : rec' = [rec EXCEPT ![r] = R] /\ Locked(r, R)
    <3>1. rec' = [rec EXCEPT ![r] = map_delete_record(rec, r)[r]]
      BY <2>1 DEF map_delete_record, Active, Linked, Ids
    <3> QED
      BY <3>1, DeleteKeeps, Zenon
  <2>3. rec \in Seq(Recs) /\ r \in 1..Len(rec)
    BY DEF LockInv, Active, Linked, Ids
  <2>4. rec' \in Seq(Recs) /\ Len(rec') = Len(rec)
    BY <2>2, <2>3
  <2>5. ASSUME NEW s \in DOMAIN rec' PROVE Locked(s, rec'[s])
    BY <2>2, <2>3 DEF LockInv, RecordsLocked, Locked, Ids
  <2>6. map' \in Tables /\ iter' = iter
    BY <1>2 DEF js_map_delete, LockInv, Tables
  <2> QED
    BY <2>3, <2>4, <2>5, <2>6, RecordByRecord
<1> QED
  BY <1>1, <1>2

\* Clearing deletes every record that is not a zombie.
LEMMA ClearKeeps ==
  ASSUME LockInv, IsFiniteSet(Iters), js_map_clear
  PROVE  LockInv'
<1>1. rec \in Seq(Recs) /\ Ids = 1..Len(rec) /\ Len(rec) \in Nat
  BY DEF LockInv, Ids
<1>2. /\ rec' = [r \in Ids |-> IF r \in Active THEN map_delete_record(rec, r)[r] ELSE rec[r]]
      /\ iter' = iter
  BY DEF js_map_clear
<1>3. ASSUME NEW r \in Ids PROVE rec'[r] \in Recs /\ Locked(r, rec'[r])
  <2>1. CASE r \in Active
    BY <1>2, <2>1, DeleteKeeps
  <2>2. CASE r \notin Active
    BY <1>1, <1>2, <2>2 DEF LockInv, RecordsLocked, Locked
  <2> QED
    BY <2>1, <2>2
<1>4. rec' \in [1..Len(rec) -> Recs]
  BY <1>1, <1>2, <1>3
<1>5. rec' \in Seq(Recs) /\ Len(rec') = Len(rec) /\ DOMAIN rec' = Ids
  BY <1>1, <1>4
<1>6. map' \in Tables
  BY DEF js_map_clear, LockInv, Tables
<1> QED
  BY <1>1, <1>2, <1>3, <1>5, <1>6, RecordByRecord

\* Setting changes a value, or adds a record on which no iterator stands; moving
\* the records to new buckets changes no count.
LEMMA SetKeeps ==
  ASSUME LockInv, IsFiniteSet(Iters), NEW k \in Keys, NEW v \in Vals, js_map_set(k, v)
  PROVE  LockInv'
<1>1. rec \in Seq(Recs) /\ Ids = 1..Len(rec) /\ Len(rec) \in Nat /\ map \in Tables
  BY DEF LockInv, Ids
<1>2. PICK key \in AllKeys : key = map_normalize_key(k)
  BY DEF map_normalize_key, AllKeys
<1>3. CASE map_find_record(key) # {}
  <2>1. /\ rec' = [r \in Ids |-> IF r \in map_find_record(key) THEN [rec[r] EXCEPT !.val = v] ELSE rec[r]]
        /\ iter' = iter /\ map' = map
    BY <1>2, <1>3 DEF js_map_set
  <2>2. ASSUME NEW r \in Ids
        PROVE  /\ rec'[r] \in Recs /\ rec'[r].ref_count = rec[r].ref_count
               /\ rec'[r].linked = rec[r].linked /\ rec'[r].empty = rec[r].empty
    <3>1. rec[r] \in Recs
      BY <1>1
    <3>2. rec'[r] \in {rec[r], [rec[r] EXCEPT !.val = v]}
      BY <2>1
    <3> QED
      BY <3>1, <3>2 DEF Recs
  <2>3. rec' \in [1..Len(rec) -> Recs]
    BY <1>1, <2>1, <2>2
  <2>4. rec' \in Seq(Recs) /\ Len(rec') = Len(rec) /\ DOMAIN rec' = Ids
    BY <1>1, <2>3
  <2>5. \A r \in DOMAIN rec' : Locked(r, rec'[r])
    BY <2>2, <2>4 DEF LockInv, RecordsLocked, Locked
  <2> QED
    BY <1>1, <2>1, <2>4, <2>5, RecordByRecord
<1>4. CASE map_find_record(key) = {}
  <2> DEFINE new == [key |-> key, val |-> v, linked |-> TRUE, empty |-> FALSE, ref_count |-> 1,
                     bucket |-> Hash[key] % map.hash_size]
             rs == Append(rec, new)
  <2>1. map_add_record(key, v) /\ iter' = iter
    BY <1>2, <1>4 DEF js_map_set
  <2>2. PICK n : n = Len(rec) + 1
    OBVIOUS
  <2>3. new \in Recs /\ new.ref_count = 1 /\ new.linked = TRUE /\ new.empty = FALSE
    BY <1>1, <1>2 DEF Recs, Tables, Buckets
  <2>4. /\ rs \in Seq(Recs) /\ Len(rs) = n /\ rs[n] = new
        /\ \A r \in 1..Len(rec) : rs[r] = rec[r]
    BY <1>1, <2>2, <2>3, AppendSeq
  <2> HIDE DEF rs
  <2>5. ASSUME NEW size \in Nat
        PROVE  /\ map_hash_resize(rs, size) \in Seq(Recs)
               /\ Len(map_hash_resize(rs, size)) = n
               /\ \A r \in 1..n :
                    /\ map_hash_resize(rs, size)[r].ref_count = rs[r].ref_count
                    /\ map_hash_resize(rs, size)[r].linked = rs[r].linked
                    /\ map_hash_resize(rs, size)[r].empty = rs[r].empty
    <3>1. DOMAIN rs = 1..n /\ n \in Nat
      BY <1>1, <2>2, <2>4
    <3>2. ASSUME NEW r \in 1..n
          PROVE  /\ map_hash_resize(rs, size)[r] \in Recs
                 /\ map_hash_resize(rs, size)[r].ref_count = rs[r].ref_count
                 /\ map_hash_resize(rs, size)[r].linked = rs[r].linked
                 /\ map_hash_resize(rs, size)[r].empty = rs[r].empty
      <4>1. rs[r] \in Recs
        BY <2>4, <3>1
      <4>2. rs[r].key \in AllKeys
        BY <4>1 DEF Recs
      <4>b. PICK b : b = Hash[rs[r].key] % size
        OBVIOUS
      <4>4. b \in Buckets
        BY <4>2, <4>b DEF Buckets
      <4>3. map_hash_resize(rs, size)[r] \in {rs[r], [rs[r] EXCEPT !.bucket = b]}
        BY <3>1, <4>b DEF map_hash_resize
      <4> QED
        BY <4>1, <4>3, <4>4 DEF Recs
    <3>3. map_hash_resize(rs, size) \in [1..n -> Recs]
      BY <3>1, <3>2 DEF map_hash_resize
    <3> QED
      BY <3>1, <3>2, <3>3
  <2>6. /\ rec' \in Seq(Recs) /\ Len(rec') = n /\ map' \in Tables
        /\ \A r \in 1..n : /\ rec'[r].ref_count = rs[r].ref_count
                            /\ rec'[r].linked = rs[r].linked /\ rec'[r].empty = rs[r].empty
    <3>1. CASE map.record_count + 1 >= map.threshold
      <4>1. PICK size \in Nat : /\ rec' = map_hash_resize(rs, size)
                                /\ map' = [record_count |-> map.record_count + 1,
                                           hash_size |-> size, threshold |-> size * 2]
        BY <1>1, <2>1, <3>1 DEF map_add_record, rs, Tables
      <4>2. map' \in Tables
        BY <1>1, <4>1 DEF Tables
      <4> QED
        BY <2>5, <4>1, <4>2
    <3>2. CASE ~(map.record_count + 1 >= map.threshold)
      <4>1. rec' = rs /\ map' = [map EXCEPT !.record_count = map.record_count + 1]
        BY <2>1, <3>2 DEF map_add_record, rs
      <4>2. map' \in Tables
        BY <1>1, <4>1 DEF Tables
      <4> QED
        BY <2>4, <4>1, <4>2
    <3> QED
      BY <3>1, <3>2
  <2>7. ASSUME NEW r \in DOMAIN rec' PROVE Locked(r, rec'[r])
    <3>1. CASE r \in 1..Len(rec)
      BY <1>1, <2>2, <2>4, <2>6, <3>1 DEF LockInv, RecordsLocked, Locked
    <3>2. CASE r = n
      <4>1. On(n) = {}
        BY <1>1, <2>2 DEF On, LockInv, Standing
      <4>2. Cardinality(On(n)) = 0
        BY <4>1, FS_EmptySet
      <4>3. rec'[n].ref_count = 1 /\ rec'[n].linked = TRUE /\ rec'[n].empty = FALSE
        BY <1>1, <2>2, <2>3, <2>4, <2>6
      <4> QED
        BY <3>2, <4>2, <4>3 DEF Locked
    <3> QED
      BY <1>1, <2>2, <2>6, <3>1, <3>2
  <2> QED
    BY <1>1, <2>1, <2>2, <2>6, <2>7, RecordByRecord
<1> QED
  BY <1>3, <1>4

-----------------------------------------------------------------------------
(* The iterators *)

\* Letting a record go takes one from its count, and the record with it if that was
\* the last one.
LEMMA Decref ==
  ASSUME LockInv, IsFiniteSet(Iters), NEW i \in Iters, iter[i].cur # 0
  PROVE  LET c == iter[i].cur
         IN  /\ c \in Ids /\ rec[c].ref_count > 0
             /\ \E R \in Recs :
                  /\ map_decref_record(rec, c) = [rec EXCEPT ![c] = R]
                  /\ R.empty = rec[c].empty /\ R.ref_count = rec[c].ref_count - 1
                  /\ R.linked <=> R.ref_count > 0
<1>c. PICK c : c = iter[i].cur
  OBVIOUS
<1>1. c \in Ids /\ rec[c] \in Recs
  BY <1>c DEF LockInv, Standing, Ids
<1>2. i \in On(c)
  BY <1>c DEF On
<1>3. Cardinality(On(c)) \in Nat /\ Cardinality(On(c)) # 0
  BY <1>2, OnFinite, FS_EmptySet
<1>4. rec[c].ref_count \in Nat /\ rec[c].ref_count > 0
  BY <1>1, <1>3 DEF LockInv, RecordsLocked, Recs
<1>5. PICK n \in Nat : n = rec[c].ref_count - 1
  BY <1>4
<1>6. PICK b : b = (rec[c].ref_count > 1)
  OBVIOUS
<1>7. b \in BOOLEAN /\ (b <=> n > 0)
  <2>1. CASE n > 0
    <3>1. (rec[c].ref_count > 1) = TRUE
      BY <1>4, <1>5, <2>1
    <3> QED
      BY <1>6, <2>1, <3>1, Zenon
  <2>2. CASE ~(n > 0)
    <3>1. (rec[c].ref_count > 1) = FALSE
      BY <1>4, <1>5, <2>2
    <3> QED
      BY <1>6, <2>2, <3>1, Zenon
  <2> QED
    BY <2>1, <2>2
<1>8. PICK R : R = [rec[c] EXCEPT !.ref_count = n, !.linked = b]
  OBVIOUS
<1>9. R \in Recs /\ R.empty = rec[c].empty /\ R.ref_count = n /\ R.linked = b
  BY <1>1, <1>7, <1>8, Zenon DEF Recs
<1>10. map_decref_record(rec, c) = [rec EXCEPT ![c] = R]
  <2>1. map_decref_record(rec, c) =
          [rec EXCEPT ![c] = [rec[c] EXCEPT !.ref_count = rec[c].ref_count - 1,
                                            !.linked = (rec[c].ref_count > 1)]]
    BY <1>1, Zenon DEF map_decref_record
  <2> QED
    BY <1>5, <1>6, <1>8, <2>1, Zenon
<1> QED
  BY <1>c, <1>1, <1>4, <1>5, <1>7, <1>9, <1>10

\* A new iterator stands on no record.
LEMMA CreateKeeps ==
  ASSUME LockInv, NEW i \in Iters, js_create_map_iterator(i)
  PROVE  LockInv'
<1>1. /\ iter \in [Iters -> Iterators] /\ iter[i].cur = 0 /\ rec' = rec /\ map' = map
      /\ iter' = [iter EXCEPT ![i] = [state |-> "on", cur |-> 0]]
  BY DEF LockInv, Standing, js_create_map_iterator
<1>2. \A j \in Iters : iter'[j].cur = iter[j].cur /\ (iter[j].state = "on" => iter'[j].state = "on")
  BY <1>1
<1>3. iter' \in [Iters -> Iterators]
  BY <1>1 DEF Iterators
<1>4. Standing'
  BY <1>1, <1>2, <1>3 DEF LockInv, Standing, Ids
<1>5. \A r : On(r)' = On(r)
  BY <1>2 DEF On
<1> QED
  BY <1>1, <1>4, <1>5 DEF LockInv, RecordsLocked, Ids

\* An iterator that ends lets its record go.
LEMMA LeavesKeeps ==
  ASSUME LockInv, IsFiniteSet(Iters), NEW i \in Iters, NEW st \in {"off", "done"}, map' = map,
         rec' = IF iter[i].cur = 0 THEN rec ELSE map_decref_record(rec, iter[i].cur),
         iter' = [iter EXCEPT ![i] = [state |-> st, cur |-> 0]]
  PROVE  LockInv'
<1>1. /\ iter \in [Iters -> Iterators] /\ rec \in Seq(Recs) /\ Ids = 1..Len(rec)
      /\ Len(rec) \in Nat
  BY DEF LockInv, Standing, Ids
<1>2. /\ iter' \in [Iters -> Iterators] /\ iter'[i].cur = 0
      /\ \A j \in Iters : j # i => iter'[j] = iter[j]
  BY <1>1 DEF Iterators
<1>3. CASE iter[i].cur = 0
  <2>1. \A j \in Iters : iter'[j].cur = iter[j].cur
    BY <1>2, <1>3
  <2>2. \A r : On(r)' = On(r)
    BY <2>1 DEF On
  <2>3. rec' = rec
    BY <1>3
  <2>4. Standing'
    BY <1>2, <1>3, <2>3 DEF LockInv, Standing, Ids
  <2> QED
    BY <2>2, <2>3, <2>4 DEF LockInv, RecordsLocked, Ids
<1>4. CASE iter[i].cur # 0
  <2>c. PICK c \in Nat : c = iter[i].cur /\ c # 0
    BY <1>1, <1>4 DEF Iterators
  <2>1. PICK R \in Recs :
          /\ c \in Ids /\ rec' = [rec EXCEPT ![c] = R]
          /\ R.empty = rec[c].empty /\ R.ref_count = rec[c].ref_count - 1
          /\ R.linked <=> R.ref_count > 0
    BY <1>4, <2>c, Decref, Zenon
  <2>2. rec' \in Seq(Recs) /\ Len(rec') = Len(rec) /\ Ids' = Ids
    BY <1>1, <2>1 DEF Ids
  <2>3. Standing'
    BY <1>2, <2>2 DEF LockInv, Standing
  <2>4. /\ Cardinality(On(c)') = Cardinality(On(c)) - 1
        /\ \A r : r # c /\ r # 0 => On(r)' = On(r)
    <3>1. /\ i \in On(c) /\ On(c)' = On(c) \ {i}
          /\ \A r : r # c /\ r # 0 => On(r)' = On(r)
      BY <1>2, <2>c DEF On
    <3>2. IsFiniteSet(On(c))
      BY OnFinite
    <3> QED
      BY <3>1, <3>2, FS_RemoveElement, Zenon
  <2>5. Cardinality(On(c)) \in Nat
    BY OnFinite
  <2>6. RecordsLocked'
    <3> SUFFICES ASSUME NEW r \in Ids
                 PROVE  /\ rec'[r].ref_count = Cardinality(On(r)') + (IF rec'[r].empty THEN 0 ELSE 1)
                        /\ rec'[r].linked <=> rec'[r].ref_count > 0
      BY <2>2 DEF RecordsLocked
    <3>1. CASE r = c
      <4>1. rec'[r] = R /\ R.ref_count = Cardinality(On(r)') + (IF R.empty THEN 0 ELSE 1)
        BY <1>1, <2>1, <2>4, <2>5, <3>1 DEF LockInv, RecordsLocked
      <4> QED
        BY <2>1, <4>1
    <3>2. CASE r # c
      <4>1. rec'[r] = rec[r] /\ On(r)' = On(r)
        BY <1>1, <2>1, <2>4, <3>2
      <4> QED
        BY <4>1 DEF LockInv, RecordsLocked
    <3> QED
      BY <3>1, <3>2
  <2> QED
    BY <2>2, <2>3, <2>6 DEF LockInv
<1> QED
  BY <1>3, <1>4

\* An iterator that goes on takes the record it goes to and lets the one it was on go.
LEMMA AdvanceKeeps ==
  ASSUME LockInv, IsFiniteSet(Iters), NEW i \in Iters, NEW q \in Active, q > iter[i].cur,
         iter[i].state = "on", map' = map,
         LET rs == IF iter[i].cur = 0 THEN rec ELSE map_decref_record(rec, iter[i].cur)
         IN  rec' = [rs EXCEPT ![q] = [rs[q] EXCEPT !.ref_count = rs[q].ref_count + 1]],
         iter' = [iter EXCEPT ![i] = [iter[i] EXCEPT !.cur = q]]
  PROVE  LockInv'
<1>1. /\ iter \in [Iters -> Iterators] /\ rec \in Seq(Recs) /\ Ids = 1..Len(rec)
      /\ Len(rec) \in Nat
  BY DEF LockInv, Standing, Ids
<1>2. /\ q \in Ids /\ q \in Nat /\ q # 0 /\ rec[q] \in Recs
      /\ rec[q].linked /\ ~rec[q].empty
  BY <1>1 DEF Active, Linked
<1>c. PICK c \in Nat : c = iter[i].cur /\ c # q
  BY <1>1, <1>2 DEF Iterators
<1>3. iter' = [iter EXCEPT ![i] = [state |-> "on", cur |-> q]]
  <2>1. iter[i] \in Iterators
    BY <1>1
  <2>2. [iter[i] EXCEPT !.cur = q] = [state |-> "on", cur |-> q]
    BY <2>1 DEF Iterators
  <2> QED
    BY <2>2, Zenon
<1>4. /\ iter' \in [Iters -> Iterators] /\ iter'[i].cur = q /\ iter'[i].state = "on"
      /\ \A j \in Iters : j # i => iter'[j] = iter[j]
  BY <1>1, <1>2, <1>3 DEF Iterators
<1>5. /\ Cardinality(On(c)') = Cardinality(On(c)) - 1
      /\ Cardinality(On(q)') = Cardinality(On(q)) + 1
      /\ \A r : r # c /\ r # q => On(r)' = On(r)
  <2>1. /\ i \in On(c) /\ On(c)' = On(c) \ {i}
        /\ i \notin On(q) /\ On(q)' = On(q) \cup {i}
        /\ \A r : r # c /\ r # q => On(r)' = On(r)
    BY <1>c, <1>4 DEF On
  <2>2. IsFiniteSet(On(c)) /\ IsFiniteSet(On(q))
    BY OnFinite
  <2>3. Cardinality(On(c)') = Cardinality(On(c)) - 1
    BY <2>1, <2>2, FS_RemoveElement, Zenon
  <2>4. Cardinality(On(q)') = Cardinality(On(q)) + 1
    BY <2>1, <2>2, FS_AddElement, Zenon
  <2> QED
    BY <2>1, <2>3, <2>4
<1>6. Cardinality(On(c)) \in Nat /\ Cardinality(On(q)) \in Nat
  BY OnFinite
<1>7. PICK rs \in Seq(Recs) :
        /\ Len(rs) = Len(rec)
        /\ rec' = [rs EXCEPT ![q] = [rs[q] EXCEPT !.ref_count = rs[q].ref_count + 1]]
        /\ \A r \in Ids : r # c => rs[r] = rec[r]
        /\ c # 0 => /\ c \in Ids
                    /\ rs[c].empty = rec[c].empty /\ rs[c].ref_count = rec[c].ref_count - 1
                    /\ rs[c].linked <=> rs[c].ref_count > 0
  <2>1. CASE c = 0
    BY <1>1, <1>c, <2>1, Zenon
  <2>2. CASE c # 0
    <3>1. PICK R \in Recs :
            /\ c \in Ids /\ map_decref_record(rec, c) = [rec EXCEPT ![c] = R]
            /\ R.empty = rec[c].empty /\ R.ref_count = rec[c].ref_count - 1
            /\ R.linked <=> R.ref_count > 0
      BY <1>c, <2>2, Decref, Zenon
    <3>2. PICK rs : rs = [rec EXCEPT ![c] = R]
      BY Zenon
    <3>3. rs \in Seq(Recs) /\ Len(rs) = Len(rec) /\ rs[c] = R /\ \A r \in Ids : r # c => rs[r] = rec[r]
      BY <1>1, <3>1, <3>2
    <3>4. rec' = [rs EXCEPT ![q] = [rs[q] EXCEPT !.ref_count = rs[q].ref_count + 1]]
      BY <1>c, <2>2, <3>1, <3>2
    <3> QED
      BY <3>1, <3>3, <3>4, Zenon
  <2> QED
    BY <2>1, <2>2, Zenon
<1>8. PICK n \in Nat : n = rec[q].ref_count + 1 /\ n = Cardinality(On(q)') + 1
  <2>1. rec[q].ref_count \in Nat /\ rec[q].ref_count = Cardinality(On(q)) + 1
    BY <1>2 DEF LockInv, RecordsLocked, Recs
  <2> QED
    BY <1>5, <1>6, <2>1
<1>9. PICK Q : Q = [rec[q] EXCEPT !.ref_count = n]
  BY Zenon
<1>10. Q \in Recs /\ Q.ref_count = n /\ Q.linked = TRUE /\ Q.empty = FALSE
  BY <1>2, <1>9 DEF Recs
<1>11. rec' = [rs EXCEPT ![q] = Q]
  <2>1. rs[q] = rec[q]
    BY <1>2, <1>c, <1>7
  <2>2. [rec[q] EXCEPT !.ref_count = rec[q].ref_count + 1] = Q
    BY <1>2, <1>8, <1>9 DEF Recs
  <2> QED
    BY <1>7, <2>1, <2>2, Zenon
<1>12. /\ rec' \in Seq(Recs) /\ Len(rec') = Len(rec) /\ Ids' = Ids /\ rec'[q] = Q
       /\ \A r \in Ids : r # q => rec'[r] = rs[r]
  <2>1. rs \in [1..Len(rec) -> Recs] /\ q \in 1..Len(rec)
    BY <1>1, <1>2, <1>7
  <2>2. rec' \in [1..Len(rec) -> Recs]
    BY <1>10, <1>11, <2>1, Zenon
  <2>s. PICK w : w = rec'
    BY Zenon
  <2>3. rec' \in Seq(Recs) /\ Len(rec') = Len(rec) /\ DOMAIN rec' = Ids
    <3>1. w \in Seq(Recs) /\ Len(w) = Len(rec) /\ DOMAIN w = 1..Len(rec)
      BY ONLY <1>1, <2>2, <2>s
    <3> QED
      BY <1>1, <2>s, <3>1
  <2> QED
    BY <1>1, <1>11, <2>1, <2>3 DEF Ids
<1>13. Standing'
  BY <1>2, <1>4, <1>12 DEF LockInv, Standing
<1>14. RecordsLocked'
  <2> SUFFICES ASSUME NEW r \in Ids
               PROVE  /\ rec'[r].ref_count = Cardinality(On(r)') + (IF rec'[r].empty THEN 0 ELSE 1)
                      /\ rec'[r].linked <=> rec'[r].ref_count > 0
    BY <1>12 DEF RecordsLocked
  <2>1. CASE r = q
    <3>1. Cardinality(On(q)') \in Nat
      BY <1>5, <1>6
    <3>2. rec'[r] = Q /\ Cardinality(On(r)') = Cardinality(On(q)')
      BY <1>12, <2>1
    <3>3. Q.ref_count = Cardinality(On(q)') + 1 /\ Q.ref_count > 0
      BY <1>8, <1>10, <3>1
    <3> QED
      BY <1>10, <3>2, <3>3, Zenon
  <2>2. CASE r = c
    <3>1. c # 0 /\ rec'[r] = rs[c]
      BY <1>1, <1>c, <1>12, <2>2
    <3>2. rec[c].ref_count = Cardinality(On(c)) + (IF rec[c].empty THEN 0 ELSE 1)
      BY <2>2 DEF LockInv, RecordsLocked
    <3>3. rs[c].ref_count = Cardinality(On(c)') + (IF rs[c].empty THEN 0 ELSE 1)
      BY <1>5, <1>6, <1>7, <3>1, <3>2
    <3> QED
      BY <1>7, <2>2, <3>1, <3>3, Zenon
  <2>3. CASE r # q /\ r # c
    <3>1. rec'[r] = rec[r] /\ On(r)' = On(r)
      BY <1>5, <1>7, <1>12, <2>3
    <3> QED
      BY <3>1, Zenon DEF LockInv, RecordsLocked
  <2> QED
    BY <2>1, <2>2, <2>3
<1> QED
  BY <1>12, <1>13, <1>14 DEF LockInv

\* js_map_iterator_next ends, goes on, or does nothing any more.
LEMMA IteratorNextKeeps ==
  ASSUME LockInv, IsFiniteSet(Iters), NEW i \in Iters, js_map_iterator_next(i)
  PROVE  LockInv'
<1>1. iter[i].state \in {"on", "done"} /\ map' = map
  BY DEF js_map_iterator_next, LockInv, Standing, Iterators
<1>2. CASE iter[i].state = "done"
  BY <1>1, <1>2, GetsKeep DEF js_map_iterator_next
<1>3. CASE iter[i].state = "on" /\ {r \in Active : r > iter[i].cur} = {}
  BY <1>1, <1>3, LeavesKeeps DEF js_map_iterator_next
<1>4. CASE iter[i].state = "on" /\ {r \in Active : r > iter[i].cur} # {}
  BY <1>1, <1>4, AdvanceKeeps DEF js_map_iterator_next
<1> QED
  BY <1>1, <1>2, <1>3, <1>4

\* An iterator that is freed lets its record go.
LEMMA FinalizerKeeps ==
  ASSUME LockInv, IsFiniteSet(Iters), NEW i \in Iters, js_map_iterator_finalizer(i)
  PROVE  LockInv'
BY LeavesKeeps, Zenon DEF js_map_iterator_finalizer

-----------------------------------------------------------------------------
(* The hash table, and what a Map promises *)

\* The keys in the table are normalized: none is -0.
Normalized == \A r \in Active : map_normalize_key(rec[r].key) = rec[r].key

MapInv == LockInv /\ TableMatchesList /\ Normalized

\* A key and its normal form are the same value to js_same_value_zero, and two keys
\* in normal form only if they are equal.
LEMMA SameValue ==
  ASSUME NEW k, NEW x, map_normalize_key(x) = x
  PROVE  /\ js_same_value_zero(x, k) <=> x = map_normalize_key(k)
         /\ js_same_value_zero(x, map_normalize_key(k)) <=> x = map_normalize_key(k)
         /\ map_normalize_key(map_normalize_key(k)) = map_normalize_key(k)
<1>1. \A a, b, c, d : {a, b} = {c, d} <=> (a = c /\ b = d) \/ (a = d /\ b = c)
  BY Zenon
<1> QED
  BY <1>1 DEF js_same_value_zero, map_normalize_key

\* The list of records is finite.
LEMMA ActiveFinite ==
  ASSUME rec \in Seq(Recs)
  PROVE  /\ Active \subseteq Ids /\ Ids = 1..Len(rec) /\ Len(rec) \in Nat
         /\ IsFiniteSet(Active) /\ Cardinality(Active) \in Nat
<1>1. Active \subseteq Ids /\ Ids = 1..Len(rec) /\ Len(rec) \in Nat
  BY DEF Active, Linked, Ids
<1>2. IsFiniteSet(1..Len(rec))
  BY <1>1, FS_Interval
<1> QED
  BY <1>1, <1>2, FS_Subset, FS_CardinalityType, Zenon

\* map_find_record finds the record of a key, if there is one.
LEMMA Finds ==
  ASSUME MapInv, NEW k
  PROVE  /\ map_find_record(map_normalize_key(k)) = {r \in Active : js_same_value_zero(rec[r].key, k)}
         /\ \A r \in map_find_record(map_normalize_key(k)) : rec[r].key = map_normalize_key(k)
         /\ \A r, s \in map_find_record(map_normalize_key(k)) : r = s
<1> DEFINE key == map_normalize_key(k)
<1>1. \A r \in Active : /\ js_same_value_zero(rec[r].key, k) <=> rec[r].key = key
                        /\ js_same_value_zero(rec[r].key, key) <=> rec[r].key = key
  BY SameValue DEF MapInv, Normalized
<1>2. \A r \in Active : rec[r].key = key => rec[r].bucket = Hash[key] % map.hash_size
  BY DEF MapInv, TableMatchesList
<1>3. \A r, s \in Active : rec[r].key = rec[s].key => r = s
  BY DEF MapInv, TableMatchesList, js_same_value_zero
<1> QED
  BY <1>1, <1>2, <1>3 DEF map_find_record

\* What an operation leaves alone of record r.
Kept(r) == /\ rec'[r].key = rec[r].key /\ rec'[r].val = rec[r].val
           /\ rec'[r].bucket = rec[r].bucket

\* Nothing but counts and iterators changes.
Still == Ids' = Ids /\ Active' = Active /\ map' = map /\ \A r \in Active : Kept(r)

LEMMA StillKeeps ==
  ASSUME MapInv, LockInv', Still
  PROVE  MapInv' /\ Entries' = Entries
<1>1. Entries' = Entries
  BY DEF Entries, Still, Kept
<1>2. Normalized'
  BY DEF MapInv, Normalized, Still, Kept
<1>3. TableMatchesList'
  BY DEF MapInv, TableMatchesList, Still, Kept
<1> QED
  BY <1>1, <1>2, <1>3 DEF MapInv

\* The entries that are present are the active records, and an entry is found where its
\* record is.
LEMMA Presents ==
  ASSUME MapInv
  PROVE  /\ Promise!Present = Active
         /\ \A r \in Active : Entries[r] = [key |-> rec[r].key, val |-> rec[r].val]
         /\ \A r \in Ids : r \notin Active => Entries[r] = Promise!Empty
         /\ \A k : Promise!Find(k) = map_find_record(map_normalize_key(k))
<1>1. Active \subseteq Ids /\ DOMAIN Entries = Ids
  BY ActiveFinite DEF MapInv, LockInv, Entries
<1>2. \A r \in Active : Entries[r] = [key |-> rec[r].key, val |-> rec[r].val]
  BY <1>1 DEF Entries
<1>3. \A r \in Ids : r \notin Active => Entries[r] = Promise!Empty
  BY DEF Entries, Promise!Empty
<1>4. \A a, b : [key |-> a, val |-> b] # Promise!Empty
  <2> SUFFICES ASSUME NEW a, NEW b, [key |-> a, val |-> b] = [empty |-> TRUE] PROVE FALSE
    BY Zenon DEF Promise!Empty
  <2>1. DOMAIN [key |-> a, val |-> b] = {"key", "val"}
    OBVIOUS
  <2>2. DOMAIN [empty |-> TRUE] = {"empty"}
    OBVIOUS
  <2> QED
    BY <2>1, <2>2
<1>5. Promise!Present = Active
  <2>1. \A r \in Ids : Entries[r] # Promise!Empty <=> r \in Active
    BY Zenon, <1>2, <1>3, <1>4
  <2> QED
    BY Zenon, <1>1, <2>1 DEF Promise!Present
<1>6. ASSUME NEW k PROVE Promise!Find(k) = map_find_record(map_normalize_key(k))
  <2>1. \A r \in Active : Entries[r].key = rec[r].key
    <3> TAKE r \in Active
    <3>1. Entries[r] = [key |-> rec[r].key, val |-> rec[r].val]
      BY <1>2
    <3> QED
      BY <3>1
  <2>2. map_find_record(map_normalize_key(k)) = {r \in Active : js_same_value_zero(rec[r].key, k)}
    BY Finds
  <2> QED
    BY <1>5, <2>1, <2>2, Zenon DEF Promise!Find, Promise!SameValueZero, js_same_value_zero
<1> QED
  BY <1>2, <1>3, <1>5, <1>6

\* A lookup returns the value of the entry of its key.
LEMMA GetMeets ==
  ASSUME MapInv, NEW k \in Keys, js_map_get(k)
  PROVE  Promise!MSGet(k) /\ Still
<1>1. UNCHANGED <<rec, map, iter>>
  BY DEF js_map_get
<1>2. Still /\ Entries' = Entries
  BY <1>1 DEF Still, Kept, Ids, Active, Linked, Entries
<1>3. \A r \in map_find_record(map_normalize_key(k)) : Entries[r].val = rec[r].val
  <2>1. \A r \in map_find_record(map_normalize_key(k)) : r \in Active
    BY DEF map_find_record
  <2> TAKE r \in map_find_record(map_normalize_key(k))
  <2>2. Entries[r] = [key |-> rec[r].key, val |-> rec[r].val]
    BY <2>1, Presents
  <2> QED
    BY <2>2
<1>4. {rec[r].val : r \in map_find_record(map_normalize_key(k))} =
        {Entries[r].val : r \in Promise!Find(k)}
  BY <1>3, Presents
<1> QED
  BY <1>1, <1>2, <1>4 DEF js_map_get, Promise!MSGet

\* The size is the number of entries.
LEMMA SizeMeets ==
  ASSUME MapInv, js_map_get_size
  PROVE  Promise!MSSize /\ Still
<1>1. UNCHANGED <<rec, map, iter>>
  BY DEF js_map_get_size
<1>2. Still /\ Entries' = Entries
  BY <1>1 DEF Still, Kept, Ids, Active, Linked, Entries
<1>3. map.record_count = Cardinality(Promise!Present)
  BY Presents DEF MapInv, TableMatchesList
<1>4. Promise!Cardinality(Promise!Present) = Cardinality(Promise!Present)
  BY DEF Promise!Cardinality, Cardinality
<1> QED
  BY <1>1, <1>2, <1>3, <1>4 DEF js_map_get_size, Promise!MSSize

\* Letting a record go, or taking it, changes no entry: a record in the map has its own
\* lock, so that it is not freed with the last iterator on it.
LEMMA CountsOnly ==
  ASSUME MapInv, LockInv', IsFiniteSet(Iters), map' = map, Ids' = Ids,
         \A r \in Ids : /\ rec'[r].key = rec[r].key /\ rec'[r].val = rec[r].val
                        /\ rec'[r].bucket = rec[r].bucket /\ rec'[r].empty = rec[r].empty
  PROVE  Still
<1>1. \A r \in Ids : ~rec[r].empty => rec[r].linked
  <2> SUFFICES ASSUME NEW r \in Ids, ~rec[r].empty PROVE rec[r].linked
    OBVIOUS
  <2>1. rec[r].ref_count = Cardinality(On(r)) + 1 /\ Cardinality(On(r)) \in Nat
    BY OnFinite DEF MapInv, LockInv, RecordsLocked
  <2>2. rec[r].ref_count > 0
    BY <2>1
  <2> QED
    BY <2>2 DEF MapInv, LockInv, RecordsLocked
<1>2. \A r \in Ids : ~rec'[r].empty => rec'[r].linked
  <2> SUFFICES ASSUME NEW r \in Ids, ~rec'[r].empty PROVE rec'[r].linked
    OBVIOUS
  <2>0. On(r)' \subseteq Iters
    BY DEF On
  <2>1. rec'[r].ref_count = Cardinality(On(r)') + 1 /\ Cardinality(On(r)') \in Nat
    BY <2>0, FS_Subset, FS_CardinalityType DEF LockInv, RecordsLocked
  <2>2. rec'[r].ref_count > 0
    BY <2>1
  <2> QED
    BY <2>2 DEF LockInv, RecordsLocked
<1>3. Active' = Active
  BY Zenon, <1>1, <1>2 DEF Active, Linked
<1>4. \A r \in Active : Kept(r)
  BY DEF Active, Linked, Kept
<1> QED
  BY <1>3, <1>4 DEF Still

\* rs has the entries of the list of records: only counts and links may differ.
SameEntries(rs) ==
    /\ DOMAIN rs = Ids
    /\ \A r \in Ids : /\ rs[r].key = rec[r].key /\ rs[r].val = rec[r].val
                      /\ rs[r].bucket = rec[r].bucket /\ rs[r].empty = rec[r].empty

\* map_decref_record changes no entry.
LEMMA DecrefEntries ==
  ASSUME rec \in Seq(Recs), NEW c
  PROVE  SameEntries(map_decref_record(rec, c))
<1>1. PICK w : w = [rec[c] EXCEPT !.ref_count = rec[c].ref_count - 1,
                                  !.linked = (rec[c].ref_count > 1)]
  OBVIOUS
<1>2. map_decref_record(rec, c) = [rec EXCEPT ![c] = w]
  BY <1>1, Zenon DEF map_decref_record
<1>3. ASSUME c \in Ids
      PROVE  w.key = rec[c].key /\ w.val = rec[c].val /\ w.bucket = rec[c].bucket /\ w.empty = rec[c].empty
  <2>1. rec[c] \in Recs
    BY <1>3 DEF Ids
  <2> QED
    BY <1>1, <2>1 DEF Recs
<1>4. DOMAIN [rec EXCEPT ![c] = w] = Ids
  BY DEF Ids
<1>5. \A r \in Ids : [rec EXCEPT ![c] = w][r] = IF r = c THEN w ELSE rec[r]
  BY DEF Ids
<1> QED
  BY <1>2, <1>3, <1>4, <1>5 DEF SameEntries

\* A new iterator is at the start of the list.
LEMMA CreateMeets ==
  ASSUME MapInv, NEW i \in Iters, js_create_map_iterator(i)
  PROVE  Promise!MSIter(i) /\ Still
<1>1. UNCHANGED <<rec, map>>
  BY DEF js_create_map_iterator
<1>2. Still /\ Entries' = Entries
  BY <1>1 DEF Still, Kept, Ids, Active, Linked, Entries
<1> QED
  BY <1>1, <1>2 DEF js_create_map_iterator, Promise!MSIter, Promise!At

\* An iterator that is freed changes no entry.
LEMMA FinalizerMeets ==
  ASSUME MapInv, IsFiniteSet(Iters), NEW i \in Iters, js_map_iterator_finalizer(i)
  PROVE  Promise!MSFree(i) /\ Still
<1>1. LockInv'
  BY FinalizerKeeps DEF MapInv
<1>2. SameEntries(rec')
  <2>1. SameEntries(rec)
    BY DEF SameEntries, Ids
  <2>2. SameEntries(map_decref_record(rec, iter[i].cur))
    BY DecrefEntries DEF MapInv, LockInv
  <2> QED
    BY <2>1, <2>2 DEF js_map_iterator_finalizer
<1>3. Ids' = Ids /\ map' = map
  BY <1>2 DEF SameEntries, Ids, js_map_iterator_finalizer
<1>4. Still
  BY <1>1, <1>2, <1>3, CountsOnly DEF SameEntries
<1>5. Entries' = Entries
  BY <1>1, <1>4, StillKeeps
<1> QED
  BY <1>4, <1>5 DEF js_map_iterator_finalizer, Promise!MSFree, Promise!At

\* js_map_iterator_next goes to the first entry behind the one it is at, whatever was
\* deleted or added since, and to no deleted one.
LEMMA NextMeets ==
  ASSUME MapInv, IsFiniteSet(Iters), NEW i \in Iters, js_map_iterator_next(i)
  PROVE  Promise!MSNext(i) /\ Still
<1> DEFINE cur == iter[i].cur
           rs == IF cur = 0 THEN rec ELSE map_decref_record(rec, cur)
           ahead == {r \in Active : r > cur}
<1>0. /\ rec \in Seq(Recs) /\ iter \in [Iters -> Iterators] /\ iter[i] \in Iterators
      /\ (cur # 0 => iter[i].state = "on")
  BY DEF MapInv, LockInv, Standing
<1>1. LockInv' /\ map' = map
  BY IteratorNextKeeps DEF MapInv, js_map_iterator_next
<1>2. SameEntries(rec) /\ SameEntries(rs)
  BY <1>0, DecrefEntries DEF SameEntries, Ids
<1>3. ahead = {j \in Promise!Present : j > iter[i].cur}
  BY Presents
<1>4. ASSUME SameEntries(rec') PROVE Still /\ Entries' = Entries
  <2>1. Ids' = Ids
    BY <1>4 DEF SameEntries, Ids
  <2>2. Still
    BY <1>1, <1>4, <2>1, CountsOnly DEF SameEntries
  <2> QED
    BY <1>1, <2>2, StillKeeps
<1>5. CASE iter[i].state = "done"
  <2>1. iter' = iter /\ ret' = <<"done">> /\ rec' = rec
    BY <1>5 DEF js_map_iterator_next
  <2>2. Still /\ Entries' = Entries
    BY <1>2, <1>4, <2>1
  <2>3. iter[i] = [state |-> "done", cur |-> 0]
    BY <1>0, <1>5 DEF Iterators
  <2>4. iter = [iter EXCEPT ![i] = [state |-> "done", cur |-> 0]]
    BY <1>0, <2>3
  <2> QED
    BY <1>5, <2>1, <2>2, <2>4 DEF Promise!MSNext, Promise!At
<1>6. CASE iter[i].state = "on" /\ ahead = {}
  <2>1. /\ iter' = [iter EXCEPT ![i] = [state |-> "done", cur |-> 0]]
        /\ ret' = <<"done">> /\ rec' = rs
    BY <1>6 DEF js_map_iterator_next
  <2>2. Still /\ Entries' = Entries
    BY <1>2, <1>4, <2>1
  <2> QED
    BY <1>3, <1>6, <2>1, <2>2 DEF Promise!MSNext, Promise!At
<1>7. CASE iter[i].state = "on" /\ ahead # {}
  <2> HIDE DEF rs, ahead
  <2>1. PICK r \in ahead :
           /\ \A s \in ahead : r <= s
           /\ rec' = [rs EXCEPT ![r] = [rs[r] EXCEPT !.ref_count = rs[r].ref_count + 1]]
           /\ iter' = [iter EXCEPT ![i] = [iter[i] EXCEPT !.cur = r]]
           /\ ret' = <<"next", [key |-> rec[r].key, val |-> rec[r].val]>>
    BY <1>7 DEF js_map_iterator_next, rs, ahead
  <2>2. r \in Active /\ r \in Ids /\ ahead \subseteq Nat
    BY <1>0, ActiveFinite DEF ahead
  <2>3. r = Promise!Min(ahead)
    <3>1. \A s \in ahead : (\A u \in ahead : s <= u) => s = r
      BY <2>1, <2>2
    <3> QED
      BY <2>1, <3>1 DEF Promise!Min
  <2>4. SameEntries(rec')
    <3> DEFINE w == [rs[r] EXCEPT !.ref_count = rs[r].ref_count + 1]
    <3>1. DOMAIN rs = Ids /\ DOMAIN rec' = Ids
      BY <1>2, <2>1 DEF SameEntries
    <3>2. \A s \in Ids : rec'[s] = IF s = r THEN w ELSE rs[s]
      BY <2>1, <3>1
    <3>3. w.key = rs[r].key /\ w.val = rs[r].val /\ w.bucket = rs[r].bucket /\ w.empty = rs[r].empty
      OBVIOUS
    <3> QED
      BY <1>2, <3>1, <3>2, <3>3, ZenonT(30) DEF SameEntries
  <2>5. Still /\ Entries' = Entries
    BY <1>4, <2>4
  <2>6. ret' = <<"next", Entries[r]>>
    BY <2>1, <2>2, Presents
  <2>7. [iter[i] EXCEPT !.cur = r] = [state |-> "on", cur |-> r]
    BY <1>0, <1>7 DEF Iterators
  <2> QED
    BY <1>3, <1>7, <2>1, <2>3, <2>5, <2>6, <2>7, Zenon DEF Promise!MSNext, Promise!At
<1>8. iter[i].state \in {"on", "done"}
  BY <1>0 DEF js_map_iterator_next, Iterators
<1> QED
  BY <1>5, <1>6, <1>7, <1>8

\* Deleting a key empties its entry and no other one.
LEMMA DeleteMeets ==
  ASSUME MapInv, IsFiniteSet(Iters), NEW k \in Keys, js_map_delete(k)
  PROVE  Promise!MSDelete(k) /\ MapInv'
<1> DEFINE found == map_find_record(map_normalize_key(k))
<1>0. rec \in Seq(Recs) /\ LockInv' /\ DOMAIN Entries = Ids /\ map \in Tables /\ IsFiniteSet(Active)
  BY MapDeleteKeeps, ActiveFinite DEF MapInv, LockInv, Entries
<1>1. Promise!Find(k) = found
  BY Presents
<1>2. CASE found = {}
  <2>1. UNCHANGED <<rec, map, iter>> /\ ret' = <<"delete", FALSE>>
    BY <1>2, Zenon DEF js_map_delete
  <2>2. Still
    BY <2>1 DEF Still, Kept, Ids, Active, Linked
  <2>3. MapInv' /\ Entries' = Entries
    BY <1>0, <2>2, StillKeeps
  <2>4. Entries = [r \in Ids |-> IF r \in found THEN Promise!Empty ELSE Entries[r]]
    <3>1. Entries = [r \in Ids |-> Entries[r]]
      BY DEF Entries
    <3> QED
      BY <1>2, <3>1
  <2> QED
    BY <1>0, <1>1, <1>2, <2>1, <2>3, <2>4, Zenon DEF Promise!MSDelete
<1>3. CASE found # {}
  <2>1. PICK d \in found : /\ rec' = map_delete_record(rec, d) /\ ret' = <<"delete", TRUE>>
                           /\ map' = [map EXCEPT !.record_count = @ - 1] /\ iter' = iter
    BY <1>3, Zenon DEF js_map_delete
  <2>2. found = {d} /\ d \in Active /\ d \in Ids
    <3>1. \A s \in found : s = d
      BY <2>1, Finds
    <3>2. d \in Active
      BY <2>1 DEF map_find_record
    <3> QED
      BY <1>0, <2>1, <3>1, <3>2, ActiveFinite
  <2>3. /\ Ids' = Ids /\ rec'[d].empty = TRUE
        /\ \A r \in Ids : r # d => rec'[r] = rec[r]
    BY <2>1, <2>2 DEF map_delete_record, Ids
  <2>4. Active' = Active \ {d} /\ \A r \in Active' : Kept(r)
    BY Zenon, <2>3 DEF Active, Linked, Kept
  <2>5. Entries' = [r \in Ids |-> IF r \in found THEN Promise!Empty ELSE Entries[r]]
    <3>1. \A r \in Ids : r \in Active' => Entries'[r] = Entries[r]
      <4> TAKE r \in Ids
      <4>1. Entries'[r] = IF r \in Active' THEN [key |-> rec'[r].key, val |-> rec'[r].val]
                          ELSE [empty |-> TRUE]
        BY <2>3 DEF Entries
      <4>2. Entries[r] = IF r \in Active THEN [key |-> rec[r].key, val |-> rec[r].val]
                         ELSE [empty |-> TRUE]
        BY DEF Entries
      <4> QED
        BY <2>4, <4>1, <4>2 DEF Kept
    <3>2. \A r \in Ids : r \notin Active' => Entries'[r] = Promise!Empty
      BY <2>3 DEF Entries, Promise!Empty
    <3>3. \A r \in Ids : r \notin Active => Entries[r] = Promise!Empty
      BY Presents
    <3>4. \A r \in Ids : Entries'[r] = IF r \in found THEN Promise!Empty ELSE Entries[r]
      BY Zenon, <2>2, <2>4, <3>1, <3>2, <3>3
    <3>5. Entries' = [r \in Ids |-> Entries'[r]]
      BY <2>3 DEF Entries
    <3> QED
      BY Zenon, <3>4, <3>5
  <2>6. map'.record_count = map.record_count - 1 /\ map'.hash_size = map.hash_size
    BY <1>0, <2>1 DEF Tables
  <2>7. TableMatchesList'
    <3>1. map'.record_count = Cardinality(Active')
      BY <1>0, <2>2, <2>4, <2>6, FS_RemoveElement, Zenon DEF MapInv, TableMatchesList
    <3> QED
      BY <2>4, <2>6, <3>1 DEF MapInv, TableMatchesList, Kept
  <2>8. Normalized'
    BY <2>4 DEF MapInv, Normalized, Kept
  <2> QED
    BY <1>0, <1>1, <1>3, <2>1, <2>5, <2>7, <2>8, Zenon DEF Promise!MSDelete, MapInv
<1> QED
  BY <1>2, <1>3

\* Clearing empties every entry.
LEMMA ClearMeets ==
  ASSUME MapInv, IsFiniteSet(Iters), js_map_clear
  PROVE  Promise!MSClear /\ MapInv'
<1>1. LockInv' /\ rec \in Seq(Recs) /\ DOMAIN Entries = Ids /\ map \in Tables
  BY ClearKeeps DEF MapInv, LockInv, Entries
<1>2. Ids' = Ids /\ \A r \in Active : rec'[r].empty = TRUE
  <2>1. rec' = [r \in Ids |-> IF r \in Active THEN map_delete_record(rec, r)[r] ELSE rec[r]]
    BY DEF js_map_clear
  <2>2. \A r \in Active : r \in Ids /\ map_delete_record(rec, r)[r].empty = TRUE
    BY <1>1, ActiveFinite DEF map_delete_record, Ids
  <2> QED
    BY <2>1, <2>2 DEF Ids
<1>3. \A r \in Ids : r \notin Active => rec'[r] = rec[r]
  BY DEF js_map_clear
<1>4. Active' = {}
  BY Zenon, <1>2, <1>3 DEF Active, Linked
<1>5. Entries' = [r \in Ids |-> Promise!Empty]
  BY <1>2, <1>4 DEF Entries, Promise!Empty
<1>6. map'.record_count = 0
  BY <1>1 DEF js_map_clear, Tables
<1>7. TableMatchesList' /\ Normalized'
  BY <1>4, <1>6, FS_EmptySet DEF TableMatchesList, Normalized
<1> QED
  BY <1>1, <1>5, <1>7 DEF js_map_clear, Promise!MSClear, MapInv

\* Setting the value of a key that is there.
LEMMA ReplaceMeets ==
  ASSUME MapInv, LockInv', NEW k \in Keys, NEW v \in Vals, js_map_set(k, v),
         map_find_record(map_normalize_key(k)) # {}
  PROVE  Promise!MSSet(k, v) /\ MapInv'
<1> DEFINE found == map_find_record(map_normalize_key(k))
<1>1. /\ rec' = [r \in Ids |-> IF r \in found THEN [rec[r] EXCEPT !.val = v] ELSE rec[r]]
      /\ UNCHANGED <<map, iter>> /\ ret' = <<>>
  BY DEF js_map_set
<1>2. /\ rec \in Seq(Recs) /\ DOMAIN Entries = Ids /\ Ids' = Ids /\ Active \subseteq Ids
      /\ found \subseteq Active /\ Promise!Find(k) = found
  BY <1>1, ActiveFinite, Presents DEF MapInv, LockInv, Entries, Ids, map_find_record
<1> HIDE DEF found
<1>3. ASSUME NEW r \in Ids
      PROVE  /\ rec'[r].key = rec[r].key /\ rec'[r].bucket = rec[r].bucket
             /\ rec'[r].linked = rec[r].linked /\ rec'[r].empty = rec[r].empty
             /\ rec'[r].val = IF r \in found THEN v ELSE rec[r].val
  <2>1. rec[r] \in Recs
    BY <1>2 DEF Ids
  <2>2. CASE r \in found
    <3>1. rec'[r] = [rec[r] EXCEPT !.val = v]
      BY <1>1, <2>2
    <3> QED
      BY <2>1, <2>2, <3>1 DEF Recs
  <2>3. CASE r \notin found
    BY <1>1, <2>3
  <2> QED
    BY <2>2, <2>3
<1>4. Active' = Active
  BY Zenon, <1>2, <1>3 DEF Active, Linked
<1>5. TableMatchesList'
  BY <1>1, <1>2, <1>3, <1>4 DEF MapInv, TableMatchesList
<1>6. Normalized'
  BY <1>2, <1>3, <1>4 DEF MapInv, Normalized
<1>7. Entries' = [r \in Ids |-> IF r \in found THEN [Entries[r] EXCEPT !.val = v] ELSE Entries[r]]
  <2>1. ASSUME NEW r \in Ids
        PROVE  Entries'[r] = IF r \in found THEN [Entries[r] EXCEPT !.val = v] ELSE Entries[r]
    <3>1. Entries'[r] = IF r \in Active' THEN [key |-> rec'[r].key, val |-> rec'[r].val]
                        ELSE [empty |-> TRUE]
      BY <1>2 DEF Entries
    <3>2. Entries[r] = IF r \in Active THEN [key |-> rec[r].key, val |-> rec[r].val]
                       ELSE [empty |-> TRUE]
      BY DEF Entries
    <3>3. CASE r \in found
      <4>1. Entries[r] = [key |-> rec[r].key, val |-> rec[r].val]
        BY <1>2, <3>2, <3>3
      <4>2. [Entries[r] EXCEPT !.val = v] = [key |-> rec[r].key, val |-> v]
        BY <4>1
      <4> QED
        BY <1>2, <1>3, <1>4, <3>1, <3>3, <4>2
    <3>4. CASE r \notin found
      BY <1>3, <1>4, <3>1, <3>2, <3>4
    <3> QED
      BY <3>3, <3>4
  <2>2. Entries' = [r \in Ids |-> Entries'[r]]
    BY <1>2 DEF Entries
  <2> QED
    BY Zenon, <2>1, <2>2
<1> QED
  BY <1>1, <1>2, <1>5, <1>6, <1>7 DEF Promise!MSSet, MapInv, found

\* Adding a key: a new entry at the end of the list, in its bucket, and every record in
\* its bucket of the new table if the table grows.
LEMMA AddMeets ==
  ASSUME MapInv, LockInv', NEW k \in Keys, NEW v \in Vals, js_map_set(k, v),
         map_find_record(map_normalize_key(k)) = {}
  PROVE  Promise!MSSet(k, v) /\ MapInv'
<1> DEFINE key == map_normalize_key(k)
           new == [key |-> key, val |-> v, linked |-> TRUE, empty |-> FALSE, ref_count |-> 1,
                   bucket |-> Hash[key] % map.hash_size]
           rs == Append(rec, new)
<1>1. map_add_record(key, v) /\ iter' = iter /\ ret' = <<>>
  BY DEF js_map_set
<1>2. /\ rec \in Seq(Recs) /\ Ids = 1..Len(rec) /\ Len(rec) \in Nat /\ Active \subseteq Ids
      /\ map \in Tables /\ IsFiniteSet(Active) /\ Promise!Find(k) = {}
  BY ActiveFinite, Presents DEF MapInv, LockInv
<1>3. PICK n : n = Len(rec) + 1
  OBVIOUS
<1>4. key \in AllKeys /\ map_normalize_key(key) = key
  BY DEF map_normalize_key, AllKeys
<1>5. new \in Recs
  BY <1>2, <1>4 DEF Recs, Tables, Buckets
<1>6. /\ rs \in Seq(Recs) /\ Len(rs) = n /\ rs[n] = new
      /\ \A r \in 1..Len(rec) : rs[r] = rec[r]
  BY <1>2, <1>3, <1>5, AppendSeq
<1>7. n \in Nat /\ 1..n = Ids \cup {n} /\ n \notin Ids /\ DOMAIN rs = 1..n
  BY <1>2, <1>3, <1>6
<1>8. \A r \in 1..n : rs[r].linked /\ ~rs[r].empty <=> r \in Active \/ r = n
  BY <1>2, <1>6, <1>7 DEF Active, Linked
<1> HIDE DEF rs, key
<1>9. /\ Ids' = 1..n
      /\ \A r \in 1..n : /\ rec'[r].key = rs[r].key /\ rec'[r].val = rs[r].val
                         /\ rec'[r].linked = rs[r].linked /\ rec'[r].empty = rs[r].empty
                         /\ rs[r].linked /\ ~rs[r].empty =>
                              rec'[r].bucket = Hash[rs[r].key] % map'.hash_size
      /\ map'.record_count = map.record_count + 1
  <2>1. CASE map.record_count + 1 >= map.threshold
    <3>1. PICK size : /\ rec' = map_hash_resize(rs, size)
                      /\ map' = [record_count |-> map.record_count + 1,
                                 hash_size |-> size, threshold |-> size * 2]
      BY <1>1, <2>1 DEF map_add_record, rs
    <3>2. map'.hash_size = size /\ map'.record_count = map.record_count + 1
      BY <3>1
    <3>3. DOMAIN rec' = 1..n
      BY <1>7, <3>1 DEF map_hash_resize
    <3>4. ASSUME NEW r \in 1..n
          PROVE  /\ rec'[r].key = rs[r].key /\ rec'[r].val = rs[r].val
                 /\ rec'[r].linked = rs[r].linked /\ rec'[r].empty = rs[r].empty
                 /\ rs[r].linked /\ ~rs[r].empty => rec'[r].bucket = Hash[rs[r].key] % size
      <4>1. rs[r] \in Recs
        BY <1>6, <1>7
      <4>2. PICK b : b = Hash[rs[r].key] % size
        OBVIOUS
      <4>3. rec'[r] = IF rs[r].linked /\ ~rs[r].empty THEN [rs[r] EXCEPT !.bucket = b] ELSE rs[r]
        BY <1>7, <3>1, <4>2 DEF map_hash_resize
      <4> QED
        BY <4>1, <4>2, <4>3 DEF Recs
    <3> QED
      BY <3>2, <3>3, <3>4 DEF Ids
  <2>2. CASE ~(map.record_count + 1 >= map.threshold)
    <3>1. rec' = rs /\ map' = [map EXCEPT !.record_count = map.record_count + 1]
      BY <1>1, <2>2 DEF map_add_record, rs
    <3>2. map'.record_count = map.record_count + 1 /\ map'.hash_size = map.hash_size
      BY <1>2, <3>1 DEF Tables
    <3>3. \A r \in Active : rs[r].bucket = Hash[rs[r].key] % map.hash_size
      BY <1>2, <1>6 DEF MapInv, TableMatchesList
    <3>4. rs[n].bucket = Hash[rs[n].key] % map.hash_size
      BY <1>6
    <3> QED
      BY <1>7, <1>8, <3>1, <3>2, <3>3, <3>4 DEF Ids
  <2> QED
    BY <2>1, <2>2
<1>10. Active' = Active \cup {n}
  <2>1. \A r \in 1..n : r \in Active' <=> rs[r].linked /\ ~rs[r].empty
    BY <1>9 DEF Active, Linked
  <2>2. Active' \subseteq 1..n
    BY <1>9 DEF Active, Linked
  <2> QED
    BY Zenon, <1>2, <1>7, <1>8, <2>1, <2>2
<1>11. /\ rec'[n].key = key /\ rec'[n].val = v
       /\ \A r \in Ids : rec'[r].key = rec[r].key /\ rec'[r].val = rec[r].val
  BY <1>2, <1>6, <1>7, <1>9
<1>12. \A r \in Active : rec[r].key # key
  <2>1. \A r \in Active : ~js_same_value_zero(rec[r].key, k)
    BY Finds
  <2> QED
    BY <2>1, SameValue DEF MapInv, Normalized, key
<1>13. Normalized'
  BY <1>2, <1>4, <1>10, <1>11 DEF MapInv, Normalized
<1>14. TableMatchesList'
  <2>1. map'.record_count = Cardinality(Active')
    <3>1. n \notin Active
      BY <1>2, <1>7
    <3>2. Cardinality(Active') = Cardinality(Active) + 1
      BY <1>2, <1>10, <3>1, FS_AddElement, Zenon
    <3> QED
      BY <1>9, <3>2 DEF MapInv, TableMatchesList
  <2>2. \A r \in Active' : rec'[r].bucket = Hash[rec'[r].key] % map'.hash_size
    BY <1>2, <1>7, <1>8, <1>9, <1>10
  <2>3. \A r, s \in Active' : r # s => rec'[r].key # rec'[s].key
    <3>1. \A r, s \in Active : r # s => rec[r].key # rec[s].key
      BY DEF MapInv, TableMatchesList, js_same_value_zero
    <3> QED
      BY <1>2, <1>10, <1>11, <1>12, <3>1
  <2>4. \A r, s \in Active' : r # s => ~js_same_value_zero(rec'[r].key, rec'[s].key)
    <3> SUFFICES ASSUME NEW r \in Active', NEW s \in Active', r # s
                 PROVE  ~js_same_value_zero(rec'[r].key, rec'[s].key)
      OBVIOUS
    <3>1. map_normalize_key(rec'[r].key) = rec'[r].key /\ map_normalize_key(rec'[s].key) = rec'[s].key
      BY <1>13 DEF Normalized
    <3>2. js_same_value_zero(rec'[r].key, rec'[s].key) <=> rec'[r].key = rec'[s].key
      BY <3>1, SameValue
    <3> QED
      BY <2>3, <3>2
  <2> QED
    BY <2>1, <2>2, <2>4 DEF TableMatchesList
<1>15. Entries' = Append(Entries, [key |-> Promise!Canonical(k), val |-> v])
  <2> DEFINE e == [key |-> key, val |-> v]
             All == [r \in 1..n |-> Entries'[r]]
  <2>1. Entries' = All
    BY <1>9 DEF Entries
  <2>2. ASSUME NEW r \in Ids PROVE Entries'[r] = Entries[r]
    <3>1. Entries'[r] = IF r \in Active' THEN [key |-> rec'[r].key, val |-> rec'[r].val]
                        ELSE [empty |-> TRUE]
      BY <1>7, <1>9 DEF Entries
    <3>2. Entries[r] = IF r \in Active THEN [key |-> rec[r].key, val |-> rec[r].val]
                       ELSE [empty |-> TRUE]
      BY DEF Entries
    <3> QED
      BY <1>7, <1>10, <1>11, <3>1, <3>2
  <2>3. Entries'[n] = e
    BY <1>7, <1>9, <1>10, <1>11 DEF Entries
  <2>4. Entries = [r \in 1..Len(rec) |-> Entries[r]]
    BY <1>2 DEF Entries
  <2>5. Len(Entries) = Len(rec)
    BY <1>2, <2>4
  <2>6. Append(Entries, e) = [r \in 1..n |-> IF r = n THEN e ELSE Entries[r]]
    BY <1>2, <1>3, <2>4, <2>5
  <2>7. All = [r \in 1..n |-> IF r = n THEN e ELSE Entries[r]]
    BY <1>7, <2>2, <2>3
  <2>8. Promise!Canonical(k) = key
    BY DEF Promise!Canonical, key, map_normalize_key
  <2> QED
    BY <2>1, <2>6, <2>7, <2>8, Zenon
<1> QED
  BY <1>1, <1>2, <1>13, <1>14, <1>15 DEF Promise!MSSet, MapInv

-----------------------------------------------------------------------------
\* Every step keeps the invariant and is a step that MapSpec allows.
LEMMA MapStep ==
  ASSUME IsFiniteSet(Iters), MapInv, [MapNext]_mapVars
  PROVE  MapInv' /\ [Promise!MSStep]_<<Entries, iter, ret>>
<1>1. ASSUME NEW k \in Keys, js_map_get(k) PROVE MapInv' /\ Promise!MSGet(k)
  <2>1. LockInv'
    BY <1>1, GetsKeep DEF MapInv, js_map_get
  <2> QED
    BY <1>1, <2>1, GetMeets, StillKeeps
<1>2. ASSUME js_map_get_size PROVE MapInv' /\ Promise!MSSize
  <2>1. LockInv'
    BY <1>2, GetsKeep DEF MapInv, js_map_get_size
  <2> QED
    BY <1>2, <2>1, SizeMeets, StillKeeps
<1>3. ASSUME NEW k \in Keys, js_map_delete(k) PROVE MapInv' /\ Promise!MSDelete(k)
  BY <1>3, DeleteMeets
<1>4. ASSUME NEW k \in Keys, NEW v \in Vals, js_map_set(k, v) PROVE MapInv' /\ Promise!MSSet(k, v)
  <2>1. LockInv'
    BY <1>4, SetKeeps DEF MapInv
  <2> QED
    BY <1>4, <2>1, ReplaceMeets, AddMeets
<1>5. ASSUME js_map_clear PROVE MapInv' /\ Promise!MSClear
  BY <1>5, ClearMeets
<1>6. ASSUME NEW i \in Iters, js_create_map_iterator(i) PROVE MapInv' /\ Promise!MSIter(i)
  <2>1. LockInv'
    BY <1>6, CreateKeeps DEF MapInv
  <2> QED
    BY <1>6, <2>1, CreateMeets, StillKeeps
<1>7. ASSUME NEW i \in Iters, js_map_iterator_next(i) PROVE MapInv' /\ Promise!MSNext(i)
  <2>1. LockInv'
    BY <1>7, IteratorNextKeeps DEF MapInv
  <2> QED
    BY <1>7, <2>1, NextMeets, StillKeeps
<1>8. ASSUME NEW i \in Iters, js_map_iterator_finalizer(i) PROVE MapInv' /\ Promise!MSFree(i)
  <2>1. LockInv'
    BY <1>8, FinalizerKeeps DEF MapInv
  <2> QED
    BY <1>8, <2>1, FinalizerMeets, StillKeeps
<1>9. ASSUME UNCHANGED mapVars PROVE MapInv' /\ UNCHANGED <<Entries, iter, ret>>
  <2>1. UNCHANGED <<rec, map, iter, ret>>
    BY <1>9 DEF mapVars
  <2>2. LockInv' /\ Still
    BY <2>1, GetsKeep DEF MapInv, Still, Kept, Ids, Active, Linked
  <2> QED
    BY <2>1, <2>2, StillKeeps
<1> QED
  BY Zenon, <1>1, <1>2, <1>3, <1>4, <1>5, <1>6, <1>7, <1>8, <1>9 DEF MapNext, Promise!MSStep

\* A new Map.
LEMMA MapStart ==
  ASSUME MapInit
  PROVE  MapInv /\ Promise!MSInit
<1>1. /\ rec = <<>> /\ map \in Tables /\ map.record_count = 0
      /\ iter = [i \in Iters |-> [state |-> "off", cur |-> 0]]
  BY DEF MapInit, Tables
<1>2. Ids = {} /\ Active = {} /\ rec \in Seq(Recs)
  BY <1>1 DEF Ids, Active, Linked
<1>3. Standing /\ RecordsLocked
  BY <1>1, <1>2 DEF Standing, Iterators, RecordsLocked
<1>4. TableMatchesList /\ Normalized
  BY <1>1, <1>2, FS_EmptySet DEF TableMatchesList, Normalized
<1>5. Entries = <<>>
  BY <1>2 DEF Entries
<1> QED
  BY <1>1, <1>2, <1>3, <1>4, <1>5 DEF MapInit, MapInv, LockInv, Promise!MSInit, Promise!At

\* However many iterators walk a Map while records are added, deleted and cleared,
\* for any keys and any hash function, the reference count of a record is the number
\* of iterators on it and one for the map (map_delete_record, map_decref_record):
\* no iterator stands on a record that has been freed, and no zombie stays behind.
THEOREM RecordsAreLocked == IsFiniteSet(Iters) => (MapRun => []RecordsLocked)
<1> SUFFICES ASSUME IsFiniteSet(Iters) PROVE MapRun => []RecordsLocked
  OBVIOUS
<1>1. MapInit => MapInv
  BY MapStart
<1>2. MapInv /\ [MapNext]_mapVars => MapInv'
  BY MapStep
<1>3. MapInv => RecordsLocked
  BY DEF MapInv, LockInv
<1> QED
  BY <1>1, <1>2, <1>3, PTL DEF MapRun

\* After any sequence of insertions, deletions, clears and resizes of the hash table,
\* with any hash function and threshold, every record is in the bucket that its key is
\* looked for in, no key is there twice, and record_count is the number of entries
\* (map_add_record, map_hash_resize, map_delete_record, js_map_clear).
THEOREM TableIsExact == IsFiniteSet(Iters) => (MapRun => []TableMatchesList)
<1> SUFFICES ASSUME IsFiniteSet(Iters) PROVE MapRun => []TableMatchesList
  OBVIOUS
<1>1. MapInit => MapInv
  BY MapStart
<1>2. MapInv /\ [MapNext]_mapVars => MapInv'
  BY MapStep
<1>3. MapInv => TableMatchesList
  BY DEF MapInv
<1> QED
  BY <1>1, <1>2, <1>3, PTL DEF MapRun

\* The records, the hash table and the iterators of a Map or Set implement the list of
\* entries of ECMAScript, for any keys, values, hash function and finite set of iterators:
\* every operation of quickjs.c is the operation of MapSpec, so an iteration visits each
\* entry that is there when it gets to it, once and in order of insertion, whatever is
\* set, deleted or cleared meanwhile.
THEOREM MapsImplementSpec == IsFiniteSet(Iters) => (MapRun => MapImplementsSpec)
<1> SUFFICES ASSUME IsFiniteSet(Iters) PROVE MapRun => MapImplementsSpec
  OBVIOUS
<1>1. MapInit => MapInv /\ Promise!MSInit
  BY MapStart
<1>2. MapInv /\ [MapNext]_mapVars => MapInv' /\ [Promise!MSStep]_<<Entries, iter, ret>>
  BY MapStep
<1> QED
  BY <1>1, <1>2, PTL DEF MapRun, MapImplementsSpec, Promise!MSSpec
=============================================================================
