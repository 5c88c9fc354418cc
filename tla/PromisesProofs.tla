--------------------------- MODULE PromisesProofs ---------------------------
(* Promises: a promise is settled once, reactions are run once, and the host knows *)
(* the rejections that nobody handles, for any number of promises, pairs and async  *)
(* functions. Promise.all, allSettled and any settle their result exactly when they  *)
(* should, for every length of the iterable; there the invariant ties the counter    *)
(* remainingElementsCount to the elements that have not answered, which is what      *)
(* neither property says and both depend on.                                         *)
EXTENDS Promises, FiniteSetTheorems, TLAPS

Combs ==
    [kind : CombKinds, loop : {"running", "done", "failed"}, index : Nat, count : Nat,
     values : Seq({"hole", "value", "reason"}), called : Seq([BOOLEAN -> BOOLEAN]),
     result : {"pending", "fulfilled", "rejected"}]

\* The elements that the counter still counts.
Open == {i \in DOMAIN comb.called : ~Answered(i)}

\* The counter is one for each of them, and one for the loop until it is done.
CountExact == comb.kind # "race" => comb.count = Cardinality(Open) + IF comb.loop = "done" THEN 0 ELSE 1

CombInv ==
    /\ comb \in Combs
    /\ Len(comb.values) = Len(comb.called)
    /\ CountExact
    /\ \A i \in DOMAIN comb.called : Answered(i) => comb.values[i] # "hole"
    /\ comb.kind # "race" /\ comb.count = 0 => comb.result # "pending"
    /\ ByCount /\ comb.loop # "failed" => comb.count = 0

-----------------------------------------------------------------------------
\* An element of a sequence over S is in S.
LEMMA SeqElement ==
  ASSUME NEW S, NEW q \in Seq(S), NEW i \in 1 .. Len(q)
  PROVE  q[i] \in S
OBVIOUS

\* A sequence without its last element.
LEMMA FrontSeq ==
  ASSUME NEW S, NEW q \in Seq(S), q # <<>>
  PROVE  SubSeq(q, 1, Len(q) - 1) \in Seq(S)
OBVIOUS

\* What is open is finite, since a list of elements is.
LEMMA OpenFinite ==
  ASSUME comb \in Combs
  PROVE  IsFiniteSet(Open) /\ Cardinality(Open) \in Nat
<1>1. DOMAIN comb.called = 1..Len(comb.called) /\ Len(comb.called) \in Nat
  BY DEF Combs
<1>2. IsFiniteSet(1..Len(comb.called))
  BY <1>1, FS_Interval
<1>3. Open \subseteq 1..Len(comb.called)
  BY <1>1 DEF Open
<1> QED
  BY <1>2, <1>3, FS_Subset, FS_CardinalityType, Zenon

\* The invariant says that a settled result is complete.
LEMMA InvCompletes == CombInv => CompleteWhenSettled
<1> SUFFICES ASSUME CombInv, ByCount, comb.loop # "failed"
             PROVE  /\ comb.loop = "done"
                    /\ \A i \in DOMAIN comb.called : Answered(i) /\ comb.values[i] # "hole"
  BY DEF CompleteWhenSettled
<1>1. comb.count = 0 /\ comb.kind # "race"
  BY DEF CombInv, ByCount
<1>2. IsFiniteSet(Open) /\ Cardinality(Open) \in Nat
  BY OpenFinite DEF CombInv
<1>3. comb.loop = "done" /\ Cardinality(Open) = 0
  BY <1>1, <1>2 DEF CombInv, CountExact
<1>4. Open = {}
  BY <1>2, <1>3, FS_EmptySet
<1> QED
  BY <1>3, <1>4 DEF CombInv, Open

\* And that a complete one is settled.
LEMMA InvSettles == CombInv => SettledWhenComplete
<1> SUFFICES ASSUME CombInv, comb.loop = "done", comb.kind # "race",
                    \A i \in DOMAIN comb.called : Answered(i)
             PROVE  comb.result # "pending"
  BY DEF SettledWhenComplete
<1>1. Open = {}
  BY DEF Open
<1>2. Cardinality(Open) = 0
  BY <1>1, FS_EmptySet
<1>3. comb.count = 0
  BY <1>2 DEF CombInv, CountExact
<1> QED
  BY <1>3 DEF CombInv
-----------------------------------------------------------------------------
(* Every step keeps the invariant.                                             *)

\* A step that leaves the flags alone leaves open what was open.
LEMMA OpenKept ==
  ASSUME comb'.called = comb.called, comb'.kind = comb.kind
  PROVE  Open' = Open
BY DEF Open, Answered

\* The iteration fails.
LEMMA FailsKeeps == CombInv /\ CombFails => CombInv'
<1> SUFFICES ASSUME CombInv, CombFails PROVE CombInv'
  OBVIOUS
<1>1. comb \in Combs /\ comb.loop = "running"
  BY DEF CombInv, CombFails
<1>2. PICK r \in {"pending", "fulfilled", "rejected"} :
        comb' = [comb EXCEPT !.loop = "failed", !.result = r] /\ r # "pending"
  BY <1>1, Zenon DEF CombFails, CallResult, Combs
<1>3. Open' = Open
  BY <1>1, <1>2, OpenKept DEF Combs
<1>4. comb' \in Combs
  BY <1>1, <1>2, Zenon DEF Combs
<1>5. CountExact'
  BY <1>1, <1>2, <1>3 DEF CombInv, CountExact, Combs
<1>6. \A i \in DOMAIN comb'.called : Answered(i)' => comb'.values[i] # "hole"
  BY <1>1, <1>2, Zenon DEF CombInv, Answered, Combs
<1> QED
  BY <1>1, <1>2, <1>4, <1>5, <1>6, SMTT(30) DEF CombInv, Combs

\* An element is added: it is open, and counted.
LEMMA AddKeeps == CombInv /\ AddElement => CombInv'
<1> SUFFICES ASSUME CombInv, AddElement PROVE CombInv'
  OBVIOUS
<1> DEFINE fresh == [rej \in BOOLEAN |-> FALSE]
<1>n. PICK n : n = Len(comb.called) + 1
  OBVIOUS
<1>1. comb \in Combs /\ comb.loop = "running" /\ comb.kind # "race"
  BY DEF CombInv, AddElement
<1>2. comb' = [comb EXCEPT !.index = @ + 1, !.count = @ + 1, !.values = Append(@, "hole"),
                           !.called = Append(@, fresh)]
  BY DEF AddElement
<1>3. comb' \in Combs /\ Len(comb'.values) = Len(comb'.called)
  <2>1. fresh \in [BOOLEAN -> BOOLEAN]
    OBVIOUS
  <2>2. /\ Append(comb.called, fresh) \in Seq([BOOLEAN -> BOOLEAN])
        /\ Append(comb.values, "hole") \in Seq({"hole", "value", "reason"})
        /\ Len(Append(comb.called, fresh)) = Len(Append(comb.values, "hole"))
    BY <1>1, <2>1 DEF Combs, CombInv
  <2> DEFINE called == Append(comb.called, fresh)
             values == Append(comb.values, "hole")
  <2>3. comb' = [kind |-> comb.kind, loop |-> comb.loop, index |-> comb.index + 1,
                 count |-> comb.count + 1, values |-> values, called |-> called,
                 result |-> comb.result]
    BY <1>1, <1>2, Zenon DEF Combs
  <2>4. called \in Seq([BOOLEAN -> BOOLEAN]) /\ values \in Seq({"hole", "value", "reason"})
    BY <2>2
  <2> HIDE DEF called, values
  <2>5. comb' \in Combs
    BY <1>1, <2>3, <2>4 DEF Combs
  <2>6. comb'.values = values /\ comb'.called = called
    BY <2>3
  <2> QED
    BY <2>2, <2>5, <2>6 DEF called, values
<1>4. /\ DOMAIN comb.called = 1..Len(comb.called) /\ Len(comb.called) \in Nat
      /\ DOMAIN comb'.called = 1..n
      /\ \A i \in 1..Len(comb.called) :
           comb'.called[i] = comb.called[i] /\ comb'.values[i] = comb.values[i]
      /\ comb'.called[n] = fresh /\ comb'.kind = comb.kind
  BY <1>n, <1>1, <1>2 DEF Combs, CombInv
<1>5. \A i \in 1..Len(comb.called) : Answered(i)' = Answered(i)
  BY <1>4, Zenon DEF Answered
<1>6. ~Answered(n)'
  <2>1. comb'.called[n][TRUE] = FALSE /\ comb'.called[n][FALSE] = FALSE
    BY <1>4
  <2>2. comb'.kind \in {"all", "any", "allSettled"}
    BY <1>1, <1>4 DEF Combs, CombKinds
  <2> QED
    BY <2>1, <2>2, Zenon DEF Answered
<1>7. Open' = Open \cup {n} /\ n \notin Open
  <2>1. 1..n = 1..Len(comb.called) \cup {n} /\ n \notin 1..Len(comb.called)
    BY <1>n, <1>4
  <2> QED
    BY <1>4, <1>5, <1>6, <2>1, SMTT(30) DEF Open
<1>8. Cardinality(Open') = Cardinality(Open) + 1
  BY <1>1, <1>7, OpenFinite, FS_AddElement, SMTT(30)
<1>9. CountExact'
  BY <1>1, <1>2, <1>8, OpenFinite, SMTT(30) DEF CombInv, CountExact, Combs
<1>10. \A i \in DOMAIN comb'.called : Answered(i)' => comb'.values[i] # "hole"
  <2>1. \A i \in 1..n : i = n \/ i \in 1..Len(comb.called)
    BY <1>n, <1>4
  <2> QED
    BY <1>4, <1>5, <1>6, <2>1, SMTT(30) DEF CombInv
<1>11. comb'.count # 0 /\ comb.count # 0
  BY <1>1, <1>2, OpenFinite, SMTT(30) DEF CombInv, CountExact, Combs
<1>12. comb'.result = comb.result /\ comb'.loop = comb.loop /\ comb'.kind = comb.kind
  BY <1>1, <1>2 DEF Combs
<1>13. ~ByCount'
  BY <1>1, <1>11, <1>12, SMTT(30) DEF CombInv, ByCount
<1> QED
  BY <1>3, <1>9, <1>10, <1>11, <1>13, SMTT(30) DEF CombInv

\* The iteration is done: its own count is given back.
LEMMA DoneKeeps == CombInv /\ IterationDone => CombInv'
<1> SUFFICES ASSUME CombInv, IterationDone PROVE CombInv'
  OBVIOUS
<1>1. comb \in Combs /\ comb.loop = "running" /\ comb.kind # "race"
  BY DEF CombInv, IterationDone
<1>2. comb.count = Cardinality(Open) + 1 /\ Cardinality(Open) \in Nat
  BY <1>1, OpenFinite DEF CombInv, CountExact
<1>3. PICK r \in {"pending", "fulfilled", "rejected"} :
        /\ comb' = [comb EXCEPT !.loop = "done", !.count = Cardinality(Open), !.result = r]
        /\ Cardinality(Open) # 0 => r = comb.result
        /\ Cardinality(Open) = 0 => r # "pending"
  <2> DEFINE c == [comb EXCEPT !.loop = "done", !.count = @ - 1]
             m == Cardinality(Open)
  <2>1. /\ c = [comb EXCEPT !.loop = "done", !.count = m]
        /\ c.count = m /\ c.result = comb.result /\ c.kind = comb.kind
    <3>1. comb.count - 1 = m
      BY <1>2
    <3> QED
      BY <1>1, <3>1, Zenon DEF Combs
  <2>2. comb' = IF m = 0 THEN CallResult(c, comb.kind = "any") ELSE c
    BY <2>1, Zenon DEF IterationDone
  <2>3. comb.result \in {"pending", "fulfilled", "rejected"}
    BY <1>1 DEF Combs
  <2>4. m = 0 /\ comb.result = "pending" =>
          \E r \in {"fulfilled", "rejected"} : comb' = [c EXCEPT !.result = r]
    BY <2>1, <2>2, Zenon DEF CallResult
  <2>5. m # 0 \/ comb.result # "pending" => comb' = [c EXCEPT !.result = comb.result]
    <3>1. c = [c EXCEPT !.result = comb.result]
      BY <1>1, Zenon DEF Combs
    <3> QED
      BY <2>1, <2>2, <3>1 DEF CallResult
  <2>6. \A r : [c EXCEPT !.result = r] = [comb EXCEPT !.loop = "done", !.count = m, !.result = r]
    BY <1>1, <2>1, Zenon DEF Combs
  <2> HIDE DEF m, c
  <2> QED
    BY <2>3, <2>4, <2>5, <2>6, ZenonT(30) DEF m
<1>4. Open' = Open
  BY <1>1, <1>3, OpenKept, SMTT(30) DEF Combs
<1>5. comb' \in Combs
  BY <1>1, <1>2, <1>3, Zenon DEF Combs
<1>6. CountExact'
  BY <1>1, <1>2, <1>3, <1>4, SMTT(30) DEF CountExact, Combs
<1>7. \A i \in DOMAIN comb'.called : Answered(i)' => comb'.values[i] # "hole"
  BY <1>1, <1>3, ZenonT(30) DEF CombInv, Answered, Combs
<1>8. ByCount' => comb'.count = 0
  <2>1. CASE Cardinality(Open) = 0
    BY <1>1, <1>3, <2>1 DEF Combs
  <2>2. CASE Cardinality(Open) # 0
    <3>1. comb'.result = comb.result /\ comb'.kind = comb.kind
      BY <1>1, <1>3, <2>2, SMTT(30) DEF Combs
    <3>2. ~ByCount
      BY <1>1, <1>2, <2>2, SMTT(30) DEF CombInv
    <3> QED
      BY <3>1, <3>2 DEF ByCount
  <2> QED
    BY <2>1, <2>2
<1>9. comb'.count = 0 => comb'.result # "pending"
  BY <1>1, <1>3 DEF Combs
<1> QED
  BY <1>1, <1>3, <1>5, <1>6, <1>7, <1>8, <1>9, SMTT(30) DEF CombInv, Combs
\* Nothing is claimed of race but its type.
LEMMA RaceKeeps == CombInv /\ js_promise_race => CombInv'
<1> SUFFICES ASSUME CombInv, js_promise_race PROVE CombInv'
  OBVIOUS
<1> DEFINE fresh == [rej \in BOOLEAN |-> FALSE]
<1>1. comb \in Combs /\ comb.kind = "race"
  BY DEF CombInv, js_promise_race
<1>2. comb' \in Combs /\ comb'.kind = "race" /\ Len(comb'.values) = Len(comb'.called)
  <2>1. CASE comb' = [comb EXCEPT !.loop = "done"]
    BY <1>1, <2>1, Zenon DEF Combs, CombInv
  <2>2. CASE comb' = [comb EXCEPT !.index = @ + 1, !.values = Append(@, "hole"), !.called = Append(@, fresh)]
    <3> DEFINE called == Append(comb.called, fresh)
               values == Append(comb.values, "hole")
    <3>1. comb' = [kind |-> comb.kind, loop |-> comb.loop, index |-> comb.index + 1,
                   count |-> comb.count, values |-> values, called |-> called, result |-> comb.result]
      BY <1>1, <2>2, Zenon DEF Combs
    <3>2. fresh \in [BOOLEAN -> BOOLEAN]
      OBVIOUS
    <3>3. /\ called \in Seq([BOOLEAN -> BOOLEAN]) /\ values \in Seq({"hole", "value", "reason"})
          /\ Len(called) = Len(values)
      BY <1>1, <3>2 DEF Combs, CombInv
    <3> HIDE DEF called, values
    <3> QED
      BY <1>1, <3>1, <3>3 DEF Combs
  <2> QED
    BY <2>1, <2>2 DEF js_promise_race
<1>3. \A i \in DOMAIN comb'.called : ~Answered(i)'
  BY <1>2 DEF Answered
<1> QED
  BY <1>2, <1>3 DEF CombInv, CountExact, ByCount

\* The state with other flags.
LEMMA Called ==
  ASSUME NEW x \in Combs, NEW called
  PROVE  [x EXCEPT !.called = called] =
           [kind |-> x.kind, loop |-> x.loop, index |-> x.index, count |-> x.count, values |-> x.values,
            called |-> called, result |-> x.result]
BY DEF Combs

\* The function of an element that counts.
LEMMA ElementKeeps ==
  ASSUME CombInv, NEW i \in DOMAIN comb.called, NEW rej \in BOOLEAN,
         ~Answered(i), ~comb.called[i][rej],
         \/ comb.kind = "allSettled"
         \/ comb.kind = "all" /\ ~rej
         \/ comb.kind = "any" /\ rej,
         comb' = js_promise_all_resolve_element(comb, i, rej)
  PROVE  CombInv'
<1> DEFINE called == [comb.called EXCEPT ![i][rej] = TRUE]
           values == [comb.values EXCEPT ![i] = IF rej THEN "reason" ELSE "value"]
           c == [kind |-> comb.kind, loop |-> comb.loop, index |-> comb.index, count |-> comb.count - 1,
                 values |-> values, called |-> called, result |-> comb.result]
<1>1. /\ comb \in Combs /\ DOMAIN comb.called = 1..Len(comb.called) /\ Len(comb.called) \in Nat
      /\ Len(comb.values) = Len(comb.called)
  BY DEF CombInv, Combs
<1>a. /\ called \in Seq([BOOLEAN -> BOOLEAN]) /\ Len(called) = Len(comb.called)
      /\ values \in Seq({"hole", "value", "reason"}) /\ Len(values) = Len(comb.values)
      /\ comb.count - 1 \in Int
  BY <1>1 DEF Combs
<1>2. c = [comb EXCEPT !.called[i][rej] = TRUE, !.values[i] = IF rej THEN "reason" ELSE "value",
                       !.count = @ - 1]
  <2> DEFINE y == [comb EXCEPT !.called = called]
             z == [y EXCEPT !.values = values]
  <2>1. y = [kind |-> comb.kind, loop |-> comb.loop, index |-> comb.index, count |-> comb.count,
             values |-> comb.values, called |-> called, result |-> comb.result]
    <3> HIDE DEF called
    <3> QED
      BY <1>1, Called, Zenon
  <2>2. z = [kind |-> comb.kind, loop |-> comb.loop, index |-> comb.index, count |-> comb.count,
             values |-> values, called |-> called, result |-> comb.result]
    <3> HIDE DEF y, called, values
    <3> QED
      BY ONLY <2>1 DEF z
  <2>3. c = [z EXCEPT !.count = comb.count - 1]
    <3> HIDE DEF z, called, values
    <3> QED
      BY ONLY <2>2 DEF c
  <2>4. [z EXCEPT !.count = comb.count - 1]
          = [comb EXCEPT !.called[i][rej] = TRUE,
                         !.values[i] = IF rej THEN "reason" ELSE "value", !.count = @ - 1]
    BY <1>1, Zenon DEF Combs
  <2> QED
    BY <2>3, <2>4
<1>3. comb' = IF c.count = 0 THEN CallResult(c, comb.kind = "any") ELSE c
  BY <1>2, Zenon DEF js_promise_all_resolve_element
<1>5. /\ called[i][rej] = TRUE /\ \A b \in BOOLEAN : comb.called[i][b] => called[i][b]
      /\ \A k \in DOMAIN comb.called : k # i => called[k] = comb.called[k] /\ values[k] = comb.values[k]
      /\ values[i] # "hole"
  BY <1>1 DEF Combs
<1>6. IsFiniteSet(Open) /\ Cardinality(Open) \in Nat /\ i \in Open
  BY <1>1, OpenFinite, Zenon DEF Open
<1>7. Cardinality(Open \ {i}) = Cardinality(Open) - 1 /\ Cardinality(Open \ {i}) \in Nat
  BY <1>6, FS_RemoveElement, FS_CardinalityType, Zenon
<1> HIDE DEF called, values
<1>8. PICK r \in {"pending", "fulfilled", "rejected"} :
        /\ comb' = [c EXCEPT !.result = r]
        /\ c.count # 0 => r = comb.result
        /\ c.count = 0 => r # "pending"
  <2>1. c = [c EXCEPT !.result = comb.result] /\ c.result = comb.result
    OBVIOUS
  <2>2. comb.result \in {"pending", "fulfilled", "rejected"}
    BY <1>1, Zenon DEF Combs
  <2>3. c.count = 0 /\ comb.result = "pending" =>
          \E r \in {"fulfilled", "rejected"} : comb' = [c EXCEPT !.result = r]
    BY <1>3, <2>1, SMTT(30) DEF CallResult
  <2>4. c.count # 0 \/ comb.result # "pending" => comb' = [c EXCEPT !.result = comb.result]
    BY <1>3, <2>1 DEF CallResult
  <2> HIDE DEF c
  <2> QED
    BY <2>2, <2>3, <2>4, Zenon
<1>9. /\ comb'.kind = comb.kind /\ comb'.loop = comb.loop /\ comb'.count = comb.count - 1
      /\ comb'.called = called /\ comb'.values = values /\ comb'.result = r
  BY <1>8
<1>10. comb.kind # "race" /\ comb.count = Cardinality(Open) + IF comb.loop = "done" THEN 0 ELSE 1
  BY DEF CombInv, CountExact
<1>11. comb' \in Combs
  <2>1. comb.count - 1 \in Nat
    BY <1>6, <1>7, <1>10, SMTT(30)
  <2>2. comb' = [kind |-> comb.kind, loop |-> comb.loop, index |-> comb.index,
                 count |-> comb.count - 1, values |-> values, called |-> called, result |-> r]
    BY <1>8
  <2> QED
    BY <1>1, <1>a, <2>1, <2>2, SMTT(30) DEF Combs
<1>12. Answered(i)' /\ \A k \in DOMAIN comb.called : k # i => Answered(k)' = Answered(k)
  BY <1>5, <1>9, Zenon DEF Answered
<1>13. DOMAIN comb'.called = DOMAIN comb.called
  BY <1>1, <1>a, <1>9, SMTT(30)
<1>14. Open' = Open \ {i}
  BY <1>12, <1>13, Zenon DEF Open
<1>15. CountExact'
  BY <1>6, <1>7, <1>9, <1>10, <1>14, SMTT(30) DEF CountExact
<1>16. \A k \in DOMAIN comb'.called : Answered(k)' => comb'.values[k] # "hole"
  BY <1>5, <1>9, <1>12, <1>13, SMTT(30) DEF CombInv
<1>17. ByCount' /\ comb'.loop # "failed" => comb'.count = 0
  <2>1. CASE comb.count - 1 = 0
    BY <1>9, <2>1, Zenon
  <2>2. CASE comb.count - 1 # 0
    <3>1. comb'.result = comb.result
      BY <1>8, <1>9, <2>2, SMTT(30)
    <3>2. comb.count # 0
      BY <1>6, <1>10, FS_EmptySet, SMTT(30)
    <3> QED
      BY <1>9, <3>1, <3>2, SMTT(30) DEF CombInv, ByCount
  <2> QED
    BY <2>1, <2>2, Zenon
<1>18. comb'.count = 0 => comb'.result # "pending"
  BY <1>8, <1>9, Zenon
<1> QED
  BY <1>1, <1>a, <1>9, <1>11, <1>15, <1>16, <1>17, <1>18, Zenon DEF CombInv
\* A function of the result itself, which race passes to every element, all for
\* rejections and any for values: it leaves the counter alone.
LEMMA ResultKeeps ==
  ASSUME CombInv, NEW i \in DOMAIN comb.called, NEW rej \in BOOLEAN,
         \/ comb.kind = "race"
         \/ comb.kind = "all" /\ rej
         \/ comb.kind = "any" /\ ~rej,
         comb' = CallResult([comb EXCEPT !.called[i][rej] = TRUE], rej)
  PROVE  CombInv'
<1> DEFINE called == [comb.called EXCEPT ![i][rej] = TRUE]
           c == [kind |-> comb.kind, loop |-> comb.loop, index |-> comb.index, count |-> comb.count,
                 values |-> comb.values, called |-> called, result |-> comb.result]
<1>1. /\ comb \in Combs /\ DOMAIN comb.called = 1..Len(comb.called) /\ Len(comb.called) \in Nat
      /\ Len(comb.values) = Len(comb.called)
  BY DEF CombInv, Combs
<1>2. c = [comb EXCEPT !.called[i][rej] = TRUE]
  <2>1. c = [comb EXCEPT !.called = called]
    <3> HIDE DEF called
    <3> QED
      BY <1>1, Called, Zenon
  <2>2. [comb EXCEPT !.called = called] = [comb EXCEPT !.called[i][rej] = TRUE]
    BY <1>1, Zenon DEF Combs
  <2> QED
    BY <2>1, <2>2
<1>3. comb' = CallResult(c, rej)
  BY <1>2
<1>4. /\ called \in Seq([BOOLEAN -> BOOLEAN]) /\ Len(called) = Len(comb.called)
      /\ DOMAIN called = DOMAIN comb.called
  BY <1>1 DEF Combs
<1>5. \A k \in DOMAIN comb.called, b \in BOOLEAN : b # rej => called[k][b] = comb.called[k][b]
  BY <1>1 DEF Combs
<1> HIDE DEF called
<1>6. PICK r \in {"pending", "fulfilled", "rejected"} :
        /\ comb' = [c EXCEPT !.result = r]
        /\ comb.result # "pending" => r = comb.result
        /\ comb.result = "pending" => r = IF rej THEN "rejected" ELSE "fulfilled"
  <2>1. c = [c EXCEPT !.result = comb.result] /\ c.result = comb.result
    OBVIOUS
  <2>2. comb.result \in {"pending", "fulfilled", "rejected"}
    BY <1>1 DEF Combs
  <2>3. comb.result # "pending" => comb' = [c EXCEPT !.result = comb.result]
    BY <1>3, <2>1, Zenon DEF CallResult
  <2>4. comb.result = "pending" => comb' = [c EXCEPT !.result = IF rej THEN "rejected" ELSE "fulfilled"]
    BY <1>3, <2>1 DEF CallResult
  <2> HIDE DEF c
  <2> QED
    BY <2>2, <2>3, <2>4, Zenon
<1>7. /\ comb'.kind = comb.kind /\ comb'.loop = comb.loop /\ comb'.count = comb.count
      /\ comb'.called = called /\ comb'.values = comb.values /\ comb'.result = r
  BY <1>6, Zenon
<1>8. comb' \in Combs
  <2>1. comb' = [kind |-> comb.kind, loop |-> comb.loop, index |-> comb.index,
                 count |-> comb.count, values |-> comb.values, called |-> called, result |-> r]
    BY <1>6, Zenon
  <2> QED
    BY <1>1, <1>4, <2>1, SMTT(30) DEF Combs
<1>9. \A k \in DOMAIN comb.called : Answered(k)' = Answered(k)
  BY <1>5, <1>7, Zenon DEF Answered
<1>10. Open' = Open
  BY <1>4, <1>7, <1>9, SMTT(30) DEF Open
<1>11. CountExact'
  BY <1>7, <1>10, SMTT(30) DEF CombInv, CountExact
<1>12. \A k \in DOMAIN comb'.called : Answered(k)' => comb'.values[k] # "hole"
  BY <1>4, <1>7, <1>9, SMTT(30) DEF CombInv
<1>13. ByCount' => ByCount
  BY <1>6, <1>7, SMTT(30) DEF ByCount
<1>14. r # "pending"
  BY <1>6
<1> QED
  BY <1>1, <1>4, <1>7, <1>8, <1>11, <1>12, <1>13, <1>14, ZenonT(30) DEF CombInv

\* An element settles: its resolve or its reject function is called.
LEMMA SettlesKeeps ==
  ASSUME CombInv, NEW i \in DOMAIN comb.called, NEW rej \in BOOLEAN, ElementSettles(i, rej)
  PROVE  CombInv'
<1>1. comb \in Combs /\ comb.kind \in CombKinds /\ comb.called[i] \in [BOOLEAN -> BOOLEAN]
  BY DEF CombInv, Combs
<1> DEFINE counts == comb.kind = "allSettled" \/ (comb.kind = "all" /\ ~rej) \/ (comb.kind = "any" /\ rej)
<1>2. CASE counts
  <2>1. comb' = js_promise_all_resolve_element(comb, i, rej) /\ comb' # comb
    BY <1>2 DEF ElementSettles, ElementCall
  <2>2. ~comb.called[i][rej]
    BY <2>1 DEF js_promise_all_resolve_element
  <2>3. ~Answered(i)
    <3>1. comb.kind = "allSettled" => ~comb.called[i][~rej]
      BY DEF ElementSettles
    <3>2. comb.kind = "allSettled" => ~comb.called[i][TRUE] /\ ~comb.called[i][FALSE]
      BY <2>2, <3>1, Zenon
    <3> QED
      BY <1>2, <2>2, <3>2, Zenon DEF Answered
  <2> QED
    BY <1>2, <2>1, <2>2, <2>3, ElementKeeps, SMTT(30)
<1>3. CASE ~counts
  <2>1. comb' = CallResult([comb EXCEPT !.called[i][rej] = TRUE], rej)
    BY <1>3 DEF ElementSettles, ElementCall
  <2>2. comb.kind = "race" \/ (comb.kind = "all" /\ rej) \/ (comb.kind = "any" /\ ~rej)
    BY <1>1, <1>3 DEF CombKinds
  <2> QED
    BY <2>1, <2>2, ResultKeeps, SMTT(30)
<1> QED
  BY <1>2, <1>3

-----------------------------------------------------------------------------
\* A new combination satisfies the invariant.
LEMMA InitHolds == CombInit => CombInv
<1> SUFFICES ASSUME CombInit PROVE CombInv
  OBVIOUS
<1>1. PICK k \in CombKinds :
        comb = [kind |-> k, loop |-> "running", index |-> 0, count |-> 1,
                values |-> <<>>, called |-> <<>>, result |-> "pending"]
  BY DEF CombInit
<1>2. comb \in Combs /\ DOMAIN comb.called = {} /\ Len(comb.values) = Len(comb.called)
  BY <1>1 DEF Combs
<1>3. Open = {}
  BY <1>2 DEF Open
<1>4. CountExact
  BY <1>1, <1>3, FS_EmptySet, SMTT(30) DEF CountExact
<1>5. comb.count = 1 /\ ~ByCount
  BY <1>1 DEF ByCount
<1> QED
  BY <1>2, <1>4, <1>5, SMTT(30) DEF CombInv

\* Every step keeps the invariant.
LEMMA StepKeeps == CombInv /\ [CombNext]_comb => CombInv'
<1> SUFFICES ASSUME CombInv, [CombNext]_comb PROVE CombInv'
  OBVIOUS
<1>1. CASE UNCHANGED comb
  BY <1>1, Zenon DEF CombInv, CountExact, Open, Answered, ByCount
<1> QED
  BY <1>1, FailsKeeps, AddKeeps, DoneKeeps, RaceKeeps, SettlesKeeps, Zenon DEF CombNext

\* The invariant holds in every behaviour.
LEMMA CombInvariant == CombSpec => []CombInv
BY InitHolds, StepKeeps, PTL DEF CombSpec

\* For every number of elements, every order in which they answer and every number of
\* times they do: Promise.all and allSettled are fulfilled, and any is rejected, only
\* after the loop has seen every element and each has stored its value
\* (js_promise_all, js_promise_all_resolve_element).
THEOREM ResultIsComplete == CombSpec => []CompleteWhenSettled
BY CombInvariant, InvCompletes, PTL

\* And the result does not stay pending once all of them have.
THEOREM CompleteIsSettled == CombSpec => []SettledWhenComplete
BY CombInvariant, InvSettles, PTL

-----------------------------------------------------------------------------
\* The promises of Pool are distinct.
PoolDistinct == /\ Len(Pool) \in Nat
                /\ \A i, j \in 1 .. Len(Pool) : Pool[i] = Pool[j] => i = j

\* Every value of script code, and the handlers, reactions, jobs and calls that
\* may exist when there are n pairs, the promises of D and the calls of the
\* async functions of C.
Anything == {Pool[i] : i \in 1 .. Len(Pool)} \cup {Plain, Thenable, BadThen, Error, Undefined}
Handlers(n, C) ==
    {NoHandler, <<"user">>} \cup ({"finally"} \X BOOLEAN) \cup ({"value", "throw"} \X Anything)
    \cup ({"resolve", "reject"} \X (1 .. n)) \cup ({"await"} \X C)
Reactions(n, C) == [cap : 0 .. n, handler : Handlers(n, C)]
ReactionJobs(n, C) ==
    [kind : {"reaction"}, cap : 0 .. n, handler : Handlers(n, C), rej : BOOLEAN, arg : Anything]
ThenableJobs(D) == [kind : {"thenable"}, promise : D, thenable : D \cup {Thenable}]
Calls(n, C) == ReactionJobs(n, C) \cup [kind : {"async"}, fn : C] \cup [kind : {"then"}, cap : 1 .. n]

\* The calls of async functions that have been made.
Started(s) == {f \in AsyncFns : s.fn[f].cap # 0}

\* The records of promises.
PromiseRecs(n, C) ==
    [state : {"pending", "fulfilled", "rejected"}, result : Anything, handled : BOOLEAN,
     reactions : [1 .. 2 -> Seq(Reactions(n, C))]]

\* The types of the state; what is named exists.
Shaped(s) ==
    /\ s = [promise |-> s.promise, pair |-> s.pair, jobs |-> s.jobs,
            unhandled |-> s.unhandled, fn |-> s.fn, again |-> s.again]
    /\ s.promise = [p \in DOMAIN s.promise |-> s.promise[p]]
    /\ \A p \in DOMAIN s.promise : s.promise[p] \in PromiseRecs(Len(s.pair), Started(s))
    /\ s.pair \in Seq([promise : DOMAIN s.promise, already : BOOLEAN, given : BOOLEAN])
    /\ s.jobs \in Seq(ReactionJobs(Len(s.pair), Started(s)) \cup ThenableJobs(DOMAIN s.promise))
    /\ s.fn \in [AsyncFns -> [state : {"none", "running", "awaiting", "done", "broken"},
                              cap : 0 .. Len(s.pair)]]

\* The promises are the first ones of Pool.
Taken(s) ==
    /\ IsFiniteSet(DOMAIN s.promise)
    /\ Cardinality(DOMAIN s.promise) <= Len(Pool)
    /\ DOMAIN s.promise = {Pool[i] : i \in 1 .. Cardinality(DOMAIN s.promise)}

\* Who may settle promise p: an unused pair of the list pr, a thenable job of q.
MayPair(pr, p) == \E i \in DOMAIN pr : pr[i].promise = p /\ ~pr[i].already
MayJob(q, p) == \E j \in DOMAIN q : q[j].kind = "thenable" /\ q[j].promise = p

\* No promise has two unused pairs, and none two jobs.
OnePair(pr) == \A i, k \in DOMAIN pr :
    ~pr[i].already /\ ~pr[k].already /\ pr[i].promise = pr[k].promise => i = k
OneJob(q) == \A j, k \in DOMAIN q :
    q[j].kind = "thenable" /\ q[k].kind = "thenable" /\ q[j].promise = q[k].promise => j = k

\* The right to settle a promise is in one hand until it is used.
OneHand(s) ==
    /\ ~s.again
    /\ OnePair(s.pair) /\ OneJob(s.jobs)
    /\ \A p \in DOMAIN s.promise :
          /\ s.promise[p].state = "pending" <=> MayPair(s.pair, p) \/ MayJob(s.jobs, p)
          /\ ~(MayPair(s.pair, p) /\ MayJob(s.jobs, p))

\* The host was told of the rejected promises that nobody handles.
Tracked(s) ==
    s.unhandled = {p \in DOMAIN s.promise : s.promise[p].state = "rejected" /\ ~s.promise[p].handled}

\* The engine's state, and the invariant of the specification.
Sound(s) == Shaped(s) /\ Taken(s) /\ OneHand(s) /\ Tracked(s)
PromiseInv == Sound(js) /\ calls \in Seq(Calls(Len(js.pair), Started(js)))

\* Nothing that a handler or a call names is taken away.
Grows(s, t) == /\ Len(s.pair) <= Len(t.pair)
               /\ DOMAIN s.promise \subseteq DOMAIN t.promise
               /\ Started(s) \subseteq Started(t)

-----------------------------------------------------------------------------
\* A new pair is one more hand for its promise.
LEMMA PairNew ==
  ASSUME NEW D, NEW pr \in Seq([promise : D, already : BOOLEAN, given : BOOLEAN]), NEW p, NEW g \in BOOLEAN,
         OnePair(pr), ~MayPair(pr, p)
  PROVE  LET t == Append(pr, [promise |-> p, already |-> FALSE, given |-> g])
         IN  /\ OnePair(t)
             /\ \A x : MayPair(t, x) <=> MayPair(pr, x) \/ x = p
<1> DEFINE e == [promise |-> p, already |-> FALSE, given |-> g]
           t == Append(pr, e)
<1>1. /\ Len(t) = Len(pr) + 1 /\ Len(pr) \in Nat
      /\ DOMAIN pr = 1 .. Len(pr) /\ DOMAIN t = 1 .. Len(pr) + 1
      /\ \A i \in 1 .. Len(pr) : t[i] = pr[i]
      /\ t[Len(pr) + 1] = e
  OBVIOUS
<1> HIDE DEF t
<1>2. e.promise = p /\ e.already = FALSE
  OBVIOUS
<1>3. OnePair(t)
  BY <1>1, <1>2, SMTT(30) DEF OnePair, MayPair
<1>4. ASSUME NEW x PROVE MayPair(t, x) <=> MayPair(pr, x) \/ x = p
  BY <1>1, <1>2 DEF MayPair
<1> QED
  BY <1>3, <1>4, Zenon DEF t

\* Using a pair takes its promise out of hand.
LEMMA PairUsed ==
  ASSUME NEW D, NEW pr \in Seq([promise : D, already : BOOLEAN, given : BOOLEAN]), NEW i \in DOMAIN pr,
         OnePair(pr), ~pr[i].already
  PROVE  LET t == [pr EXCEPT ![i] = [pr[i] EXCEPT !.already = TRUE]]
         IN  /\ t \in Seq([promise : D, already : BOOLEAN, given : BOOLEAN]) /\ Len(t) = Len(pr)
             /\ OnePair(t)
             /\ \A x : MayPair(t, x) <=> MayPair(pr, x) /\ x # pr[i].promise
<1> DEFINE e == [pr[i] EXCEPT !.already = TRUE]
           t == [pr EXCEPT ![i] = e]
<1>0. pr[i] \in [promise : D, already : BOOLEAN, given : BOOLEAN]
  <2>1. ASSUME NEW S, NEW u \in Seq(S), NEW k \in DOMAIN u PROVE u[k] \in S
    BY <2>1
  <2> QED
    BY <2>1, Zenon
<1>2. e.promise = pr[i].promise /\ e.already /\ e \in [promise : D, already : BOOLEAN, given : BOOLEAN]
  BY <1>0, Zenon
<1> HIDE DEF e
<1>1. /\ t \in Seq([promise : D, already : BOOLEAN, given : BOOLEAN]) /\ Len(t) = Len(pr)
      /\ DOMAIN t = DOMAIN pr
      /\ \A k \in DOMAIN pr : t[k] = IF k = i THEN e ELSE pr[k]
  BY <1>2
<1> HIDE DEF t
<1>3. OnePair(t)
  BY <1>1, <1>2, Zenon DEF OnePair
<1>4. ASSUME NEW x PROVE MayPair(t, x) <=> MayPair(pr, x) /\ x # pr[i].promise
  BY <1>1, <1>2, Zenon DEF MayPair, OnePair
<1> QED
  BY <1>1, <1>3, <1>4, ZenonT(30) DEF t, e

\* Reaction jobs settle no promise by themselves.
LEMMA JobsMore ==
  ASSUME NEW A, NEW B, NEW q \in Seq(A), NEW r \in Seq(B),
         \A j \in DOMAIN r : r[j].kind = "reaction", OneJob(q)
  PROVE  /\ OneJob(q \o r)
         /\ \A x : MayJob(q \o r, x) <=> MayJob(q, x)
<1> DEFINE t == q \o r
<1>1. /\ Len(q) \in Nat /\ Len(r) \in Nat /\ DOMAIN q = 1 .. Len(q) /\ DOMAIN r = 1 .. Len(r)
      /\ DOMAIN t = 1 .. Len(q) + Len(r)
      /\ \A j \in DOMAIN t : t[j] = IF j <= Len(q) THEN q[j] ELSE r[j - Len(q)]
  OBVIOUS
<1> HIDE DEF t
<1>2. \A j \in DOMAIN t : t[j].kind = "thenable" => j \in DOMAIN q /\ t[j] = q[j]
  BY <1>1
<1>3. \A j \in DOMAIN q : j \in DOMAIN t /\ t[j] = q[j]
  BY <1>1
<1>4. OneJob(t)
  BY <1>2 DEF OneJob
<1>5. \A x : MayJob(t, x) <=> MayJob(q, x)
  BY <1>2, <1>3, SMTT(30) DEF MayJob
<1> QED
  BY <1>4, <1>5, SMTT(30) DEF t

\* A thenable job is a hand for its promise.
LEMMA JobNew ==
  ASSUME NEW A, NEW q \in Seq(A), NEW p, NEW v, OneJob(q), ~MayJob(q, p)
  PROVE  LET t == Append(q, [kind |-> "thenable", promise |-> p, thenable |-> v])
         IN  /\ OneJob(t)
             /\ \A x : MayJob(t, x) <=> MayJob(q, x) \/ x = p
<1> DEFINE e == [kind |-> "thenable", promise |-> p, thenable |-> v]
           t == Append(q, e)
<1>1. /\ Len(q) \in Nat
      /\ DOMAIN q = 1 .. Len(q) /\ DOMAIN t = 1 .. Len(q) + 1
      /\ \A i \in 1 .. Len(q) : t[i] = q[i]
      /\ t[Len(q) + 1] = e
  OBVIOUS
<1>2. e.kind = "thenable" /\ e.promise = p
  OBVIOUS
<1> HIDE DEF t, e
<1>3. OneJob(t)
  BY <1>1, <1>2, SMTT(30) DEF OneJob, MayJob
<1>4. ASSUME NEW x PROVE MayJob(t, x) <=> MayJob(q, x) \/ x = p
  BY <1>1, <1>2, SMTT(30) DEF MayJob
<1> QED
  BY <1>3, <1>4, SMTT(30) DEF t, e

\* Taking the first job off the list takes its promise out of its hand.
LEMMA JobTaken ==
  ASSUME NEW A, NEW q \in Seq(A), q # <<>>, OneJob(q)
  PROVE  /\ OneJob(Tail(q))
         /\ \A x : MayJob(Tail(q), x)
                   <=> MayJob(q, x) /\ ~(Head(q).kind = "thenable" /\ Head(q).promise = x)
<1> DEFINE t == Tail(q)
<1>1. /\ Len(q) \in Nat /\ Len(q) > 0 /\ DOMAIN q = 1 .. Len(q) /\ Head(q) = q[1]
      /\ DOMAIN t = 1 .. Len(q) - 1
      /\ \A j \in DOMAIN t : t[j] = q[j + 1]
  OBVIOUS
<1> HIDE DEF t
<1>2. \A j \in DOMAIN t : j + 1 \in DOMAIN q /\ j + 1 # 1 /\ j \in Nat
  BY <1>1, SMTT(30)
<1>3. OneJob(t)
  BY <1>1, <1>2, SMTT(30) DEF OneJob
<1>4. ASSUME NEW x, MayJob(t, x)
      PROVE  MayJob(q, x) /\ ~(Head(q).kind = "thenable" /\ Head(q).promise = x)
  <2>1. PICK j \in DOMAIN t : t[j].kind = "thenable" /\ t[j].promise = x
    BY <1>4, SMTT(30) DEF MayJob
  <2>2. j + 1 \in DOMAIN q /\ j + 1 # 1 /\ q[j + 1].kind = "thenable" /\ q[j + 1].promise = x
    BY <2>1, <1>1, <1>2, SMTT(30)
  <2> QED
    BY <2>2, <1>1, SMTT(30) DEF MayJob, OneJob
<1>5. ASSUME NEW x, MayJob(q, x), ~(Head(q).kind = "thenable" /\ Head(q).promise = x)
      PROVE  MayJob(t, x)
  <2>1. PICK j \in DOMAIN q : q[j].kind = "thenable" /\ q[j].promise = x
    BY <1>5, SMTT(30) DEF MayJob
  <2>2. j # 1
    BY <2>1, <1>5, <1>1, ZenonT(30)
  <2>3. j - 1 \in DOMAIN t /\ t[j - 1] = q[j]
    BY <2>2, <1>1, SMTT(30)
  <2> QED
    BY <2>1, <2>3, SMTT(30) DEF MayJob
<1> QED
  BY <1>3, <1>4, <1>5, Zenon DEF t

\* What is well formed stays so when more pairs, promises and calls exist.
LEMMA SeqMore ==
  ASSUME NEW A, NEW B, A \subseteq B, NEW q \in Seq(A)
  PROVE  q \in Seq(B)
<1>1. \A i \in 1 .. Len(q) : q[i] \in B
  BY SeqElement
<1> QED
  BY <1>1

\* Handlers, reactions, jobs and calls stay well formed when pairs and calls are added.
LEMMA MoreIsFine ==
  ASSUME NEW n \in Nat, NEW m \in Nat, n <= m, NEW C, NEW E, C \subseteq E
  PROVE  /\ Handlers(n, C) \subseteq Handlers(m, E)
         /\ Reactions(n, C) \subseteq Reactions(m, E)
         /\ ReactionJobs(n, C) \subseteq ReactionJobs(m, E)
         /\ Calls(n, C) \subseteq Calls(m, E)
         /\ PromiseRecs(n, C) \subseteq PromiseRecs(m, E)
<1>0. 0 .. n \subseteq 0 .. m /\ 1 .. n \subseteq 1 .. m
  OBVIOUS
<1>1. Handlers(n, C) \subseteq Handlers(m, E)
  <2> SUFFICES ASSUME NEW h \in Handlers(n, C) PROVE h \in Handlers(m, E)
    OBVIOUS
  <2>1. CASE h \in {"resolve", "reject"} \X (1 .. n)
    BY <2>1, <1>0, SMTT(30) DEF Handlers
  <2>2. CASE h \in {"await"} \X C
    BY <2>2, SMTT(30) DEF Handlers
  <2> QED
    BY <2>1, <2>2, SMTT(30) DEF Handlers
<1>2. Reactions(n, C) \subseteq Reactions(m, E)
  BY <1>0, <1>1, SMTT(30) DEF Reactions
<1>3. ReactionJobs(n, C) \subseteq ReactionJobs(m, E)
  BY <1>0, <1>1, SMTT(30) DEF ReactionJobs
<1>5. Calls(n, C) \subseteq Calls(m, E)
  <2>1. [kind : {"async"}, fn : C] \subseteq [kind : {"async"}, fn : E]
    OBVIOUS
  <2>2. [kind : {"then"}, cap : 1 .. n] \subseteq [kind : {"then"}, cap : 1 .. m]
    BY <1>0, SMTT(30)
  <2> QED
    BY <1>3, <2>1, <2>2, SMTT(30) DEF Calls
<1>6. Seq(Reactions(n, C)) \subseteq Seq(Reactions(m, E))
  BY <1>2, SeqMore, SMTT(30)
<1>7. PromiseRecs(n, C) \subseteq PromiseRecs(m, E)
  BY <1>6, Zenon DEF PromiseRecs
<1> QED
  BY <1>1, <1>2, <1>3, <1>5, <1>7, SMTT(30)

\* The same pairs, promises and calls.
Fits(s, t) == /\ Len(t.pair) = Len(s.pair)
              /\ DOMAIN t.promise = DOMAIN s.promise
              /\ t.fn = s.fn

\* All of Sound but that promise p, still pending, is in no hand: the state in
\* which fulfill_or_reject_promise is called.
InFlight(s, p) ==
    /\ Shaped(s) /\ Taken(s) /\ Tracked(s)
    /\ ~s.again /\ OnePair(s.pair) /\ OneJob(s.jobs)
    /\ p \in DOMAIN s.promise /\ s.promise[p].state = "pending"
    /\ ~MayPair(s.pair, p) /\ ~MayJob(s.jobs, p)
    /\ \A x \in DOMAIN s.promise \ {p} :
          /\ s.promise[x].state = "pending" <=> MayPair(s.pair, x) \/ MayJob(s.jobs, x)
          /\ ~(MayPair(s.pair, x) /\ MayJob(s.jobs, x))

\* The reaction jobs of a list of reactions.
LEMMA Queued ==
  ASSUME NEW n \in Nat, NEW C, NEW rds \in Seq(Reactions(n, C)), NEW rej \in BOOLEAN,
         NEW value \in Anything
  PROVE  LET r == [i \in DOMAIN rds |-> ReactionJob(rds[i], rej, value)]
         IN  /\ r \in Seq(ReactionJobs(n, C))
             /\ \A j \in DOMAIN r : r[j].kind = "reaction"
<1>1. \A i \in 1 .. Len(rds) : rds[i] \in Reactions(n, C)
  BY SeqElement
<1>2. DOMAIN rds = 1 .. Len(rds) /\ Len(rds) \in Nat
  OBVIOUS
<1>3. \A i \in 1 .. Len(rds) : ReactionJob(rds[i], rej, value) \in ReactionJobs(n, C)
  BY <1>1, SMTT(30) DEF Reactions, ReactionJobs, ReactionJob
<1>4. [i \in DOMAIN rds |-> ReactionJob(rds[i], rej, value)] \in Seq(ReactionJobs(n, C))
  BY <1>2, <1>3, SMTT(30)
<1> QED
  BY <1>4, SMTT(30) DEF ReactionJob

\* The empty lists of reactions.
LEMMA EmptyReactions ==
  ASSUME NEW S
  PROVE  NoReactions \in [1 .. 2 -> Seq(S)]
<1>1. <<>> \in Seq(S)
  OBVIOUS
<1>2. DOMAIN NoReactions = 1 .. 2 /\ NoReactions[1] = <<>> /\ NoReactions[2] = <<>>
      /\ NoReactions = [k \in 1 .. 2 |-> NoReactions[k]]
  BY DEF NoReactions
<1>3. \A k \in 1 .. 2 : k = 1 \/ k = 2
  OBVIOUS
<1>4. \A k \in 1 .. 2 : NoReactions[k] \in Seq(S)
  BY <1>1, <1>2, <1>3, ZenonT(30)
<1> QED
  BY <1>2, <1>4, SMTT(30)

\* fulfill_or_reject_promise settles a promise that is pending and in no hand.
LEMMA FulfilSound ==
  ASSUME NEW s, NEW p, InFlight(s, p), NEW value \in Anything, NEW rej \in BOOLEAN
  PROVE  LET t == fulfill_or_reject_promise(s, p, value, rej)
         IN  Sound(t) /\ Fits(s, t)
<1> DEFINE n == Len(s.pair)
           C == Started(s)
           q == s.promise[p]
           rds == q.reactions[Side(rej)]
           r == [i \in DOMAIN rds |-> ReactionJob(rds[i], rej, value)]
           q1 == [state |-> IF rej THEN "rejected" ELSE "fulfilled", result |-> value,
                  handled |-> q.handled, reactions |-> NoReactions]
           t == fulfill_or_reject_promise(s, p, value, rej)
<1>1. /\ n \in Nat /\ p \in DOMAIN s.promise /\ q \in PromiseRecs(n, C) /\ q.state = "pending"
      /\ rds \in Seq(Reactions(n, C))
  BY SMTT(30) DEF InFlight, Shaped, PromiseRecs, Side
<1>2. r \in Seq(ReactionJobs(n, C)) /\ \A j \in DOMAIN r : r[j].kind = "reaction"
  BY <1>1, Queued, SMTT(30)
<1>3. q1 \in PromiseRecs(n, C) /\ q1.state # "pending" /\ q1.handled = q.handled
      /\ (q1.state = "rejected" <=> rej)
  <2>1. NoReactions \in [1 .. 2 -> Seq(Reactions(n, C))]
    BY EmptyReactions, SMTT(30)
  <2>2. (IF rej THEN "rejected" ELSE "fulfilled") \in {"pending", "fulfilled", "rejected"}
    OBVIOUS
  <2>3. q.handled \in BOOLEAN
    BY <1>1, SMTT(30) DEF PromiseRecs
  <2>4. q1 \in PromiseRecs(n, C)
    BY <2>1, <2>2, <2>3, SMTT(30) DEF PromiseRecs
  <2> QED
    BY <2>4, SMTT(30)
<1>4. /\ t.promise = [s.promise EXCEPT ![p] = q1]
      /\ t.pair = s.pair /\ t.jobs = s.jobs \o r /\ t.fn = s.fn /\ t.again = s.again
      /\ t.unhandled = IF rej /\ ~q.handled THEN s.unhandled \cup {p} ELSE s.unhandled
      /\ t = [promise |-> t.promise, pair |-> t.pair, jobs |-> t.jobs,
              unhandled |-> t.unhandled, fn |-> t.fn, again |-> t.again]
  BY <1>1, ZenonT(30) DEF InFlight, Shaped, fulfill_or_reject_promise
<1> HIDE DEF t, q1, r
<1>5. /\ DOMAIN t.promise = DOMAIN s.promise
      /\ \A x \in DOMAIN s.promise : t.promise[x] = IF x = p THEN q1 ELSE s.promise[x]
      /\ t.promise = [x \in DOMAIN t.promise |-> t.promise[x]]
      /\ Started(t) = C
  BY <1>4, SMTT(30) DEF InFlight, Shaped, Started
<1>6. s.jobs \o r \in Seq(ReactionJobs(n, C) \cup ThenableJobs(DOMAIN s.promise))
  BY <1>2, SeqMore, SMTT(30) DEF InFlight, Shaped
<1>7. Shaped(t)
  BY <1>3, <1>4, <1>5, <1>6, SMTT(30) DEF InFlight, Shaped
<1>8. OneJob(t.jobs) /\ \A x : MayJob(t.jobs, x) <=> MayJob(s.jobs, x)
  BY <1>2, <1>4, JobsMore, SMTT(30) DEF InFlight, Shaped
<1>9. OneHand(t)
  BY <1>3, <1>4, <1>5, <1>8, SMTT(30) DEF InFlight, OneHand
<1>10. Tracked(t)
  BY <1>1, <1>3, <1>4, <1>5, SMTT(30) DEF InFlight, Tracked
<1>11. Taken(t)
  BY <1>5, Zenon DEF InFlight, Taken
<1> QED
  BY <1>4, <1>5, <1>7, <1>9, <1>10, <1>11, SMTT(30) DEF Sound, Fits, t

\* Promises are values of script code.
LEMMA MadeAreValues ==
  ASSUME PoolDistinct, NEW s, Taken(s)
  PROVE  DOMAIN s.promise \subseteq Anything
BY FS_CardinalityType, SMTT(30) DEF Taken, Anything, PoolDistinct

\* js_promise_resolve_function_call: an unused pair passes its hand to a thenable job or
\* settles the promise; a used one does nothing.
LEMMA ResolveSound ==
  ASSUME NEW s, Sound(s), NEW i \in DOMAIN s.pair, NEW rej \in BOOLEAN, NEW value \in Anything
  PROVE  LET t == js_promise_resolve_function_call(s, i, rej, value)
         IN  Sound(t) /\ Fits(s, t)
<1> DEFINE p == s.pair[i].promise
           pr == [s.pair EXCEPT ![i] = [s.pair[i] EXCEPT !.already = TRUE]]
           s1 == [s EXCEPT !.pair[i] = [s.pair[i] EXCEPT !.already = TRUE]]
           D == DOMAIN s.promise
           t == js_promise_resolve_function_call(s, i, rej, value)
<1>1. CASE s.pair[i].already
  <2>1. t = s
    BY <1>1, SMTT(30) DEF js_promise_resolve_function_call
  <2> QED
    BY <2>1, Zenon DEF Fits
<1>2. CASE ~s.pair[i].already
  <2>1. /\ s1.promise = s.promise /\ s1.pair = pr /\ s1.jobs = s.jobs
        /\ s1.fn = s.fn /\ s1.again = s.again /\ s1.unhandled = s.unhandled
        /\ s1 = [promise |-> s1.promise, pair |-> s1.pair, jobs |-> s1.jobs,
                 unhandled |-> s1.unhandled, fn |-> s1.fn, again |-> s1.again]
    <3>1. s1 = [s EXCEPT !.pair = pr]
      OBVIOUS
    <3> HIDE DEF s1, pr
    <3> QED
      BY <3>1 DEF Sound, Shaped
  <2>2. /\ pr \in Seq([promise : D, already : BOOLEAN, given : BOOLEAN]) /\ Len(pr) = Len(s.pair)
        /\ OnePair(pr)
        /\ \A x : MayPair(pr, x) <=> MayPair(s.pair, x) /\ x # p
    BY <1>2, PairUsed, ZenonT(30) DEF Sound, Shaped, OneHand
  <2>3. MayPair(s.pair, p)
    BY <1>2 DEF MayPair
  <2>4. p \in D
    <3>1. s.pair[i] \in [promise : D, already : BOOLEAN, given : BOOLEAN]
      <4>1. ASSUME NEW S, NEW u \in Seq(S), NEW k \in DOMAIN u PROVE u[k] \in S
        BY <4>1, SMTT(30)
      <4> QED
        BY <4>1, ZenonT(30) DEF Sound, Shaped
    <3> QED
      BY <3>1
  <2> HIDE DEF pr, s1, p
  <2>5. Started(s1) = Started(s)
    BY <2>1, SMTT(30) DEF Started
  <2>6. InFlight(s1, p)
    BY <2>1, <2>2, <2>3, <2>4, <2>5, SMTT(30) DEF Sound, Shaped, OneHand, Tracked, Taken, InFlight
  <2>7. Fits(s, s1)
    BY <2>1, <2>2, SMTT(30) DEF Fits
  <2>8. \A u : Fits(s1, u) => Fits(s, u)
    BY <2>7, SMTT(30) DEF Fits
  <2>9. CASE rej \/ value \notin (D \cup {Thenable, BadThen})
    <3>1. t = fulfill_or_reject_promise(s1, p, value, rej)
      BY <2>9, <1>2, ZenonT(30) DEF js_promise_resolve_function_call, p, s1
    <3> QED
      BY <3>1, <2>6, <2>8, FulfilSound, SMTT(30)
  <2>10. CASE ~rej /\ value \in (D \cup {Thenable, BadThen}) /\ value \in {p, BadThen}
    <3>1. t = fulfill_or_reject_promise(s1, p, Error, TRUE)
      BY <2>10, <1>2, ZenonT(30) DEF js_promise_resolve_function_call, p, s1
    <3>2. Error \in Anything
      BY DEF Anything
    <3> QED
      BY <3>1, <3>2, <2>6, <2>8, FulfilSound, ZenonT(30)
  <2>11. CASE ~rej /\ value \in (D \cup {Thenable, BadThen}) /\ value \notin {p, BadThen}
    <3> DEFINE e == [kind |-> "thenable", promise |-> p, thenable |-> value]
    <3>1. t = [s1 EXCEPT !.jobs = Append(s1.jobs, e)]
      BY <2>11, <1>2, SMTT(30) DEF js_promise_resolve_function_call, p, s1, JS_EnqueueJob
    <3>2. /\ t.promise = s1.promise /\ t.pair = s1.pair /\ t.jobs = Append(s1.jobs, e)
          /\ t.fn = s1.fn /\ t.again = s1.again /\ t.unhandled = s1.unhandled
          /\ t = [promise |-> t.promise, pair |-> t.pair, jobs |-> t.jobs,
                  unhandled |-> t.unhandled, fn |-> t.fn, again |-> t.again]
      BY <3>1, <2>1, ZenonT(30)
    <3> HIDE DEF t
    <3>3. Started(t) = Started(s1)
      BY <3>2 DEF Started
    <3>4. e \in ThenableJobs(D)
      BY <2>11, <2>4, SMTT(30) DEF ThenableJobs
    <3>5. /\ OneJob(t.jobs)
          /\ \A x : MayJob(t.jobs, x) <=> MayJob(s1.jobs, x) \/ x = p
      <4>1. s1.jobs \in Seq(ReactionJobs(Len(s1.pair), Started(s1)) \cup ThenableJobs(DOMAIN s1.promise))
            /\ OneJob(s1.jobs) /\ ~MayJob(s1.jobs, p)
        BY <2>6, Zenon DEF InFlight, Shaped
      <4> QED
        BY <4>1, <3>2, JobNew, SMTT(30)
    <3>6. Shaped(t)
      <4>1. s1.jobs \in Seq(ReactionJobs(Len(s1.pair), Started(s1)) \cup ThenableJobs(D))
        BY <2>6, <2>1, SMTT(30) DEF InFlight, Shaped
      <4> HIDE DEF e
      <4>2. Append(s1.jobs, e) \in Seq(ReactionJobs(Len(s1.pair), Started(s1)) \cup ThenableJobs(D))
        BY <4>1, <3>4, SMTT(30)
      <4> QED
        BY <4>2, <3>2, <3>3, <2>6, <2>1, SMTT(30) DEF InFlight, Shaped
    <3>7. OneHand(t)
      BY <3>2, <3>5, <2>6, SMTT(30) DEF InFlight, OneHand
    <3>8. Taken(t) /\ Tracked(t)
      BY <3>2, <2>6, SMTT(30) DEF InFlight, Taken, Tracked
    <3>9. Fits(s1, t)
      BY <3>2, SMTT(30) DEF Fits
    <3> QED
      BY <3>6, <3>7, <3>8, <3>9, <2>8, SMTT(30) DEF Sound, t
  <2> QED
    BY <2>9, <2>10, <2>11, SMTT(30)
<1> QED
  BY <1>1, <1>2, Zenon

\* js_new_promise_capability: a new promise comes with one hand, its pair.
LEMMA NewCapabilitySound ==
  ASSUME PoolDistinct, NEW s, Sound(s), NEW given \in BOOLEAN,
         Cardinality(DOMAIN s.promise) + 1 <= Len(Pool)
  PROVE  LET t == js_new_promise_capability(s, given)
         IN  /\ Sound(t)
             /\ Len(t.pair) = Len(s.pair) + 1
             /\ DOMAIN t.promise = DOMAIN s.promise \cup {Fresh(s)}
             /\ Cardinality(DOMAIN t.promise) = Cardinality(DOMAIN s.promise) + 1
             /\ t.fn = s.fn
<1> DEFINE p == Fresh(s)
           D == DOMAIN s.promise
           e == [promise |-> p, already |-> FALSE, given |-> given]
           m == [x \in D \cup {p} |-> IF x = p THEN Pending ELSE s.promise[x]]
           t == js_new_promise_capability(s, given)
           n == Cardinality(D)
<1>1. n \in Nat /\ IsFiniteSet(D) /\ D = {Pool[i] : i \in 1 .. n} /\ p = Pool[n + 1]
  BY FS_CardinalityType, SMTT(30) DEF Sound, Taken, Fresh
<1>2. p \notin D
  BY <1>1, SMTT(30) DEF PoolDistinct
<1>3. IsFiniteSet(D \cup {p}) /\ Cardinality(D \cup {p}) = n + 1
  BY <1>1, <1>2, FS_AddElement, Zenon
<1>4. D \cup {p} = {Pool[i] : i \in 1 .. n + 1}
  BY <1>1, SMTT(30)
<1>5. /\ DOMAIN m = D \cup {p}
      /\ \A x \in D \cup {p} : m[x] = IF x = p THEN Pending ELSE s.promise[x]
      /\ m = [x \in D \cup {p} |-> m[x]]
  OBVIOUS
<1>6. /\ t.promise = m /\ t.pair = Append(s.pair, e) /\ t.jobs = s.jobs
      /\ t.fn = s.fn /\ t.again = s.again /\ t.unhandled = s.unhandled
      /\ t = [promise |-> t.promise, pair |-> t.pair, jobs |-> t.jobs,
              unhandled |-> t.unhandled, fn |-> t.fn, again |-> t.again]
  <2>1. t = [[s EXCEPT !.promise = m] EXCEPT !.pair = Append([s EXCEPT !.promise = m].pair, e)]
    BY DEF js_new_promise_capability, js_create_resolving_functions
  <2>2. s = [promise |-> s.promise, pair |-> s.pair, jobs |-> s.jobs,
             unhandled |-> s.unhandled, fn |-> s.fn, again |-> s.again]
    BY DEF Sound, Shaped
  <2> HIDE DEF t, m, e
  <2> QED
    BY <2>1, <2>2, ZenonT(30)
<1> HIDE DEF t, m
<1>7. Started(t) = Started(s)
  BY <1>6, SMTT(30) DEF Started
<1>8. s.pair \in Seq([promise : D, already : BOOLEAN, given : BOOLEAN]) /\ Len(s.pair) \in Nat
  BY DEF Sound, Shaped
<1>9. ~MayPair(s.pair, p) /\ ~MayJob(s.jobs, p)
  <2>1. ASSUME NEW S, NEW u \in Seq(S), NEW k \in DOMAIN u PROVE u[k] \in S
    BY <2>1
  <2>2. \A i \in DOMAIN s.pair : s.pair[i] \in [promise : D, already : BOOLEAN, given : BOOLEAN]
    BY <2>1, <1>8, ZenonT(30)
  <2>3. \A j \in DOMAIN s.jobs : s.jobs[j] \in ReactionJobs(Len(s.pair), Started(s)) \cup ThenableJobs(D)
    BY <2>1, SMTT(30) DEF Sound, Shaped
  <2>4. \A j \in DOMAIN s.jobs : s.jobs[j].kind = "thenable" => s.jobs[j].promise \in D
    BY <2>3 DEF ReactionJobs, ThenableJobs
  <2> QED
    BY <2>2, <2>4, <1>2, Zenon DEF MayPair, MayJob
<1>10. OnePair(t.pair) /\ \A x : MayPair(t.pair, x) <=> MayPair(s.pair, x) \/ x = p
  <2>1. OnePair(s.pair)
    BY DEF Sound, OneHand
  <2> HIDE DEF p, D
  <2>2. OnePair(Append(s.pair, e)) /\ \A x : MayPair(Append(s.pair, e), x) <=> MayPair(s.pair, x) \/ x = p
    BY <2>1, <1>8, <1>9, PairNew, ZenonT(30)
  <2> QED
    BY <2>2, <1>6, ZenonT(30)
<1>11. t.pair \in Seq([promise : D \cup {p}, already : BOOLEAN, given : BOOLEAN])
       /\ Len(t.pair) = Len(s.pair) + 1
  <2>1. s.pair \in Seq([promise : D \cup {p}, already : BOOLEAN, given : BOOLEAN])
    BY <1>8, SeqMore, ZenonT(30)
  <2>2. e \in [promise : D \cup {p}, already : BOOLEAN, given : BOOLEAN]
    BY SMTT(30)
  <2> HIDE DEF e
  <2> QED
    BY <1>6, <2>1, <2>2, SMTT(30)
<1>12. /\ PromiseRecs(Len(s.pair), Started(s)) \subseteq PromiseRecs(Len(t.pair), Started(t))
       /\ ReactionJobs(Len(s.pair), Started(s)) \subseteq ReactionJobs(Len(t.pair), Started(t))
       /\ ThenableJobs(D) \subseteq ThenableJobs(D \cup {p})
  <2>1. Len(t.pair) \in Nat /\ Len(s.pair) <= Len(t.pair) /\ Started(s) \subseteq Started(t)
    BY <1>7, <1>8, <1>11, SMTT(30)
  <2>2. ThenableJobs(D) \subseteq ThenableJobs(D \cup {p})
    BY Zenon DEF ThenableJobs
  <2> QED
    BY <2>1, <2>2, <1>8, MoreIsFine, ZenonT(30)
<1>13. Pending \in PromiseRecs(Len(t.pair), Started(t)) /\ Pending.state = "pending"
  <2>1. NoReactions \in [1 .. 2 -> Seq(Reactions(Len(t.pair), Started(t)))]
    BY EmptyReactions, Zenon
  <2>2. Undefined \in Anything
    BY DEF Anything
  <2> QED
    BY <2>1, <2>2, ZenonT(30) DEF Pending, PromiseRecs
<1>14. Shaped(t)
  <2>1. t.jobs \in Seq(ReactionJobs(Len(t.pair), Started(t)) \cup ThenableJobs(D \cup {p}))
    <3>1. s.jobs \in Seq(ReactionJobs(Len(s.pair), Started(s)) \cup ThenableJobs(D))
      BY DEF Sound, Shaped
    <3>2. ReactionJobs(Len(s.pair), Started(s)) \cup ThenableJobs(D)
          \subseteq ReactionJobs(Len(t.pair), Started(t)) \cup ThenableJobs(D \cup {p})
      BY <1>12, ZenonT(30)
    <3> QED
      BY <3>1, <3>2, <1>6, SeqMore, ZenonT(30)
  <2>2. \A x \in D \cup {p} : m[x] \in PromiseRecs(Len(t.pair), Started(t))
    BY <1>5, <1>12, <1>13, ZenonT(30) DEF Sound, Shaped
  <2>3. t.fn \in [AsyncFns -> [state : {"none", "running", "awaiting", "done", "broken"},
                               cap : 0 .. Len(t.pair)]]
    <3>1. 0 .. Len(s.pair) \subseteq 0 .. Len(t.pair)
      BY <1>8, <1>11, SMTT(30)
    <3> QED
      BY <3>1, <1>6, SMTT(30) DEF Sound, Shaped
  <2> QED
    BY <2>1, <2>2, <2>3, <1>5, <1>6, <1>11, ZenonT(30) DEF Shaped
<1>15. OneHand(t)
  BY <1>2, <1>5, <1>6, <1>9, <1>10, <1>13, ZenonT(30) DEF Sound, OneHand
<1>16. Taken(t)
  BY <1>1, <1>3, <1>4, <1>5, <1>6, ZenonT(30) DEF Taken
<1>17. Tracked(t)
  <2>1. s.unhandled = {x \in D : s.promise[x].state = "rejected" /\ ~s.promise[x].handled}
    BY DEF Sound, Tracked
  <2>2. t.unhandled = s.unhandled /\ DOMAIN t.promise = D \cup {p}
        /\ \A x \in D \cup {p} : t.promise[x] = IF x = p THEN Pending ELSE s.promise[x]
    BY <1>5, <1>6, ZenonT(30)
  <2> HIDE DEF p
  <2> QED
    BY <2>1, <2>2, <1>2, <1>13, SMTT(30) DEF Tracked
<1> QED
  BY <1>3, <1>5, <1>6, <1>11, <1>14, <1>15, <1>16, <1>17, SMTT(30) DEF Sound, t

\* A job that is no thenable job is queued.
LEMMA EnqueueSound ==
  ASSUME NEW s, Sound(s), NEW job \in ReactionJobs(Len(s.pair), Started(s))
  PROVE  LET t == JS_EnqueueJob(s, job) IN Sound(t) /\ Fits(s, t)
<1> DEFINE t == JS_EnqueueJob(s, job)
<1>1. /\ t.promise = s.promise /\ t.pair = s.pair /\ t.jobs = Append(s.jobs, job)
      /\ t.fn = s.fn /\ t.again = s.again /\ t.unhandled = s.unhandled
      /\ t = [promise |-> t.promise, pair |-> t.pair, jobs |-> t.jobs,
              unhandled |-> t.unhandled, fn |-> t.fn, again |-> t.again]
  <2>1. s = [promise |-> s.promise, pair |-> s.pair, jobs |-> s.jobs,
             unhandled |-> s.unhandled, fn |-> s.fn, again |-> s.again]
    BY DEF Sound, Shaped
  <2>2. t = [s EXCEPT !.jobs = Append(s.jobs, job)]
    BY SMTT(30) DEF JS_EnqueueJob
  <2> HIDE DEF t
  <2> QED
    BY <2>1, <2>2, ZenonT(30)
<1> HIDE DEF t
<1>2. Started(t) = Started(s)
  BY <1>1, SMTT(30) DEF Started
<1>3. /\ s.jobs \in Seq(ReactionJobs(Len(s.pair), Started(s)) \cup ThenableJobs(DOMAIN s.promise))
      /\ Append(s.jobs, job) \in Seq(ReactionJobs(Len(s.pair), Started(s)) \cup ThenableJobs(DOMAIN s.promise))
  BY SMTT(30) DEF Sound, Shaped
<1>4. Shaped(t)
  BY <1>1, <1>2, <1>3, Zenon DEF Sound, Shaped
<1>5. OneJob(t.jobs) /\ \A x : MayJob(t.jobs, x) <=> MayJob(s.jobs, x)
  <2>1. Append(s.jobs, job) = s.jobs \o <<job>>
    BY <1>3, SMTT(30)
  <2>2. <<job>> \in Seq({job}) /\ \A j \in DOMAIN <<job>> : <<job>>[j].kind = "reaction"
    BY SMTT(30) DEF ReactionJobs
  <2>3. OneJob(s.jobs)
    BY Zenon DEF Sound, OneHand
  <2>4. OneJob(s.jobs \o <<job>>) /\ \A x : MayJob(s.jobs \o <<job>>, x) <=> MayJob(s.jobs, x)
    <3> DEFINE r == <<job>>
    <3>1. r \in Seq({job}) /\ \A j \in DOMAIN r : r[j].kind = "reaction"
      BY <2>2, Zenon
    <3> HIDE DEF r
    <3>2. OneJob(s.jobs \o r) /\ \A x : MayJob(s.jobs \o r, x) <=> MayJob(s.jobs, x)
      BY <3>1, <2>3, <1>3, JobsMore, SMTT(30)
    <3> QED
      BY <3>2, Zenon DEF r
  <2> QED
    BY <2>1, <2>4, <1>1, Zenon
<1>6. OneHand(t)
  BY <1>1, <1>5, ZenonT(30) DEF Sound, OneHand
<1>7. Taken(t) /\ Tracked(t) /\ Fits(s, t)
  BY <1>1, Zenon DEF Sound, Taken, Tracked, Fits
<1> QED
  BY <1>4, <1>6, <1>7, SMTT(30) DEF Sound, t

\* A promise is replaced by one in the same state.
LEMMA UpdateSound ==
  ASSUME NEW s, Sound(s), NEW p \in DOMAIN s.promise,
         NEW q \in PromiseRecs(Len(s.pair), Started(s)), NEW u, NEW t,
         q.state = s.promise[p].state,
         t = [s EXCEPT !.promise[p] = q, !.unhandled = u],
         u = {x \in DOMAIN s.promise \ {p} : s.promise[x].state = "rejected" /\ ~s.promise[x].handled}
             \cup (IF q.state = "rejected" /\ ~q.handled THEN {p} ELSE {})
  PROVE  Sound(t) /\ Fits(s, t)
<1>1. /\ t.promise = [s.promise EXCEPT ![p] = q] /\ t.pair = s.pair /\ t.jobs = s.jobs
      /\ t.fn = s.fn /\ t.again = s.again /\ t.unhandled = u
      /\ t = [promise |-> t.promise, pair |-> t.pair, jobs |-> t.jobs,
              unhandled |-> t.unhandled, fn |-> t.fn, again |-> t.again]
  <2>1. s = [promise |-> s.promise, pair |-> s.pair, jobs |-> s.jobs,
             unhandled |-> s.unhandled, fn |-> s.fn, again |-> s.again]
    BY SMTT(30) DEF Sound, Shaped
  <2> QED
    BY <2>1, ZenonT(30)
<1>2. Started(t) = Started(s)
  BY <1>1, SMTT(30) DEF Started
<1>3. /\ DOMAIN t.promise = DOMAIN s.promise
      /\ \A x \in DOMAIN s.promise : t.promise[x] = IF x = p THEN q ELSE s.promise[x]
      /\ t.promise = [x \in DOMAIN t.promise |-> t.promise[x]]
  BY <1>1, SMTT(30) DEF Sound, Shaped
<1>4. Shaped(t)
  BY <1>1, <1>2, <1>3, ZenonT(30) DEF Sound, Shaped
<1>5. OneHand(t)
  BY <1>1, <1>3, SMTT(30) DEF Sound, OneHand
<1>6. Tracked(t)
  BY <1>1, <1>3, SMTT(30) DEF Tracked
<1>7. Taken(t) /\ Fits(s, t)
  BY <1>1, <1>3, Zenon DEF Sound, Taken, Fits
<1> QED
  BY <1>4, <1>5, <1>6, <1>7, SMTT(30) DEF Sound

\* perform_promise_then registers reactions or queues one, and marks the promise handled.
LEMMA ThenSound ==
  ASSUME NEW s, Sound(s), NEW p \in DOMAIN s.promise, NEW h, NEW cap \in 0 .. Len(s.pair),
         h[1] \in Handlers(Len(s.pair), Started(s)), h[2] \in Handlers(Len(s.pair), Started(s))
  PROVE  LET t == perform_promise_then(s, p, h, cap)
         IN  Sound(t) /\ Fits(s, t)
<1> DEFINE R == Reactions(Len(s.pair), Started(s))
           rd == [k \in 1 .. 2 |-> [cap |-> cap, handler |-> h[k]]]
           q == s.promise[p]
           q1 == [q EXCEPT !.handled = TRUE]
           q2 == [q1 EXCEPT !.reactions = [k \in 1 .. 2 |-> Append(q.reactions[k], rd[k])]]
           rej == q.state = "rejected"
           t == perform_promise_then(s, p, h, cap)
<1>1. q \in PromiseRecs(Len(s.pair), Started(s))
  BY DEF Sound, Shaped
<1>2. /\ q1 \in PromiseRecs(Len(s.pair), Started(s))
      /\ q1.state = q.state /\ q1.handled /\ q1.reactions = q.reactions
  BY <1>1, ZenonT(30) DEF PromiseRecs
<1>3. rd[1] \in R /\ rd[2] \in R
  BY SMTT(30) DEF Reactions
<1> HIDE DEF rd
<1>4. s.unhandled = {x \in DOMAIN s.promise : s.promise[x].state = "rejected" /\ ~s.promise[x].handled}
  BY DEF Sound, Tracked
<1>5. CASE q.state = "pending"
  <2>1. q.reactions \in [1 .. 2 -> Seq(R)]
    BY <1>1, SMTT(30) DEF PromiseRecs
  <2>2. \A k \in 1 .. 2 : rd[k] \in R
    <3>1. \A k \in 1 .. 2 : k = 1 \/ k = 2
      BY SMTT(30)
    <3> QED
      BY <3>1, <1>3, SMTT(30)
  <2>3. [k \in 1 .. 2 |-> Append(q.reactions[k], rd[k])] \in [1 .. 2 -> Seq(R)]
    BY <2>1, <2>2, SMTT(30)
  <2>4. q2 \in PromiseRecs(Len(s.pair), Started(s)) /\ q2.state = q.state /\ q2.handled
    BY <1>2, <2>3, ZenonT(30) DEF PromiseRecs
  <2>5. t = [s EXCEPT !.promise[p] = q2]
    BY <1>5, Zenon DEF perform_promise_then, rd
  <2> HIDE DEF t, q1, q2
  <2>6. t = [s EXCEPT !.promise[p] = q2, !.unhandled = s.unhandled]
    <3>1. s = [promise |-> s.promise, pair |-> s.pair, jobs |-> s.jobs,
               unhandled |-> s.unhandled, fn |-> s.fn, again |-> s.again]
      BY Zenon DEF Sound, Shaped
    <3> QED
      BY <2>5, <3>1, ZenonT(30)
  <2>7. s.unhandled =
           {x \in DOMAIN s.promise \ {p} : s.promise[x].state = "rejected" /\ ~s.promise[x].handled}
             \cup (IF q2.state = "rejected" /\ ~q2.handled THEN {p} ELSE {})
    BY <1>4, <1>5, <2>4, SMTT(30)
  <2> QED
    BY <2>4, <2>6, <2>7, UpdateSound, ZenonT(30) DEF t
<1>6. CASE q.state # "pending"
  <2> DEFINE u == IF rej /\ ~q.handled THEN s.unhandled \ {p} ELSE s.unhandled
             s1 == [s EXCEPT !.promise[p] = q1, !.unhandled = u]
             job == ReactionJob(rd[Side(rej)], rej, q.result)
  <2>1. t = JS_EnqueueJob(s1, job)
    BY <1>6, SMTT(30) DEF perform_promise_then, rd
  <2>2. u = {x \in DOMAIN s.promise \ {p} : s.promise[x].state = "rejected" /\ ~s.promise[x].handled}
             \cup (IF q1.state = "rejected" /\ ~q1.handled THEN {p} ELSE {})
    BY <1>4, <1>2, SMTT(30)
  <2>3. job \in ReactionJobs(Len(s.pair), Started(s))
    BY <1>1, <1>3, SMTT(30) DEF ReactionJob, ReactionJobs, Reactions, PromiseRecs, Side
  <2> HIDE DEF t, q1, u, job
  <2>4. Sound(s1) /\ Fits(s, s1)
    BY <1>2, <2>2, UpdateSound, ZenonT(30)
  <2> HIDE DEF s1
  <2>5. job \in ReactionJobs(Len(s1.pair), Started(s1))
    BY <2>3, <2>4, SMTT(30) DEF Fits, Started
  <2>6. Sound(t) /\ Fits(s1, t)
    BY <2>1, <2>4, <2>5, EnqueueSound, SMTT(30)
  <2> QED
    BY <2>4, <2>6, SMTT(30) DEF Fits, t
<1> QED
  BY <1>5, <1>6, SMTT(30)

\* js_promise_resolve returns the promise it is given, or makes one.
LEMMA PromiseResolveSound ==
  ASSUME PoolDistinct, NEW s, Sound(s), NEW value \in Anything, NEW rej \in BOOLEAN,
         (~rej /\ value \in DOMAIN s.promise) \/ Cardinality(DOMAIN s.promise) + 1 <= Len(Pool)
  PROVE  LET r == js_promise_resolve(s, value, rej)
         IN  /\ Sound(r[1]) /\ r[2] \in DOMAIN r[1].promise
             /\ Grows(s, r[1]) /\ r[1].fn = s.fn
             /\ IF ~rej /\ value \in DOMAIN s.promise THEN r[1] = s
                ELSE Cardinality(DOMAIN r[1].promise) = Cardinality(DOMAIN s.promise) + 1
<1> DEFINE r == js_promise_resolve(s, value, rej)
<1>1. CASE ~rej /\ value \in DOMAIN s.promise
  <2>1. r = <<s, value>>
    BY <1>1, SMTT(30) DEF js_promise_resolve
  <2>2. Len(s.pair) \in Nat
    BY DEF Sound, Shaped
  <2> QED
    BY <1>1, <2>1, <2>2, SMTT(30) DEF Grows
<1>2. CASE ~(~rej /\ value \in DOMAIN s.promise)
  <2> DEFINE s1 == js_new_promise_capability(s, FALSE)
             t == js_promise_resolve_function_call(s1, Len(s1.pair), rej, value)
  <2>1. r = <<t, Fresh(s)>>
    BY <1>2, Zenon DEF js_promise_resolve
  <2>2. /\ Sound(s1) /\ Len(s1.pair) = Len(s.pair) + 1
        /\ DOMAIN s1.promise = DOMAIN s.promise \cup {Fresh(s)}
        /\ Cardinality(DOMAIN s1.promise) = Cardinality(DOMAIN s.promise) + 1
        /\ s1.fn = s.fn
    BY <1>2, NewCapabilitySound, ZenonT(30)
  <2> HIDE DEF s1
  <2>3. Len(s1.pair) \in DOMAIN s1.pair /\ Len(s.pair) \in Nat
    <3>1. /\ s1.pair \in Seq([promise : DOMAIN s1.promise, already : BOOLEAN, given : BOOLEAN])
          /\ s.pair \in Seq([promise : DOMAIN s.promise, already : BOOLEAN, given : BOOLEAN])
      BY <2>2, SMTT(30) DEF Sound, Shaped
    <3> QED
      BY <3>1, <2>2, SMTT(30)
  <2>4. Sound(t) /\ Fits(s1, t)
    BY <2>2, <2>3, ResolveSound, SMTT(30)
  <2> HIDE DEF t
  <2>5. Grows(s, t) /\ t.fn = s.fn
    BY <2>2, <2>3, <2>4, SMTT(30) DEF Fits, Grows, Started
  <2>6. r[1] = t /\ r[2] = Fresh(s)
    BY <2>1, SMTT(30)
  <2>7. DOMAIN t.promise = DOMAIN s.promise \cup {Fresh(s)}
    BY <2>2, <2>4, SMTT(30) DEF Fits
  <2>8. Cardinality(DOMAIN t.promise) = Cardinality(DOMAIN s.promise) + 1
    BY <2>2, <2>4, SMTT(30) DEF Fits
  <2> HIDE DEF r
  <2>9. /\ Sound(r[1]) /\ r[2] \in DOMAIN r[1].promise
        /\ Grows(s, r[1]) /\ r[1].fn = s.fn
        /\ Cardinality(DOMAIN r[1].promise) = Cardinality(DOMAIN s.promise) + 1
    BY <2>4, <2>5, <2>6, <2>7, <2>8, SMTT(30)
  <2> QED
    BY <2>9, <1>2, Zenon DEF r
<1> QED
  BY <1>1, <1>2, SMTT(30)

\* Waiting calls stay well formed when pairs and calls are added.
LEMMA GrowsKeepsCalls ==
  ASSUME NEW s, NEW t, Sound(s), Sound(t), Grows(s, t), NEW c \in Seq(Calls(Len(s.pair), Started(s)))
  PROVE  c \in Seq(Calls(Len(t.pair), Started(t)))
<1>1. Len(s.pair) \in Nat /\ Len(t.pair) \in Nat
  BY DEF Sound, Shaped
<1>2. Calls(Len(s.pair), Started(s)) \subseteq Calls(Len(t.pair), Started(t))
  BY <1>1, MoreIsFine, ZenonT(30) DEF Grows
<1> QED
  BY <1>2, SeqMore, SMTT(30)

\* A state with the same pairs, promises and calls takes nothing away.
LEMMA FitsGrows ==
  ASSUME NEW s, NEW t, Sound(s), Fits(s, t)
  PROVE  /\ Grows(s, t)
         /\ Len(t.pair) = Len(s.pair) /\ Started(t) = Started(s)
<1>1. Len(s.pair) \in Nat
  BY DEF Sound, Shaped
<1> QED
  BY <1>1, SMTT(30) DEF Fits, Grows, Started

\* The stack of calls without its top.
LEMMA Returns ==
  ASSUME NEW S, calls \in Seq(S), calls # <<>>, Return
  PROVE  calls' \in Seq(S) /\ Top \in S
<1>1. Len(calls) \in Nat /\ Len(calls) # 0
  OBVIOUS
<1>2. Top \in S
  BY <1>1 DEF Top
<1>3. SubSeq(calls, 1, Len(calls) - 1) \in Seq(S)
  BY <1>1, FrontSeq
<1> QED
  BY <1>1, <1>2, <1>3, SMTT(30) DEF Return

\* The state of a call of an async function changes.
LEMMA FnSound ==
  ASSUME NEW s, Sound(s), NEW f \in AsyncFns, NEW x \in {"none", "running", "awaiting", "done", "broken"},
         NEW c \in 0 .. Len(s.pair), s.fn[f].cap # 0 => c # 0, NEW t,
         t = [s EXCEPT !.fn = [s.fn EXCEPT ![f] = [state |-> x, cap |-> c]]]
  PROVE  /\ Sound(t) /\ Grows(s, t) /\ t.pair = s.pair /\ t.promise = s.promise
         /\ Started(t) = IF c = 0 THEN Started(s) ELSE Started(s) \cup {f}
<1> DEFINE F == [AsyncFns -> [state : {"none", "running", "awaiting", "done", "broken"},
                              cap : 0 .. Len(s.pair)]]
<1>1. /\ t.promise = s.promise /\ t.pair = s.pair /\ t.jobs = s.jobs
      /\ t.fn = [s.fn EXCEPT ![f] = [state |-> x, cap |-> c]]
      /\ t.again = s.again /\ t.unhandled = s.unhandled
      /\ t = [promise |-> t.promise, pair |-> t.pair, jobs |-> t.jobs,
              unhandled |-> t.unhandled, fn |-> t.fn, again |-> t.again]
  <2>1. s = [promise |-> s.promise, pair |-> s.pair, jobs |-> s.jobs,
             unhandled |-> s.unhandled, fn |-> s.fn, again |-> s.again]
    BY DEF Sound, Shaped
  <2> QED
    BY <2>1
<1>2. s.fn \in F /\ Len(s.pair) \in Nat
  BY DEF Sound, Shaped
<1>3. t.fn \in F /\ \A g \in AsyncFns : t.fn[g].cap = IF g = f THEN c ELSE s.fn[g].cap
  BY <1>1, <1>2, SMTT(30)
<1>4. Started(t) = IF c = 0 THEN Started(s) ELSE Started(s) \cup {f}
  BY <1>3 DEF Started
<1>5. Started(s) \subseteq Started(t)
  BY <1>4
<1>6. Grows(s, t)
  <2>1. Len(s.pair) <= Len(t.pair)
    BY <1>1, <1>2, SMTT(30)
  <2>2. DOMAIN s.promise \subseteq DOMAIN t.promise
    BY <1>1, Zenon
  <2> QED
    BY <1>5, <2>1, <2>2, SMTT(30) DEF Grows
<1>7. /\ PromiseRecs(Len(s.pair), Started(s)) \subseteq PromiseRecs(Len(s.pair), Started(t))
      /\ ReactionJobs(Len(s.pair), Started(s)) \subseteq ReactionJobs(Len(s.pair), Started(t))
  <2>1. Len(s.pair) <= Len(s.pair)
    BY <1>2
  <2> QED
    BY <2>1, <1>2, <1>5, MoreIsFine, ZenonT(30)
<1>8. t.jobs \in Seq(ReactionJobs(Len(s.pair), Started(t)) \cup ThenableJobs(DOMAIN s.promise))
  <2>1. s.jobs \in Seq(ReactionJobs(Len(s.pair), Started(s)) \cup ThenableJobs(DOMAIN s.promise))
    BY DEF Sound, Shaped
  <2>2. ReactionJobs(Len(s.pair), Started(s)) \cup ThenableJobs(DOMAIN s.promise)
        \subseteq ReactionJobs(Len(s.pair), Started(t)) \cup ThenableJobs(DOMAIN s.promise)
    BY <1>7, SMTT(30)
  <2> QED
    BY <2>1, <2>2, <1>1, SeqMore, SMTT(30)
<1>9. Shaped(t)
  <2>1. /\ t.promise = [p \in DOMAIN t.promise |-> t.promise[p]]
        /\ t.pair \in Seq([promise : DOMAIN t.promise, already : BOOLEAN, given : BOOLEAN])
    BY <1>1 DEF Sound, Shaped
  <2>2. \A p \in DOMAIN s.promise : s.promise[p] \in PromiseRecs(Len(s.pair), Started(s))
    BY DEF Sound, Shaped
  <2>3. \A p \in DOMAIN t.promise : t.promise[p] \in PromiseRecs(Len(t.pair), Started(t))
    BY <2>2, <1>1, <1>7, Zenon
  <2> QED
    BY <2>1, <2>3, <1>1, <1>3, <1>8, SMTT(30) DEF Shaped
<1>10. OneHand(t) /\ Taken(t) /\ Tracked(t)
  BY <1>1, SMTT(30) DEF Sound, OneHand, Taken, Tracked
<1> QED
  BY <1>1, <1>4, <1>6, <1>9, <1>10, Zenon DEF Sound

\* The guard of the actions that make promises: Pool has enough of them.
LEMMA RoomPool ==
  ASSUME PoolDistinct, NEW s, Sound(s), NEW n \in Nat, Room(s, n)
  PROVE  Cardinality(DOMAIN s.promise) + n <= Len(Pool) /\ Cardinality(DOMAIN s.promise) \in Nat
BY FS_CardinalityType, Zenon DEF Room, Sound, Taken

\* The last pair there is.
LEMMA LastPair ==
  ASSUME NEW s, Sound(s), NEW t, Sound(t), Len(t.pair) = Len(s.pair) + 1
  PROVE  Len(t.pair) \in DOMAIN t.pair /\ Len(t.pair) \in 0 .. Len(t.pair) /\ Len(s.pair) \in Nat
<1>1. /\ t.pair \in Seq([promise : DOMAIN t.promise, already : BOOLEAN, given : BOOLEAN])
      /\ s.pair \in Seq([promise : DOMAIN s.promise, already : BOOLEAN, given : BOOLEAN])
  BY DEF Sound, Shaped
<1> QED
  BY <1>1, SMTT(30)

\* The end of a job: only a capability that exists is resolved.
LEMMA FinishSound ==
  ASSUME NEW s, Sound(s), NEW cap \in 0 .. Len(s.pair), NEW rej \in BOOLEAN, NEW value \in Anything
  PROVE  LET t == Finish(s, cap, rej, value) IN Sound(t) /\ Fits(s, t)
<1>1. CASE cap = 0
  BY <1>1, SMTT(30) DEF Finish, Fits
<1>2. CASE cap # 0
  <2>1. cap \in DOMAIN s.pair
    <3>1. s.pair \in Seq([promise : DOMAIN s.promise, already : BOOLEAN, given : BOOLEAN])
      BY DEF Sound, Shaped
    <3> QED
      BY <3>1, <1>2, SMTT(30)
  <2>2. Finish(s, cap, rej, value) = js_promise_resolve_function_call(s, cap, rej, value)
    BY <1>2 DEF Finish
  <2> QED
    BY <2>1, <2>2, ResolveSound, SMTT(30)
<1> QED
  BY <1>1, <1>2, SMTT(30)

\* A step that keeps the stack of calls, or takes its top away.
LEMMA JsKeeps ==
  ASSUME PromiseInv, Sound(js'), Grows(js, js'),
         calls' = calls \/ (calls # <<>> /\ Return)
  PROVE  PromiseInv'
<1>1. calls \in Seq(Calls(Len(js.pair), Started(js))) /\ Sound(js)
  BY DEF PromiseInv
<1>2. calls' \in Seq(Calls(Len(js.pair), Started(js)))
  BY <1>1, Returns, SMTT(30)
<1>3. calls' \in Seq(Calls(Len(js'.pair), Started(js')))
  BY <1>1, <1>2, GrowsKeepsCalls, SMTT(30)
<1>4. Sound(js')
  OBVIOUS
<1> QED
  BY <1>3, <1>4, SMTT(30) DEF PromiseInv, Started

\* new Promise.
LEMMA ConstructorKeeps ==
  ASSUME PoolDistinct, PromiseInv, NEW throws \in BOOLEAN, js_promise_constructor(throws)
  PROVE  PromiseInv'
<1> DEFINE s == js_new_promise_capability(js, TRUE)
<1>1. Sound(js) /\ Room(js, 1) /\ calls' = calls
      /\ js' = IF throws THEN js_promise_resolve_function_call(s, Len(s.pair), TRUE, Error) ELSE s
  BY DEF PromiseInv, js_promise_constructor
<1>2. Cardinality(DOMAIN js.promise) + 1 <= Len(Pool)
  BY <1>1, RoomPool, SMTT(30)
<1>3. Sound(s) /\ Len(s.pair) = Len(js.pair) + 1 /\ DOMAIN js.promise \subseteq DOMAIN s.promise
      /\ s.fn = js.fn
  BY <1>1, <1>2, NewCapabilitySound, ZenonT(30)
<1> HIDE DEF s
<1>4. Len(s.pair) \in DOMAIN s.pair /\ Len(js.pair) \in Nat
  BY <1>1, <1>3, LastPair, SMTT(30)
<1>5. Error \in Anything
  BY DEF Anything
<1>6. Sound(js') /\ (js' = s \/ Fits(s, js'))
  BY <1>1, <1>3, <1>4, <1>5, ResolveSound, ZenonT(30)
<1>7. Grows(js, js')
  BY <1>3, <1>4, <1>6, SMTT(30) DEF Grows, Fits, Started
<1> QED
  BY <1>1, <1>6, <1>7, JsKeeps, SMTT(30)

\* Script code calls a resolving function.
LEMMA CallKeeps ==
  ASSUME PoolDistinct, PromiseInv, NEW i \in DOMAIN js.pair, NEW rej \in BOOLEAN, NEW v \in PromiseValues,
         CallResolvingFunction(i, rej, v)
  PROVE  PromiseInv'
<1>1. Sound(js) /\ calls' = calls /\ js' = js_promise_resolve_function_call(js, i, rej, v)
  BY DEF PromiseInv, CallResolvingFunction
<1>2. v \in Anything
  BY <1>1, MadeAreValues, SMTT(30) DEF PromiseValues, Objects, Made, Anything, Sound
<1>3. Sound(js') /\ Fits(js, js')
  BY <1>1, <1>2, ResolveSound, SMTT(30)
<1> QED
  BY <1>1, <1>3, FitsGrows, JsKeeps, SMTT(30)

\* Promise.resolve and Promise.reject.
LEMMA ResolveKeeps ==
  ASSUME PoolDistinct, PromiseInv, NEW rej \in BOOLEAN, NEW v \in PromiseValues, PromiseResolve(v, rej)
  PROVE  PromiseInv'
<1>1. Sound(js) /\ Room(js, 1) /\ calls' = calls /\ js' = js_promise_resolve(js, v, rej)[1]
  BY DEF PromiseInv, PromiseResolve
<1>2. v \in Anything
  BY <1>1, MadeAreValues, SMTT(30) DEF PromiseValues, Objects, Made, Anything, Sound
<1>3. Cardinality(DOMAIN js.promise) + 1 <= Len(Pool)
  BY <1>1, RoomPool, SMTT(30)
<1>4. Sound(js') /\ Grows(js, js')
  BY <1>1, <1>2, <1>3, PromiseResolveSound, SMTT(30)
<1> QED
  BY <1>1, <1>4, JsKeeps, SMTT(30)

\* then, catch and finally.
LEMMA ThenKeeps ==
  ASSUME PoolDistinct, PromiseInv, NEW p \in Made, NEW h, js_promise_then(p, h),
         \A n \in Nat : \A C : h[1] \in Handlers(n, C) /\ h[2] \in Handlers(n, C)
  PROVE  PromiseInv'
<1> DEFINE s == js_new_promise_capability(js, FALSE)
<1>1. Sound(js) /\ Room(js, 1) /\ calls' = calls
      /\ js' = perform_promise_then(s, p, h, Len(s.pair))
  BY DEF PromiseInv, js_promise_then
<1>2. Cardinality(DOMAIN js.promise) + 1 <= Len(Pool)
  BY <1>1, RoomPool, SMTT(30)
<1>3. Sound(s) /\ Len(s.pair) = Len(js.pair) + 1 /\ DOMAIN js.promise \subseteq DOMAIN s.promise
      /\ s.fn = js.fn
  BY <1>1, <1>2, NewCapabilitySound, ZenonT(30)
<1> HIDE DEF s
<1>4. Len(s.pair) \in 0 .. Len(s.pair) /\ Len(js.pair) \in Nat
  BY <1>1, <1>3, LastPair, SMTT(30)
<1>5. h[1] \in Handlers(Len(s.pair), Started(s)) /\ h[2] \in Handlers(Len(s.pair), Started(s))
  BY <1>4, SMTT(30)
<1>6. p \in DOMAIN s.promise
  BY <1>3, SMTT(30) DEF Made
<1>7. Sound(js') /\ Fits(s, js')
  BY <1>1, <1>3, <1>4, <1>5, <1>6, ThenSound, SMTT(30)
<1>8. Grows(js, js')
  BY <1>3, <1>4, <1>7, SMTT(30) DEF Grows, Fits, Started
<1> QED
  BY <1>1, <1>7, <1>8, JsKeeps, SMTT(30)

\* An async function is called.
LEMMA AsyncCallKeeps ==
  ASSUME PoolDistinct, PromiseInv, NEW f \in AsyncFns, js_async_function_call(f)
  PROVE  PromiseInv'
<1> DEFINE s == js_new_promise_capability(js, FALSE)
<1>1. Sound(js) /\ Room(js, 1)
      /\ js' = [s EXCEPT !.fn[f] = [state |-> "running", cap |-> Len(s.pair)]]
      /\ calls' = Append(calls, [kind |-> "async", fn |-> f])
  BY DEF PromiseInv, js_async_function_call
<1>2. Cardinality(DOMAIN js.promise) + 1 <= Len(Pool)
  BY <1>1, RoomPool, SMTT(30)
<1>3. Sound(s) /\ Len(s.pair) = Len(js.pair) + 1 /\ DOMAIN js.promise \subseteq DOMAIN s.promise
      /\ s.fn = js.fn
  BY <1>1, <1>2, NewCapabilitySound, ZenonT(30)
<1> HIDE DEF s
<1>4. Len(s.pair) \in 0 .. Len(s.pair) /\ Len(js.pair) \in Nat
  BY <1>1, <1>3, LastPair, SMTT(30)
<1>5. js' = [s EXCEPT !.fn = [s.fn EXCEPT ![f] = [state |-> "running", cap |-> Len(s.pair)]]]
  BY <1>1, SMTT(30)
<1>6. Sound(js') /\ Grows(s, js') /\ Started(js') = Started(s) \cup {f}
  <2>1. Len(s.pair) # 0
    BY <1>3, <1>4, SMTT(30)
  <2> QED
    BY <2>1, <1>3, <1>4, <1>5, FnSound, SMTT(30)
<1>7. Grows(js, js')
  BY <1>3, <1>4, <1>6, SMTT(30) DEF Grows, Started
<1>8. calls \in Seq(Calls(Len(js'.pair), Started(js')))
  BY <1>1, <1>6, <1>7, GrowsKeepsCalls, ZenonT(30) DEF PromiseInv
<1>9. [kind |-> "async", fn |-> f] \in Calls(Len(js'.pair), Started(js'))
  BY <1>6, SMTT(30) DEF Calls
<1>10. calls' \in Seq(Calls(Len(js'.pair), Started(js')))
  BY <1>1, <1>8, <1>9, SMTT(30)
<1> QED
  BY <1>6, <1>10, SMTT(30) DEF PromiseInv, Started

\* What the top of the stack of calls is.
LEMMA TopKinds ==
  ASSUME PromiseInv, calls # <<>>
  PROVE  /\ Top.kind = "async" => Top.fn \in Started(js) /\ js.fn[Top.fn].cap \in DOMAIN js.pair
         /\ Top.kind = "reaction" => Top \in ReactionJobs(Len(js.pair), Started(js))
         /\ Top.kind = "then" => Top.cap \in DOMAIN js.pair
<1>1. Len(calls) \in Nat /\ Len(calls) # 0 /\ Top \in Calls(Len(js.pair), Started(js))
  BY DEF PromiseInv, Top
<1>2. DOMAIN js.pair = 1 .. Len(js.pair) /\ Len(js.pair) \in Nat
  BY DEF PromiseInv, Sound, Shaped
<1>3. \A f \in Started(js) : js.fn[f].cap \in 1 .. Len(js.pair)
  <2>1. js.fn \in [AsyncFns -> [state : {"none", "running", "awaiting", "done", "broken"},
                                cap : 0 .. Len(js.pair)]]
    BY DEF PromiseInv, Sound, Shaped
  <2> QED
    BY <2>1, <1>2, SMTT(30) DEF Started
<1> QED
  BY <1>1, <1>2, <1>3, SMTT(30) DEF Calls, ReactionJobs

\* What script code returns or throws is a value.
LEMMA OutcomesAreValues ==
  ASSUME PoolDistinct, PromiseInv, NEW o \in Outcomes
  PROVE  o[1] \in BOOLEAN /\ o[2] \in Anything
<1>1. Made \subseteq Anything
  BY MadeAreValues, SMTT(30) DEF PromiseInv, Sound, Made
<1>2. Error \in Anything /\ Plain \in Anything
  BY DEF Anything
<1>3. CASE o = <<TRUE, Error>>
  BY <1>2, <1>3, SMTT(30)
<1>4. CASE o \in {FALSE} \X (Made \cup {Plain})
  BY <1>1, <1>2, <1>4, ZenonT(30)
<1> QED
  BY <1>3, <1>4, ZenonT(30) DEF Outcomes

\* The state of one call of an async function.
LEMMA FnStateSound ==
  ASSUME NEW s, Sound(s), NEW f \in Started(s), NEW x \in {"none", "running", "awaiting", "done", "broken"}, NEW t,
         t = [s EXCEPT !.fn[f].state = x]
  PROVE  /\ Sound(t) /\ Grows(s, t) /\ t.pair = s.pair /\ t.promise = s.promise
         /\ Started(t) = Started(s)
<1>1. f \in AsyncFns /\ s.fn[f].cap # 0
  BY DEF Started
<1>2. s.fn \in [AsyncFns -> [state : {"none", "running", "awaiting", "done", "broken"},
                             cap : 0 .. Len(s.pair)]]
  BY DEF Sound, Shaped
<1>3. s.fn[f] \in [state : {"none", "running", "awaiting", "done", "broken"}, cap : 0 .. Len(s.pair)]
  BY <1>1, <1>2, SMTT(30)
<1>4. [s.fn[f] EXCEPT !.state = x] = [state |-> x, cap |-> s.fn[f].cap] /\ s.fn[f].cap \in 0 .. Len(s.pair)
  BY <1>3, SMTT(30)
<1>5. t = [s EXCEPT !.fn = [s.fn EXCEPT ![f] = [s.fn[f] EXCEPT !.state = x]]]
  BY SMTT(30)
<1>6. t = [s EXCEPT !.fn = [s.fn EXCEPT ![f] = [state |-> x, cap |-> s.fn[f].cap]]]
  BY <1>4, <1>5, Zenon
<1>7. /\ Sound(t) /\ Grows(s, t) /\ t.pair = s.pair /\ t.promise = s.promise
      /\ Started(t) = IF s.fn[f].cap = 0 THEN Started(s) ELSE Started(s) \cup {f}
  BY <1>1, <1>4, <1>6, FnSound, SMTT(30)
<1> QED
  BY <1>1, <1>7, ZenonT(30)

\* Taking nothing away is transitive.
LEMMA GrowsOn ==
  ASSUME NEW s, NEW t, NEW u, Sound(s), Sound(t), Sound(u), Grows(s, t), Grows(t, u)
  PROVE  Grows(s, u)
<1>1. Len(s.pair) \in Nat /\ Len(t.pair) \in Nat /\ Len(u.pair) \in Nat
  BY DEF Sound, Shaped
<1> QED
  BY <1>1, SMTT(30) DEF Grows

\* An async function awaits a value.
LEMMA AwaitKeeps ==
  ASSUME PoolDistinct, PromiseInv, NEW v \in PromiseValues, AsyncAwait(v)
  PROVE  PromiseInv'
<1> DEFINE f == Top.fn
           r == js_promise_resolve(js, v, FALSE)
           h == <<<<"await", f>>, <<"await", f>>>>
           t == perform_promise_then(r[1], r[2], h, 0)
<1>1. /\ Sound(js) /\ calls # <<>> /\ Return /\ Top.kind = "async"
      /\ (v \notin Made => Room(js, 1))
      /\ js' = [t EXCEPT !.fn[f].state = "awaiting"]
  BY SMTT(30) DEF PromiseInv, AsyncAwait
<1>2. v \in Anything
  BY <1>1, MadeAreValues, SMTT(30) DEF PromiseValues, Objects, Made, Anything, Sound
<1>3. v \in DOMAIN js.promise \/ Cardinality(DOMAIN js.promise) + 1 <= Len(Pool)
  BY <1>1, RoomPool, SMTT(30) DEF Made
<1>4. Sound(r[1]) /\ r[2] \in DOMAIN r[1].promise /\ Grows(js, r[1]) /\ r[1].fn = js.fn
  BY <1>1, <1>2, <1>3, PromiseResolveSound, ZenonT(30)
<1>5. f \in Started(js)
  BY <1>1, TopKinds, SMTT(30)
<1> HIDE DEF r, f
<1>6. f \in Started(r[1])
  BY <1>4, <1>5, SMTT(30) DEF Grows
<1>7. /\ h[1] \in Handlers(Len(r[1].pair), Started(r[1])) /\ h[2] \in Handlers(Len(r[1].pair), Started(r[1]))
      /\ 0 \in 0 .. Len(r[1].pair)
  <2>1. Len(r[1].pair) \in Nat
    BY <1>4, SMTT(30) DEF Sound, Shaped
  <2>2. <<"await", f>> \in Handlers(Len(r[1].pair), Started(r[1]))
    BY <1>6, Zenon DEF Handlers
  <2> QED
    BY <2>1, <2>2, SMTT(30)
<1> HIDE DEF h
<1>8. Sound(t) /\ Fits(r[1], t)
  BY <1>4, <1>7, ThenSound, Zenon
<1>9. Grows(r[1], t) /\ Started(t) = Started(r[1])
  BY <1>4, <1>8, FitsGrows, SMTT(30)
<1> HIDE DEF t
<1>10. Sound(js') /\ Grows(t, js')
  BY <1>1, <1>6, <1>8, <1>9, FnStateSound, SMTT(30)
<1>11. Grows(js, js')
  BY <1>1, <1>4, <1>8, <1>9, <1>10, GrowsOn, SMTT(30)
<1> QED
  BY <1>1, <1>10, <1>11, JsKeeps, SMTT(30)

\* An async function returns or throws.
LEMMA AsyncDoneKeeps ==
  ASSUME PoolDistinct, PromiseInv, NEW throws \in BOOLEAN, NEW v \in Anything, AsyncDone(throws, v)
  PROVE  PromiseInv'
<1> DEFINE f == Top.fn
           t == js_promise_resolve_function_call(js, js.fn[f].cap, throws, v)
<1>1. /\ Sound(js) /\ calls # <<>> /\ Return /\ Top.kind = "async"
      /\ js' = [t EXCEPT !.fn[f].state = "done"]
  BY Zenon DEF PromiseInv, AsyncDone
<1>2. f \in Started(js) /\ js.fn[f].cap \in DOMAIN js.pair
  BY <1>1, TopKinds, ZenonT(30)
<1> HIDE DEF f
<1>3. Sound(t) /\ Fits(js, t)
  BY <1>1, <1>2, ResolveSound, SMTT(30)
<1>4. Grows(js, t) /\ Started(t) = Started(js)
  BY <1>1, <1>3, FitsGrows, SMTT(30)
<1> HIDE DEF t
<1>5. Sound(js') /\ Grows(t, js')
  BY <1>1, <1>2, <1>3, <1>4, FnStateSound, SMTT(30)
<1>6. Grows(js, js')
  BY <1>1, <1>3, <1>4, <1>5, GrowsOn, SMTT(30)
<1>7. calls # <<>> /\ Return
  BY <1>1, SMTT(30)
<1> QED
  BY <1>5, <1>6, <1>7, JsKeeps, SMTT(30)

\* A handler of then, or the then method of a thenable, comes back.
LEMMA HandlerKeeps ==
  ASSUME PoolDistinct, PromiseInv, NEW throws \in BOOLEAN, NEW v \in Anything, HandlerReturns(throws, v)
  PROVE  PromiseInv'
<1>1. Sound(js) /\ calls # <<>> /\ Return
  BY DEF PromiseInv, HandlerReturns
<1>2. CASE Top.kind = "reaction" /\ js' = Finish(js, Top.cap, throws, v)
  <2>1. Top.cap \in 0 .. Len(js.pair)
    BY <1>1, <1>2, TopKinds, SMTT(30) DEF ReactionJobs
  <2>2. Sound(js') /\ Fits(js, js')
    BY <1>1, <1>2, <2>1, FinishSound, SMTT(30)
  <2> QED
    BY <1>1, <2>2, FitsGrows, JsKeeps, SMTT(30)
<1>3. CASE Top.kind = "then" /\ js' = js_promise_resolve_function_call(js, Top.cap, TRUE, v)
  <2>1. Top.cap \in DOMAIN js.pair
    BY <1>1, <1>3, TopKinds, SMTT(30)
  <2>2. Sound(js') /\ Fits(js, js')
    BY <1>1, <1>3, <2>1, ResolveSound, ZenonT(30)
  <2> QED
    BY <1>1, <2>2, FitsGrows, JsKeeps
<1>4. CASE js' = js
  <2>1. Sound(js') /\ Fits(js, js')
    BY <1>1, <1>4, SMTT(30) DEF Fits
  <2> QED
    BY <1>1, <2>1, FitsGrows, JsKeeps
<1> QED
  BY <1>2, <1>3, <1>4, ZenonT(30) DEF HandlerReturns

\* js_promise_then_finally_func.
LEMMA FinallyKeeps ==
  ASSUME PoolDistinct, PromiseInv, NEW throws \in BOOLEAN, NEW v \in Made \cup {Plain, Error},
         FinallyReturns(throws, v)
  PROVE  PromiseInv'
<1> DEFINE r == js_promise_resolve(js, v, FALSE)
           s == js_new_promise_capability(r[1], FALSE)
           thunk == <<IF Top.handler[2] THEN "throw" ELSE "value", Top.arg>>
           t == perform_promise_then(s, r[2], <<thunk, NoHandler>>, Len(s.pair))
<1>1. Sound(js) /\ calls # <<>> /\ Return /\ Top.kind = "reaction"
  BY Zenon DEF PromiseInv, FinallyReturns
<1>2. Top.cap \in 0 .. Len(js.pair) /\ Top.arg \in Anything
  BY <1>1, TopKinds, ZenonT(30) DEF ReactionJobs
<1>3. v \in Anything
  BY <1>1, MadeAreValues, ZenonT(30) DEF Made, Anything, Sound
<1>4. CASE throws
  <2>1. js' = Finish(js, Top.cap, TRUE, v)
    BY <1>4, SMTT(30) DEF FinallyReturns
  <2>2. Sound(js') /\ Fits(js, js')
    BY <1>1, <1>2, <1>3, <2>1, FinishSound, ZenonT(30)
  <2> QED
    BY <1>1, <2>2, FitsGrows, JsKeeps, SMTT(30)
<1>5. CASE ~throws
  <2>1. /\ Room(js, IF v \in Made THEN 1 ELSE 2)
        /\ js' = Finish(t, Top.cap, FALSE, Fresh(r[1]))
    BY <1>5, ZenonT(30) DEF FinallyReturns
  <2>2. /\ Cardinality(DOMAIN js.promise) \in Nat
        /\ Cardinality(DOMAIN js.promise) + (IF v \in Made THEN 1 ELSE 2) <= Len(Pool)
    <3>1. (IF v \in Made THEN 1 ELSE 2) \in Nat
      OBVIOUS
    <3> QED
      BY <3>1, <2>1, <1>1, RoomPool, SMTT(30)
  <2>3. Len(Pool) \in Nat
    BY DEF PoolDistinct
  <2>4. v \in DOMAIN js.promise \/ Cardinality(DOMAIN js.promise) + 1 <= Len(Pool)
    BY <2>2, <2>3, SMTT(30) DEF Made
  <2>5. /\ Sound(r[1]) /\ r[2] \in DOMAIN r[1].promise /\ Grows(js, r[1])
        /\ IF v \in DOMAIN js.promise THEN r[1] = js
           ELSE Cardinality(DOMAIN r[1].promise) = Cardinality(DOMAIN js.promise) + 1
    <3>1. Sound(r[1]) /\ r[2] \in DOMAIN r[1].promise /\ Grows(js, r[1])
      BY <1>1, <1>3, <2>4, PromiseResolveSound, ZenonT(30)
    <3>2. CASE v \in DOMAIN js.promise
      <4>1. r[1] = js
        BY <3>2, SMTT(30) DEF js_promise_resolve
      <4> QED
        BY <3>1, <3>2, <4>1, ZenonT(30)
    <3>3. CASE v \notin DOMAIN js.promise
      <4>1. Cardinality(DOMAIN js.promise) + 1 <= Len(Pool)
        BY <2>4, <3>3, ZenonT(30)
      <4>2. Cardinality(DOMAIN r[1].promise) = Cardinality(DOMAIN js.promise) + 1
        BY <1>1, <1>3, <3>3, <4>1, PromiseResolveSound, ZenonT(30)
      <4> QED
        BY <3>1, <3>3, <4>2, ZenonT(30)
    <3> QED
      BY <3>2, <3>3, ZenonT(30)
  <2> HIDE DEF r
  <2>6. Cardinality(DOMAIN r[1].promise) + 1 <= Len(Pool)
    BY <2>2, <2>3, <2>5, SMTT(30) DEF Made
  <2>7. /\ Sound(s) /\ Len(s.pair) = Len(r[1].pair) + 1
        /\ DOMAIN s.promise = DOMAIN r[1].promise \cup {Fresh(r[1])}
        /\ s.fn = r[1].fn
    BY <2>5, <2>6, NewCapabilitySound, ZenonT(30)
  <2> HIDE DEF s
  <2>8. Len(s.pair) \in 0 .. Len(s.pair) /\ Len(r[1].pair) \in Nat
    BY <2>5, <2>7, LastPair, SMTT(30)
  <2>9. Grows(r[1], s)
    BY <2>7, <2>8, SMTT(30) DEF Grows, Started
  <2>10. thunk \in Handlers(Len(s.pair), Started(s)) /\ NoHandler \in Handlers(Len(s.pair), Started(s))
    BY <1>2, SMTT(30) DEF Handlers
  <2>11. r[2] \in DOMAIN s.promise
    BY <2>5, <2>7, SMTT(30)
  <2>12. Sound(t) /\ Fits(s, t)
    <3> DEFINE h == <<thunk, NoHandler>>
    <3>1. h[1] = thunk /\ h[2] = NoHandler
      BY SMTT(30)
    <3> HIDE DEF h, thunk
    <3>2. LET u == perform_promise_then(s, r[2], h, Len(s.pair)) IN Sound(u) /\ Fits(s, u)
      BY <3>1, <2>7, <2>8, <2>10, <2>11, ThenSound, SMTT(30)
    <3> QED
      BY <3>2, SMTT(30) DEF h
  <2> HIDE DEF t
  <2>13. Grows(s, t) /\ Len(t.pair) = Len(s.pair)
    BY <2>7, <2>12, FitsGrows, SMTT(30)
  <2>14. Fresh(r[1]) \in Anything
    <3>1. Fresh(r[1]) \in DOMAIN s.promise
      BY <2>7, SMTT(30)
    <3> QED
      BY <3>1, <2>7, MadeAreValues, SMTT(30) DEF Sound
  <2>15. Grows(js, t)
    BY <1>1, <2>5, <2>7, <2>9, <2>12, <2>13, GrowsOn, SMTT(30)
  <2>16. Top.cap \in 0 .. Len(t.pair)
    <3>1. Len(js.pair) <= Len(t.pair) /\ Len(t.pair) \in Nat
      BY <2>15, <2>12, SMTT(30) DEF Grows, Sound, Shaped
    <3>2. Len(js.pair) \in Nat
      BY <1>1, SMTT(30) DEF Sound, Shaped
    <3> QED
      BY <3>1, <3>2, <1>2, SMTT(30)
  <2>17. Sound(js') /\ Fits(t, js')
    BY <2>1, <2>12, <2>14, <2>16, FinishSound, ZenonT(30)
  <2>18. Grows(t, js')
    BY <2>12, <2>17, FitsGrows, SMTT(30)
  <2>19. Grows(js, js')
    BY <1>1, <2>12, <2>15, <2>17, <2>18, GrowsOn, SMTT(30)
  <2> QED
    BY <1>1, <2>17, <2>19, JsKeeps, SMTT(30)
<1> QED
  BY <1>4, <1>5, ZenonT(30)

\* The state s without its first job: nothing else differs, but its promise may
\* now be in no hand.
FirstJobOff(s, t) ==
    /\ Shaped(t) /\ Taken(t) /\ Tracked(t) /\ ~t.again /\ OnePair(t.pair) /\ OneJob(t.jobs)
    /\ t.promise = s.promise /\ t.pair = s.pair /\ Fits(s, t) /\ Started(t) = Started(s)
    /\ Head(s.jobs) \in ReactionJobs(Len(s.pair), Started(s)) \cup ThenableJobs(DOMAIN s.promise)
    /\ \A x : MayJob(t.jobs, x)
              <=> MayJob(s.jobs, x) /\ ~(Head(s.jobs).kind = "thenable" /\ Head(s.jobs).promise = x)

\* Every state has that without its first job.
LEMMA JobOff ==
  ASSUME NEW s, Sound(s), s.jobs # <<>>, NEW t, t = [s EXCEPT !.jobs = Tail(s.jobs)]
  PROVE  FirstJobOff(s, t)
<1>1. /\ t.promise = s.promise /\ t.pair = s.pair /\ t.jobs = Tail(s.jobs)
      /\ t.fn = s.fn /\ t.again = s.again /\ t.unhandled = s.unhandled
      /\ t = [promise |-> t.promise, pair |-> t.pair, jobs |-> t.jobs,
              unhandled |-> t.unhandled, fn |-> t.fn, again |-> t.again]
  <2>1. s = [promise |-> s.promise, pair |-> s.pair, jobs |-> s.jobs,
             unhandled |-> s.unhandled, fn |-> s.fn, again |-> s.again]
    BY DEF Sound, Shaped
  <2> QED
    BY <2>1, ZenonT(30)
<1>2. Started(t) = Started(s) /\ Fits(s, t)
  BY <1>1, SMTT(30) DEF Started, Fits
<1>3. s.jobs \in Seq(ReactionJobs(Len(s.pair), Started(s)) \cup ThenableJobs(DOMAIN s.promise))
  BY DEF Sound, Shaped
<1>4. /\ Tail(s.jobs) \in Seq(ReactionJobs(Len(s.pair), Started(s)) \cup ThenableJobs(DOMAIN s.promise))
      /\ Head(s.jobs) \in ReactionJobs(Len(s.pair), Started(s)) \cup ThenableJobs(DOMAIN s.promise)
  BY <1>3, SMTT(30)
<1>5. Shaped(t)
  BY <1>1, <1>2, <1>4, ZenonT(30) DEF Sound, Shaped
<1>6. Taken(t) /\ Tracked(t) /\ ~t.again /\ OnePair(t.pair)
  BY <1>1 DEF Sound, Taken, Tracked, OneHand
<1>7. /\ OneJob(t.jobs)
      /\ \A x : MayJob(t.jobs, x)
                <=> MayJob(s.jobs, x) /\ ~(Head(s.jobs).kind = "thenable" /\ Head(s.jobs).promise = x)
  BY <1>1, <1>3, JobTaken, SMTT(30) DEF Sound, OneHand
<1> QED
  BY <1>1, <1>2, <1>4, <1>5, <1>6, <1>7, SMTT(30) DEF FirstJobOff

\* js_create_resolving_functions gives a promise that is in no hand a pair.
LEMMA PairSound ==
  ASSUME NEW s, NEW p, InFlight(s, p), NEW given \in BOOLEAN
  PROVE  LET t == js_create_resolving_functions(s, p, given)
         IN  /\ Sound(t)
             /\ Len(t.pair) = Len(s.pair) + 1
             /\ DOMAIN t.promise = DOMAIN s.promise
             /\ t.fn = s.fn
<1> DEFINE D == DOMAIN s.promise
           e == [promise |-> p, already |-> FALSE, given |-> given]
           t == js_create_resolving_functions(s, p, given)
<1>1. /\ t.promise = s.promise /\ t.pair = Append(s.pair, e) /\ t.jobs = s.jobs
      /\ t.fn = s.fn /\ t.again = s.again /\ t.unhandled = s.unhandled
      /\ t = [promise |-> t.promise, pair |-> t.pair, jobs |-> t.jobs,
              unhandled |-> t.unhandled, fn |-> t.fn, again |-> t.again]
  <2>1. s = [promise |-> s.promise, pair |-> s.pair, jobs |-> s.jobs,
             unhandled |-> s.unhandled, fn |-> s.fn, again |-> s.again]
    BY DEF InFlight, Shaped
  <2>2. t = [s EXCEPT !.pair = Append(s.pair, e)]
    BY SMTT(30) DEF js_create_resolving_functions
  <2> HIDE DEF t, e
  <2> QED
    BY <2>1, <2>2, ZenonT(30)
<1> HIDE DEF t
<1>2. Started(t) = Started(s)
  BY <1>1, SMTT(30) DEF Started
<1>3. s.pair \in Seq([promise : D, already : BOOLEAN, given : BOOLEAN]) /\ Len(s.pair) \in Nat
      /\ p \in D
  BY DEF InFlight, Shaped
<1>4. OnePair(t.pair) /\ \A x : MayPair(t.pair, x) <=> MayPair(s.pair, x) \/ x = p
  <2>1. OnePair(s.pair) /\ ~MayPair(s.pair, p)
    BY DEF InFlight
  <2> HIDE DEF D
  <2>2. OnePair(Append(s.pair, e)) /\ \A x : MayPair(Append(s.pair, e), x) <=> MayPair(s.pair, x) \/ x = p
    BY <2>1, <1>3, PairNew, ZenonT(30)
  <2> QED
    BY <2>2, <1>1, ZenonT(30)
<1>5. t.pair \in Seq([promise : D, already : BOOLEAN, given : BOOLEAN])
      /\ Len(t.pair) = Len(s.pair) + 1
  <2>1. e \in [promise : D, already : BOOLEAN, given : BOOLEAN]
    BY <1>3, SMTT(30)
  <2> HIDE DEF e
  <2> QED
    BY <1>1, <1>3, <2>1, SMTT(30)
<1>6. /\ PromiseRecs(Len(s.pair), Started(s)) \subseteq PromiseRecs(Len(t.pair), Started(t))
      /\ ReactionJobs(Len(s.pair), Started(s)) \subseteq ReactionJobs(Len(t.pair), Started(t))
  <2>1. Len(t.pair) \in Nat /\ Len(s.pair) <= Len(t.pair) /\ Started(s) \subseteq Started(t)
    BY <1>2, <1>3, <1>5, SMTT(30)
  <2> QED
    BY <2>1, <1>3, MoreIsFine, ZenonT(30)
<1>7. Shaped(t)
  <2>1. t.jobs \in Seq(ReactionJobs(Len(t.pair), Started(t)) \cup ThenableJobs(D))
    <3>1. s.jobs \in Seq(ReactionJobs(Len(s.pair), Started(s)) \cup ThenableJobs(D))
      BY DEF InFlight, Shaped
    <3>2. ReactionJobs(Len(s.pair), Started(s)) \cup ThenableJobs(D)
          \subseteq ReactionJobs(Len(t.pair), Started(t)) \cup ThenableJobs(D)
      BY <1>6, ZenonT(30)
    <3> QED
      BY <3>1, <3>2, <1>1, SeqMore, SMTT(30)
  <2>2. \A x \in D : t.promise[x] \in PromiseRecs(Len(t.pair), Started(t))
    BY <1>1, <1>6, ZenonT(30) DEF InFlight, Shaped
  <2>3. t.fn \in [AsyncFns -> [state : {"none", "running", "awaiting", "done", "broken"},
                               cap : 0 .. Len(t.pair)]]
    <3>1. 0 .. Len(s.pair) \subseteq 0 .. Len(t.pair)
      BY <1>3, <1>5, SMTT(30)
    <3> QED
      BY <3>1, <1>1, SMTT(30) DEF InFlight, Shaped
  <2>4. t.promise = [x \in DOMAIN t.promise |-> t.promise[x]]
    BY <1>1, Zenon DEF InFlight, Shaped
  <2> QED
    BY <2>1, <2>2, <2>3, <2>4, <1>1, <1>5, SMTT(30) DEF Shaped
<1>8. OneHand(t)
  BY <1>1, <1>4, ZenonT(30) DEF InFlight, OneHand
<1>9. Taken(t) /\ Tracked(t)
  BY <1>1, SMTT(30) DEF InFlight, Taken, Tracked
<1> QED
  BY <1>1, <1>5, <1>7, <1>8, <1>9, Zenon DEF Sound, t

\* What the parts of a handler are.
LEMMA HandlerParts ==
  ASSUME NEW n, NEW C, NEW h \in Handlers(n, C)
  PROVE  /\ h[1] \in {"value", "throw"} => h[2] \in Anything
         /\ h[1] \in {"resolve", "reject"} => h[2] \in 1 .. n
         /\ h[1] = "await" => h[2] \in C
<1>1. CASE h \in {NoHandler, <<"user">>}
  BY <1>1, SMTT(30) DEF NoHandler
<1>2. CASE h \in {"finally"} \X BOOLEAN
  BY <1>2, SMTT(30)
<1>3. CASE h \in {"value", "throw"} \X Anything
  BY <1>3, SMTT(30)
<1>4. CASE h \in {"resolve", "reject"} \X (1 .. n)
  BY <1>4, SMTT(30)
<1>5. CASE h \in {"await"} \X C
  BY <1>5, SMTT(30)
<1> QED
  BY <1>1, <1>2, <1>3, <1>4, <1>5, SMTT(30) DEF Handlers

\* A job that calls script code puts one call on the empty stack.
LEMMA OneCall ==
  ASSUME NEW c, Sound(js'), calls' = <<c>>, c \in Calls(Len(js'.pair), Started(js'))
  PROVE  PromiseInv'
<1>1. <<c>> \in Seq(Calls(Len(js'.pair), Started(js')))
  OBVIOUS
<1>2. Sound(js')
  OBVIOUS
<1> QED
  BY <1>1, <1>2, SMTT(30) DEF PromiseInv, Started

\* promise_reaction_job.
LEMMA ReactionKeeps ==
  ASSUME PromiseInv, NEW s, Sound(s), Fits(js, s),
         NEW job \in ReactionJobs(Len(s.pair), Started(s)), RunReaction(s, job)
  PROVE  PromiseInv'
<1> DEFINE h == job.handler
<1>1. /\ job.cap \in 0 .. Len(s.pair) /\ h \in Handlers(Len(s.pair), Started(s))
      /\ job.rej \in BOOLEAN /\ job.arg \in Anything
  BY DEF ReactionJobs
<1>2. Sound(js) /\ Grows(js, s)
  BY FitsGrows, ZenonT(30) DEF PromiseInv
<1>3. /\ h[1] \in {"value", "throw"} => h[2] \in Anything
      /\ h[1] \in {"resolve", "reject"} => h[2] \in 1 .. Len(s.pair)
      /\ h[1] = "await" => h[2] \in Started(s)
  BY <1>1, HandlerParts, SMTT(30)
<1>4. ASSUME NEW rej \in BOOLEAN, NEW v \in Anything, js' = Finish(s, job.cap, rej, v), calls' = calls
      PROVE  PromiseInv'
  <2>1. Sound(js') /\ Fits(s, js')
    BY <1>1, <1>4, FinishSound, SMTT(30)
  <2>2. Grows(s, js')
    BY <2>1, FitsGrows, SMTT(30)
  <2>3. Grows(js, js')
    BY <1>2, <2>1, <2>2, GrowsOn, SMTT(30)
  <2> QED
    BY <1>4, <2>1, <2>3, JsKeeps, SMTT(30)
<1>5. CASE js' = Finish(s, job.cap, job.rej, job.arg) /\ calls' = calls
  BY <1>1, <1>4, <1>5, SMTT(30)
<1>6. CASE h[1] \in {"value", "throw"} /\ js' = Finish(s, job.cap, h[1] = "throw", h[2]) /\ calls' = calls
  <2>1. (h[1] = "throw") \in BOOLEAN
    BY SMTT(30)
  <2> QED
    BY <1>3, <1>4, <1>6, <2>1, ZenonT(30)
<1>7. CASE /\ h[1] \in {"resolve", "reject"} /\ calls' = calls
           /\ js' = Finish(js_promise_resolve_function_call(s, h[2], h[1] = "reject", job.arg),
                           job.cap, FALSE, Undefined)
  <2> DEFINE t == js_promise_resolve_function_call(s, h[2], h[1] = "reject", job.arg)
  <2>1. h[2] \in DOMAIN s.pair /\ (h[1] = "reject") \in BOOLEAN
    <3>1. DOMAIN s.pair = 1 .. Len(s.pair)
      BY DEF Sound, Shaped
    <3> QED
      BY <1>3, <1>7, <3>1, SMTT(30)
  <2>2. Sound(t) /\ Fits(s, t)
    BY <1>1, <2>1, ResolveSound, ZenonT(30)
  <2>3. js' = Finish(t, job.cap, FALSE, Undefined)
    BY <1>7, SMTT(30)
  <2> HIDE DEF t
  <2>4. Undefined \in Anything /\ job.cap \in 0 .. Len(t.pair)
    BY <1>1, <2>2, SMTT(30) DEF Anything, Fits
  <2>5. Sound(js') /\ Fits(t, js')
    BY <2>2, <2>3, <2>4, FinishSound, ZenonT(30)
  <2>6. Grows(s, t) /\ Grows(t, js')
    BY <2>2, <2>5, FitsGrows, SMTT(30)
  <2>7. Grows(js, js')
    BY <1>2, <2>2, <2>5, <2>6, GrowsOn, SMTT(30)
  <2> QED
    BY <1>7, <2>5, <2>7, JsKeeps, ZenonT(30)
<1>8. CASE js' = s /\ calls' = <<job>>
  <2>1. Sound(js') /\ job \in Calls(Len(js'.pair), Started(js'))
    BY <1>8, SMTT(30) DEF Calls
  <2> QED
    BY <1>8, <2>1, OneCall, SMTT(30)
<1>9. CASE /\ h[1] = "await" /\ calls' = <<[kind |-> "async", fn |-> h[2]]>>
           /\ js' = [s EXCEPT !.fn[h[2]].state =
                       IF s.fn[h[2]].state = "awaiting" THEN "running" ELSE "broken"]
  <2> DEFINE x == IF s.fn[h[2]].state = "awaiting" THEN "running" ELSE "broken"
             c == [kind |-> "async", fn |-> h[2]]
  <2>1. h[2] \in Started(s) /\ x \in {"none", "running", "awaiting", "done", "broken"}
    BY <1>3, <1>9, ZenonT(30)
  <2>2. js' = [s EXCEPT !.fn[h[2]].state = x]
    BY <1>9, ZenonT(30)
  <2> HIDE DEF x
  <2>3. Sound(js') /\ Started(js') = Started(s)
    BY <2>1, <2>2, FnStateSound, SMTT(30)
  <2>4. c \in Calls(Len(js'.pair), Started(js'))
    BY <2>1, <2>3, Zenon DEF Calls
  <2>5. calls' = <<c>>
    BY <1>9, Zenon
  <2> HIDE DEF c
  <2> QED
    BY <2>3, <2>4, <2>5, OneCall, SMTT(30)
<1> QED
  BY <1>5, <1>6, <1>7, <1>8, <1>9, ZenonT(30) DEF RunReaction

\* js_promise_resolve_thenable_job: the job's hand becomes a pair.
LEMMA ThenableKeeps ==
  ASSUME PromiseInv, NEW s, NEW job \in ThenableJobs(DOMAIN s.promise),
         InFlight(s, job.promise), Fits(js, s), RunThenable(s, job)
  PROVE  PromiseInv'
<1> DEFINE g == job.thenable = Thenable
           t == js_create_resolving_functions(s, job.promise, g)
           i == Len(t.pair)
           h == <<<<"resolve", i>>, <<"reject", i>>>>
<1>1. Sound(js) /\ g \in BOOLEAN /\ job.thenable \in DOMAIN s.promise \cup {Thenable}
  BY Zenon DEF PromiseInv, ThenableJobs
<1>2. /\ Sound(t) /\ i = Len(s.pair) + 1 /\ DOMAIN t.promise = DOMAIN s.promise /\ t.fn = s.fn
  <2> HIDE DEF g
  <2> QED
    BY <1>1, PairSound, ZenonT(30)
<1>3. /\ ~g => /\ js' = perform_promise_then(t, job.thenable, h, 0)
               /\ calls' = calls
      /\ g => js' = t /\ calls' = <<[kind |-> "then", cap |-> i]>>
  BY Zenon DEF RunThenable
<1> HIDE DEF t
<1>4. i \in Nat /\ i \in 1 .. i /\ 0 \in 0 .. i /\ Len(s.pair) \in Nat
  BY <1>2, SMTT(30) DEF Sound, Shaped, InFlight
<1>5. Grows(js, t)
  BY <1>2, <1>4, SMTT(30) DEF Fits, Grows, Started
<1>6. CASE g
  <2> DEFINE c == [kind |-> "then", cap |-> i]
  <2>1. js' = t /\ calls' = <<c>>
    BY <1>3, <1>6, ZenonT(30)
  <2>2. c \in Calls(Len(js'.pair), Started(js'))
    BY <1>4, <2>1, SMTT(30) DEF Calls
  <2> HIDE DEF c
  <2> QED
    BY <1>2, <2>1, <2>2, OneCall, Zenon
<1>7. CASE ~g
  <2>1. /\ job.thenable \in DOMAIN t.promise
        /\ js' = perform_promise_then(t, job.thenable, h, 0) /\ calls' = calls
    BY <1>1, <1>2, <1>3, <1>7, SMTT(30)
  <2>2. h[1] \in Handlers(i, Started(t)) /\ h[2] \in Handlers(i, Started(t))
    BY <1>4, ZenonT(30) DEF Handlers
  <2> HIDE DEF h, g
  <2>3. Sound(js') /\ Fits(t, js')
    BY <1>2, <1>4, <2>1, <2>2, ThenSound, SMTT(30)
  <2>4. Grows(t, js')
    BY <1>2, <2>3, FitsGrows, SMTT(30)
  <2>5. Grows(js, js')
    BY <1>1, <1>2, <1>5, <2>3, <2>4, GrowsOn, SMTT(30)
  <2> QED
    BY <2>1, <2>3, <2>5, JsKeeps, SMTT(30)
<1> QED
  BY <1>6, <1>7, ZenonT(30)

\* JS_ExecutePendingJob.
LEMMA JobKeeps ==
  ASSUME PromiseInv, JS_ExecutePendingJob
  PROVE  PromiseInv'
<1> DEFINE job == Head(js.jobs)
           s == [js EXCEPT !.jobs = Tail(js.jobs)]
<1>1. /\ Sound(js) /\ js.jobs # <<>>
      /\ (job.kind = "reaction" /\ RunReaction(s, job)) \/ (job.kind = "thenable" /\ RunThenable(s, job))
  BY Zenon DEF PromiseInv, JS_ExecutePendingJob
<1>2. /\ Shaped(s) /\ Taken(s) /\ Tracked(s) /\ ~s.again /\ OnePair(s.pair) /\ OneJob(s.jobs)
      /\ s.promise = js.promise /\ s.pair = js.pair /\ Fits(js, s) /\ Started(s) = Started(js)
      /\ job \in ReactionJobs(Len(js.pair), Started(js)) \cup ThenableJobs(DOMAIN js.promise)
      /\ \A x : MayJob(s.jobs, x) <=> MayJob(js.jobs, x) /\ ~(job.kind = "thenable" /\ job.promise = x)
  <2>1. s = [js EXCEPT !.jobs = Tail(js.jobs)]
    BY SMTT(30)
  <2> HIDE DEF s
  <2> QED
    <3>1. FirstJobOff(js, s)
      BY <1>1, <2>1, JobOff, SMTT(30)
    <3> QED
      BY <3>1, SMTT(30) DEF FirstJobOff
<1> HIDE DEF s
<1>3. CASE job.kind = "reaction" /\ RunReaction(s, job)
  <2>1. Sound(s)
    BY <1>1, <1>2, <1>3, SMTT(30) DEF Sound, OneHand
  <2>2. job \in ReactionJobs(Len(s.pair), Started(s))
    BY <1>2, <1>3, ZenonT(30) DEF ThenableJobs
  <2> HIDE DEF job
  <2> QED
    BY <1>2, <1>3, <2>1, <2>2, ReactionKeeps, SMTT(30)
<1>4. CASE job.kind = "thenable" /\ RunThenable(s, job)
  <2>1. job \in ThenableJobs(DOMAIN s.promise)
    BY <1>2, <1>4, ZenonT(30) DEF ReactionJobs
  <2>2. MayJob(js.jobs, job.promise) /\ job.promise \in DOMAIN js.promise
    <3>1. job = js.jobs[1] /\ 1 \in DOMAIN js.jobs
      BY <1>1, SMTT(30) DEF Sound, Shaped
    <3>2. job.promise \in DOMAIN js.promise
      BY <1>2, <2>1, Zenon DEF ThenableJobs
    <3> QED
      BY <1>4, <3>1, <3>2, SMTT(30) DEF MayJob
  <2> HIDE DEF job
  <2>3. OneHand(js)
    BY <1>1, Zenon DEF Sound
  <2>4. InFlight(s, job.promise)
    BY <1>2, <1>4, <2>2, <2>3, ZenonT(30) DEF InFlight, OneHand
  <2> QED
    BY <1>2, <1>4, <2>1, <2>4, ThenableKeeps, SMTT(30)
<1> QED
  BY <1>1, <1>3, <1>4, SMTT(30)

\* The invariant holds of a new context.
LEMMA PromiseInvInit ==
  ASSUME PoolDistinct, PromiseInit
  PROVE  PromiseInv
<1>1. /\ js.promise = <<>> /\ js.pair = <<>> /\ js.jobs = <<>> /\ js.unhandled = {} /\ ~js.again
      /\ js.fn = [f \in AsyncFns |-> [state |-> "none", cap |-> 0]]
      /\ js = [promise |-> js.promise, pair |-> js.pair, jobs |-> js.jobs,
               unhandled |-> js.unhandled, fn |-> js.fn, again |-> js.again]
      /\ calls = <<>>
  BY Zenon DEF PromiseInit
<1>2. DOMAIN js.promise = {} /\ js.promise = [p \in DOMAIN js.promise |-> js.promise[p]]
      /\ DOMAIN js.pair = {} /\ DOMAIN js.jobs = {} /\ Len(js.pair) = 0
  BY <1>1, SMTT(30)
<1>3. \A S : <<>> \in Seq(S)
  BY SMTT(30)
<1>4. Shaped(js)
  <2>1. js.fn \in [AsyncFns -> [state : {"none", "running", "awaiting", "done", "broken"},
                                cap : 0 .. Len(js.pair)]]
    BY <1>1, <1>2, SMTT(30)
  <2> QED
    BY <1>1, <1>2, <1>3, <2>1, SMTT(30) DEF Shaped
<1>5. Taken(js)
  <2>1. IsFiniteSet({}) /\ Cardinality({}) = 0
    BY FS_EmptySet, SMTT(30)
  <2>2. {Pool[i] : i \in 1 .. 0} = {}
    BY SMTT(30)
  <2> QED
    BY <1>2, <2>1, <2>2, SMTT(30) DEF Taken, PoolDistinct
<1>6. OneHand(js)
  BY <1>1, <1>2, SMTT(30) DEF OneHand, OnePair, OneJob
<1>7. Tracked(js)
  BY <1>1, <1>2, SMTT(30) DEF Tracked
<1> QED
  BY <1>1, <1>3, <1>4, <1>5, <1>6, <1>7, SMTT(30) DEF PromiseInv, Sound

\* The handlers that script code passes to then, catch and finally.
LEMMA ScriptHandlers ==
  ASSUME NEW h \in {<<<<"user">>, NoHandler>>, <<NoHandler, <<"user">>>>,
                    <<<<"finally", FALSE>>, <<"finally", TRUE>>>>}
  PROVE  \A n \in Nat : \A C : h[1] \in Handlers(n, C) /\ h[2] \in Handlers(n, C)
<1> SUFFICES ASSUME NEW n \in Nat, NEW C PROVE h[1] \in Handlers(n, C) /\ h[2] \in Handlers(n, C)
  OBVIOUS
<1>1. /\ <<"user">> \in Handlers(n, C) /\ NoHandler \in Handlers(n, C)
      /\ <<"finally", FALSE>> \in Handlers(n, C) /\ <<"finally", TRUE>> \in Handlers(n, C)
  BY Zenon DEF Handlers
<1>2. CASE h = <<<<"user">>, NoHandler>>
  BY <1>1, <1>2, SMTT(30)
<1>3. CASE h = <<NoHandler, <<"user">>>>
  BY <1>1, <1>3, SMTT(30)
<1>4. CASE h = <<<<"finally", FALSE>>, <<"finally", TRUE>>>>
  BY <1>1, <1>4, SMTT(30)
<1> QED
  BY <1>2, <1>3, <1>4, ZenonT(30)

\* Every step keeps the invariant.
LEMMA PromiseInvNext ==
  ASSUME PoolDistinct, PromiseInv, PromiseNext
  PROVE  PromiseInv'
<1>1. ASSUME NEW throws \in BOOLEAN, js_promise_constructor(throws) PROVE PromiseInv'
  BY <1>1, ConstructorKeeps, SMTT(30)
<1>2. ASSUME NEW i \in DOMAIN js.pair, NEW rej \in BOOLEAN, NEW v \in PromiseValues,
             CallResolvingFunction(i, rej, v)
      PROVE  PromiseInv'
  BY <1>2, CallKeeps, SMTT(30)
<1>3. ASSUME NEW v \in PromiseValues, PromiseResolve(v, FALSE) PROVE PromiseInv'
  BY <1>3, ResolveKeeps, ZenonT(30)
<1>4. CASE PromiseResolve(Plain, TRUE)
  <2>1. Plain \in PromiseValues /\ TRUE \in BOOLEAN
    BY DEF PromiseValues
  <2> QED
    BY <1>4, <2>1, ResolveKeeps, ZenonT(30)
<1>5. ASSUME NEW p \in Made, NEW h \in {<<<<"user">>, NoHandler>>, <<NoHandler, <<"user">>>>},
             js_promise_then(p, h)
      PROVE  PromiseInv'
  <2>1. \A n \in Nat : \A C : h[1] \in Handlers(n, C) /\ h[2] \in Handlers(n, C)
    BY ScriptHandlers, SMTT(30)
  <2> QED
    BY <1>5, <2>1, ThenKeeps, SMTT(30)
<1>6. ASSUME NEW p \in Made, js_promise_finally(p) PROVE PromiseInv'
  <2> DEFINE h == <<<<"finally", FALSE>>, <<"finally", TRUE>>>>
  <2>1. js_promise_then(p, h)
    BY <1>6, SMTT(30) DEF js_promise_finally
  <2>2. \A n \in Nat : \A C : h[1] \in Handlers(n, C) /\ h[2] \in Handlers(n, C)
    BY ScriptHandlers, SMTT(30)
  <2> HIDE DEF h
  <2> QED
    BY <2>1, <2>2, ThenKeeps, SMTT(30)
<1>7. ASSUME NEW f \in AsyncFns, js_async_function_call(f) PROVE PromiseInv'
  BY <1>7, AsyncCallKeeps, SMTT(30)
<1>8. ASSUME NEW v \in PromiseValues, AsyncAwait(v) PROVE PromiseInv'
  BY <1>8, AwaitKeeps, SMTT(30)
<1>9. ASSUME NEW o \in Outcomes PROVE o[1] \in BOOLEAN /\ o[2] \in Anything /\ o[2] \in Made \cup {Plain, Error}
  <2>1. o[1] \in BOOLEAN /\ o[2] \in Anything
    BY OutcomesAreValues, SMTT(30)
  <2>2. CASE o = <<TRUE, Error>>
    BY <2>1, <2>2, SMTT(30)
  <2>3. CASE o \in {FALSE} \X (Made \cup {Plain})
    <3>1. o[2] \in Made \cup {Plain}
      BY <2>3, SMTT(30)
    <3> QED
      BY <2>1, <3>1, SMTT(30)
  <2> QED
    BY <2>2, <2>3, ZenonT(30) DEF Outcomes
<1>10. ASSUME NEW o \in Outcomes, AsyncDone(o[1], o[2]) PROVE PromiseInv'
  BY <1>9, <1>10, AsyncDoneKeeps, SMTT(30)
<1>11. CASE JS_ExecutePendingJob
  BY <1>11, JobKeeps, ZenonT(30)
<1>12. ASSUME NEW o \in Outcomes, HandlerReturns(o[1], o[2]) PROVE PromiseInv'
  BY <1>9, <1>12, HandlerKeeps
<1>13. ASSUME NEW o \in Outcomes, FinallyReturns(o[1], o[2]) PROVE PromiseInv'
  BY <1>9, <1>13, FinallyKeeps, SMTT(30)
<1> QED
  BY <1>1, <1>2, <1>3, <1>4, <1>5, <1>6, <1>7, <1>8, <1>10, <1>11, <1>12, <1>13, ZenonT(30) DEF PromiseNext

\* A set without two elements has one or none.
LEMMA AtMostOne ==
  ASSUME NEW S, \A x, y \in S : x = y
  PROVE  Cardinality(S) = IF S = {} THEN 0 ELSE 1
<1>1. CASE S = {}
  BY <1>1, FS_EmptySet, SMTT(30)
<1>2. CASE S # {}
  <2>1. PICK x : S = {x}
    BY <1>2, SMTT(30)
  <2> QED
    BY <1>2, <2>1, FS_Singleton, SMTT(30)
<1> QED
  BY <1>1, <1>2, SMTT(30)

\* One hand, counted: the two sets that Rights counts have one element between them.
LEMMA OneHandSettlesOnce ==
  ASSUME PromiseInv
  PROVE  SettledOnce
<1>1. OneHand(js)
  BY Zenon DEF PromiseInv, Sound
<1>2. ASSUME NEW p \in Made
      PROVE  Rights(p) = IF js.promise[p].state = "pending" THEN 1 ELSE 0
  <2> DEFINE A == {i \in DOMAIN js.pair : js.pair[i].promise = p /\ ~js.pair[i].already}
             B == {j \in DOMAIN js.jobs : js.jobs[j].kind = "thenable" /\ js.jobs[j].promise = p}
  <2>1. /\ \A x, y \in A : x = y
        /\ \A x, y \in B : x = y
    BY <1>1, SMTT(30) DEF OneHand, OnePair, OneJob
  <2>2. (A # {} <=> MayPair(js.pair, p)) /\ (B # {} <=> MayJob(js.jobs, p))
    BY ZenonT(30) DEF MayPair, MayJob
  <2>3. /\ js.promise[p].state = "pending" <=> A # {} \/ B # {}
        /\ A = {} \/ B = {}
    BY <1>1, <1>2, <2>2, SMTT(30) DEF OneHand, Made
  <2>4. Rights(p) = Cardinality(A) + Cardinality(B)
    BY SMTT(30) DEF Rights
  <2> HIDE DEF A, B
  <2>5. /\ Cardinality(A) = IF A = {} THEN 0 ELSE 1
        /\ Cardinality(B) = IF B = {} THEN 0 ELSE 1
    BY <2>1, AtMostOne, SMTT(30)
  <2> QED
    BY <2>3, <2>4, <2>5, SMTT(30)
<1> QED
  BY <1>1, <1>2, Zenon DEF OneHand, SettledOnce

\* Once a promise is created, the invariant always holds.
LEMMA PromiseInvariant ==
  ASSUME PoolDistinct
  PROVE  PromiseSpec => []PromiseInv
<1>1. PromiseInit => PromiseInv
  BY PromiseInvInit, SMTT(30)
<1>2. PromiseInv /\ [PromiseNext]_promiseVars => PromiseInv'
  <2>1. CASE PromiseNext
    BY <2>1, PromiseInvNext, SMTT(30)
  <2>2. CASE UNCHANGED promiseVars
    BY <2>2, ZenonT(30) DEF promiseVars, PromiseInv, Started
  <2> QED
    BY <2>1, <2>2, SMTT(30)
<1> QED
  BY <1>1, <1>2, PTL DEF PromiseSpec

\* A pending promise is in the hands of exactly one unused pair or thenable job and
\* a settled one of none, so that fulfill_or_reject_promise never meets a promise that
\* is settled (its comment: "should never happen").
THEOREM PromisesSettleOnce == PoolDistinct => (PromiseSpec => []SettledOnce)
<1> SUFFICES ASSUME PoolDistinct PROVE PromiseSpec => []SettledOnce
  OBVIOUS
<1>1. PromiseSpec => []PromiseInv
  BY PromiseInvariant, SMTT(30)
<1>2. PromiseInv => SettledOnce
  BY OneHandSettlesOnce, SMTT(30)
<1> QED
  BY <1>1, <1>2, PTL

\* The host's rejection tracker knows exactly the rejected promises that no then, catch
\* or await has handled (fulfill_or_reject_promise, perform_promise_then).
THEOREM RejectionsTracked == PoolDistinct => (PromiseSpec => []UnhandledExact)
<1> SUFFICES ASSUME PoolDistinct PROVE PromiseSpec => []UnhandledExact
  OBVIOUS
<1>1. PromiseSpec => []PromiseInv
  BY PromiseInvariant
<1>2. PromiseInv => UnhandledExact
  BY DEF PromiseInv, Sound, Tracked, UnhandledExact, Made
<1> QED
  BY <1>1, <1>2, PTL
=============================================================================
