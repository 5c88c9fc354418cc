------------------------------- MODULE Atoms -------------------------------
(***************************************************************************)
(* The atom table of the script engine: property names, identifiers and    *)
(* symbols are numbers ("atoms") that stand for a string structure.  An    *)
(* atom is the index of its structure in atom_array; the structures of     *)
(* string atoms and of registered symbols are also chained in a hash table *)
(* so that equal strings get the same atom, and comparing atoms is         *)
(* comparing names.  A structure is both a string VALUE and an atom: one   *)
(* reference count is shared by the values that hold the string, the       *)
(* symbols and the atoms, and the structure leaves the table when it drops *)
(* to zero.  Concatenation may extend a string where it is.                *)
(*                                                                         *)
(* A text is a sequence of characters, characters below Radix being the    *)
(* digits.  An atom below zero is a tagged integer: number n is -(n + 1).  *)
(***************************************************************************)
EXTENDS Integers, Sequences, SequencesExt, FiniteSetsExt, TLC

CONSTANTS MaxStrings,   \* string structures that can exist at once
          Texts,        \* the texts a script starts from
          Numbers,      \* the numbers it uses as names
          Predefined,   \* the texts of the predefined atoms, a sequence
          EmptyString,  \* the predefined atom of the empty string
          Radix,        \* 10
          MaxIndex,     \* 2^32 - 1
          MaxInt,       \* JS_ATOM_MAX_INT
          HashMask,     \* one more than JS_ATOM_HASH_MASK
          HashSize,     \* initial size of the hash table
          MinArray,     \* initial size of atom_array
          AtomMax,      \* JS_ATOM_MAX
          Slack,        \* characters the allocator leaves beyond a request
          MaxLen,       \* JS_STRING_LEN_MAX
          MaxHeld       \* references of one kind to one structure

VARIABLES rt,           \* the table and the string structures
          held          \* references a script holds

vars == <<rt, held>>

Ids == 1..MaxStrings
NotAtom == 0
String == 1
Global == 2
Symbol == 3
Private == 4
\* A symbol without a description.
NoText == <<-1>>

AtomEnd == Len(Predefined) + 1
__JS_AtomIsConst(i) == i < AtomEnd
__JS_AtomFromUInt32(n) == -(n + 1)

-----------------------------------------------------------------------------
(* Names that are numbers *)

NumberOf(text) == FoldLeft(LAMBDA n, c : n * Radix + c, 0, text)

\* The digits of n.
RECURSIVE TextOf(_)
TextOf(n) == IF n < Radix THEN <<n>> ELSE Append(TextOf(n \div Radix), n % Radix)

is_num_string(text) ==
    /\ text # <<>>
    /\ \A k \in DOMAIN text : text[k] \in 0..(Radix - 1)
    /\ text[1] = 0 => Len(text) = 1
    /\ NumberOf(text) <= MaxIndex

hash_string(text, seed) == FoldLeft(LAMBDA h, c : (h * 3 + c) % HashMask, seed, text)

-----------------------------------------------------------------------------
(* The table *)

\* The indices chained from i on.
RECURSIVE Chain(_, _)
Chain(r, i) == IF i = 0 THEN <<>> ELSE <<i>> \o Chain(r, r.str[r.array[i].id].next)

Bucket(r, h) == h % Cardinality(DOMAIN r.hash)
InBucket(r, h) == Chain(r, r.hash[Bucket(r, h)])

\* Puts atom i, whose hash is h, in front of its chain.
Linked(r, i, h) == [r EXCEPT !.str[r.array[i].id].next = r.hash[Bucket(r, h)],
                             !.hash[Bucket(r, h)] = i]

JS_ResizeAtomHash(r, size) ==
    LET chains == [k \in 1..Cardinality(DOMAIN r.hash) |-> Chain(r, r.hash[k - 1])]
    IN  FoldLeft(LAMBDA n, i : Linked(n, i, n.str[n.array[i].id].hash),
                 [r EXCEPT !.hash = [k \in 0..(size - 1) |-> 0]],
                 FlattenSeq(chains))

js_get_atom_index(r, p) ==
    IF r.str[p].type = Symbol THEN r.str[p].next
    ELSE SelectSeq(InBucket(r, r.str[p].hash), LAMBDA i : r.array[i].id = p)[1]

\* The atom of the same type and text, 0 if there is none.
Registered(r, text, type) ==
    LET h == hash_string(text, type)
        same == SelectSeq(InBucket(r, h),
                          LAMBDA i : LET s == r.str[r.array[i].id]
                                     IN  s.hash = h /\ s.type = type /\ s.text = text)
    IN  IF same = <<>> THEN 0 ELSE same[1]

JS_FreeAtomStruct(r, p) ==
    LET i == js_get_atom_index(r, p)
        next == r.str[p].next
        chain == InBucket(r, r.str[p].hash)
        out == IF r.str[p].type = Symbol THEN r
               ELSE IF chain[1] = i THEN [r EXCEPT !.hash[Bucket(r, r.str[p].hash)] = next]
               ELSE LET k == CHOOSE n \in DOMAIN chain : chain[n] = i
                    IN  [r EXCEPT !.str[r.array[chain[k - 1]].id].next = next]
    IN  [out EXCEPT !.array[i] = [free |-> TRUE, id |-> r.free], !.free = i,
                    !.str[p].rc = 0, !.count = @ - 1]

js_free_string(r, p) ==
    IF r.str[p].rc > 1 THEN [r EXCEPT !.str[p].rc = @ - 1]
    ELSE IF r.str[p].type # NotAtom THEN JS_FreeAtomStruct(r, p)
    ELSE [r EXCEPT !.str[p].rc = 0]

-----------------------------------------------------------------------------
(* Making atoms *)

Unused(r) == {p \in Ids : r.str[p].rc = 0}

\* A new structure for the text; the allocator leaves some room behind it.
js_alloc_string(r, text) ==
    LET p == Min(Unused(r))
    IN  [r |-> [r EXCEPT !.str[p] = [rc |-> 1, text |-> text, type |-> NotAtom, hash |-> 0,
                                     next |-> 0, room |-> Len(text) + Slack]],
         p |-> p]

\* Growth of atom_array by half; the new entries form the free list.
Grown(r) ==
    LET old == Cardinality(DOMAIN r.array)
        size == Max({MinArray, (old * 3) \div 2})
    IN  [r EXCEPT !.array = [i \in 0..(size - 1) |->
                               IF i < old THEN r.array[i]
                               ELSE [free |-> TRUE, id |-> IF i = size - 1 THEN 0 ELSE i + 1]],
                  !.free = old]

\* Structure p becomes the atom in the first free entry.
Entered(r, p, h, type) ==
    LET i == r.free
        e == [r EXCEPT !.free = r.array[i].id, !.array[i] = [free |-> FALSE, id |-> p],
                       !.str[p].hash = h, !.str[p].next = i, !.str[p].type = type,
                       !.count = @ + 1]
        n == Linked(e, i, h)
        size == Cardinality(DOMAIN r.hash)
    IN  [atom |-> i,
         r |-> IF type = Symbol THEN e
               ELSE IF n.count >= 2 * size THEN JS_ResizeAtomHash(n, 2 * size) ELSE n]

\* Always turns the structure it is given into the atom.
Structure_Same(r, p) ==
    IF p = 0 THEN js_alloc_string(r, NoText) ELSE [r |-> r, p |-> p]

\* The structure the new atom uses: p itself unless it is an atom already.
Structure(r, p) ==
    IF p = 0 THEN js_alloc_string(r, NoText)
    ELSE IF r.str[p].type = NotAtom THEN [r |-> r, p |-> p]
    ELSE LET c == js_alloc_string(r, r.str[p].text)
         IN  [c EXCEPT !.r = js_free_string(c.r, p)]

\* Consumes the reference to p, if any.
__JS_NewAtom(r, p, type) ==
    LET found == IF type >= Symbol THEN 0 ELSE Registered(r, r.str[p].text, type)
        counted == IF __JS_AtomIsConst(found) THEN r
                   ELSE [r EXCEPT !.str[r.array[found].id].rc = @ + 1]
        g == IF r.free = 0 THEN Grown(r) ELSE r
        s == Structure(g, p)
        h == IF type >= Symbol THEN type ELSE hash_string(s.r.str[s.p].text, type)
    IN  IF type < Symbol /\ r.str[p].type = type THEN
            LET i == js_get_atom_index(r, p)
            IN  [atom |-> i, r |-> IF __JS_AtomIsConst(i) THEN js_free_string(r, p) ELSE r]
        ELSE IF found # 0 THEN [atom |-> found, r |-> js_free_string(counted, p)]
        ELSE IF r.free = 0 /\ Cardinality(DOMAIN g.array) > AtomMax THEN
            [atom |-> 0, r |-> IF p = 0 THEN r ELSE js_free_string(r, p)]
        ELSE Entered(s.r, s.p, h, IF type = Private THEN Symbol ELSE type)

JS_NewAtomStr(r, p) ==
    LET n == NumberOf(r.str[p].text)
    IN  IF is_num_string(r.str[p].text) /\ n <= MaxInt
        THEN [atom |-> __JS_AtomFromUInt32(n), r |-> js_free_string(r, p)]
        ELSE __JS_NewAtom(r, p, String)

\* Looks the text up before it makes a string, unless it starts with a digit.
JS_NewAtomLen(r, text) ==
    LET found == Registered(r, text, String)
        s == js_alloc_string(r, text)
    IN  IF (text = <<>> \/ text[1] >= Radix) /\ found # 0 THEN
            [atom |-> found,
             r |-> IF __JS_AtomIsConst(found) THEN r
                   ELSE [r EXCEPT !.str[r.array[found].id].rc = @ + 1]]
        ELSE JS_NewAtomStr(s.r, s.p)

JS_NewAtomUInt32(r, n) ==
    LET s == js_alloc_string(r, TextOf(n))
    IN  IF n <= MaxInt THEN [atom |-> __JS_AtomFromUInt32(n), r |-> r]
        ELSE __JS_NewAtom(s.r, s.p, String)

\* The structure a string value made of an atom points to.
__JS_AtomToValue(r, i) ==
    LET p == r.array[i].id
    IN  IF r.str[p].text = NoText THEN r.array[EmptyString].id ELSE p

JS_DupAtom(r, i) ==
    IF __JS_AtomIsConst(i) THEN r ELSE [r EXCEPT !.str[r.array[i].id].rc = @ + 1]

JS_FreeAtom(r, i) ==
    IF __JS_AtomIsConst(i) THEN r ELSE js_free_string(r, r.array[i].id)

-----------------------------------------------------------------------------
(* Concatenation *)

InPlace(r, p, q) ==
    r.str[p].rc = 1 /\ Len(r.str[p].text) + Len(r.str[q].text) <= r.str[p].room

\* Consumes both operands; structure 0 is an exception.
JS_ConcatString(r, p, q) ==
    LET text == r.str[p].text \o r.str[q].text
        s == js_alloc_string(r, text)
    IN  IF r.str[q].text = <<>> THEN [p |-> p, r |-> js_free_string(r, q)]
        ELSE IF InPlace(r, p, q) THEN
            [p |-> p, r |-> js_free_string([r EXCEPT !.str[p].text = text], q)]
        ELSE IF Len(text) > MaxLen THEN [p |-> 0, r |-> js_free_string(js_free_string(r, p), q)]
        ELSE [p |-> s.p, r |-> js_free_string(js_free_string(s.r, p), q)]

-----------------------------------------------------------------------------
(* What a script and the engine do with atoms.  held.val and held.sym count *)
(* the string and symbol values that point to a structure, held.atom the    *)
(* references to an atom.                                                   *)

Count(f, x) == IF x \in DOMAIN f THEN f[x] ELSE 0
More(f, x) == [y \in DOMAIN f \cup {x} |-> Count(f, y) + IF y = x THEN 1 ELSE 0]
Less(f, x) == [y \in {z \in DOMAIN f : z # x \/ f[z] > 1} |-> IF y = x THEN f[y] - 1 ELSE f[y]]

\* A call makes at most one structure.
Room == Unused(rt) # {}
May(f, x) == Count(f, x) < MaxHeld

\* The caller keeps the atom a call returned, unless it is none or a number.
Keep(h, made) ==
    /\ made.atom > 0 => May(h.atom, made.atom)
    /\ rt' = made.r
    /\ held' = IF made.atom > 0 THEN [h EXCEPT !.atom = More(@, made.atom)] ELSE h

KeepSymbol(h, made) ==
    LET p == made.r.array[made.atom].id
    IN  IF made.atom = 0 THEN rt' = made.r /\ held' = h
        ELSE /\ May(h.sym, p)
             /\ rt' = made.r
             /\ held' = [h EXCEPT !.sym = More(@, p)]

KeepString(r, h, p) ==
    /\ May(h.val, p)
    /\ rt' = r
    /\ held' = [h EXCEPT !.val = More(@, p)]

Dup(p) == [rt EXCEPT !.str[p].rc = @ + 1]
Less1(f) == [held EXCEPT !.val = f]

JS_NewString(text) ==
    /\ Room
    /\ LET s == js_alloc_string(rt, text) IN KeepString(s.r, held, s.p)

JS_DupValue(p) == p \in DOMAIN held.val /\ KeepString(Dup(p), held, p)

JS_FreeValue(p, kind) ==
    /\ p \in DOMAIN held[kind]
    /\ rt' = js_free_string(rt, p)
    /\ held' = [held EXCEPT ![kind] = Less(@, p)]

\* The key of a property access: the value is used up.
JS_ValueToAtom(p) ==
    /\ Room
    /\ p \in DOMAIN held.val
    /\ Keep([held EXCEPT !.val = Less(@, p)], JS_NewAtomStr(rt, p))

js_symbol_to_atom(p) ==
    /\ p \in DOMAIN held.sym
    /\ Keep([held EXCEPT !.sym = Less(@, p)], [atom |-> js_get_atom_index(rt, p), r |-> rt])

NewAtomLen(text) == Room /\ Keep(held, JS_NewAtomLen(rt, text))
NewAtomUInt32(n) == Room /\ Keep(held, JS_NewAtomUInt32(rt, n))

js_symbol_constructor(type) ==
    /\ Room
    /\ \/ KeepSymbol(held, __JS_NewAtom(rt, 0, type))
       \/ \E p \in DOMAIN held.val : KeepSymbol(held, __JS_NewAtom(Dup(p), p, type))

js_symbol_for(p) ==
    /\ Room
    /\ p \in DOMAIN held.val
    /\ KeepSymbol(held, __JS_NewAtom(Dup(p), p, Global))

js_symbol_keyFor(p) ==
    /\ p \in DOMAIN held.sym
    /\ rt.str[p].type = Global
    /\ KeepString(Dup(p), held, p)

js_symbol_get_description(p) ==
    /\ p \in DOMAIN held.sym
    /\ rt.str[p].text # NoText
    /\ KeepString(Dup(p), held, p)

\* A function or a class member named after a symbol or a name.
JS_AtomToString(i) ==
    LET p == __JS_AtomToValue(rt, i) IN KeepString(Dup(p), held, p)

JS_NewSymbolFromAtom(i, type) ==
    LET p == rt.array[i].id
    IN  Room /\ rt.str[p].type = String /\ KeepSymbol(held, __JS_NewAtom(Dup(p), p, type))

js_atom_concat_str(i, text) ==
    LET p == __JS_AtomToValue(rt, i)
        made == JS_NewAtomLen(Dup(p), rt.str[p].text \o text)
    IN  /\ Room
        /\ Len(rt.str[p].text \o text) <= MaxLen
        /\ Keep(held, [made EXCEPT !.r = js_free_string(@, p)])

DupAtom(i) == Keep(held, [atom |-> i, r |-> JS_DupAtom(rt, i)])

FreeAtom(i) ==
    /\ i \in DOMAIN held.atom
    /\ rt' = JS_FreeAtom(rt, i)
    /\ held' = [held EXCEPT !.atom = Less(@, i)]

Concat(p, q) ==
    LET h == Less1(Less(Less(held.val, p), q))
        c == JS_ConcatString(rt, p, q)
    IN  /\ Room
        /\ p \in DOMAIN held.val /\ q \in DOMAIN Less(held.val, p)
        /\ NoText \notin {rt.str[p].text, rt.str[q].text}
        /\ IF c.p = 0 THEN rt' = c.r /\ held' = h ELSE KeepString(c.r, h, c.p)

-----------------------------------------------------------------------------

EmptyTable ==
    [str |-> [p \in Ids |-> [rc |-> 0, text |-> <<>>, type |-> NotAtom, hash |-> 0, next |-> 0,
                             room |-> 0]],
     array |-> (0 :> [free |-> FALSE, id |-> 0]), free |-> 0,
     hash |-> [k \in 0..(HashSize - 1) |-> 0], count |-> 1]

JS_InitAtoms ==
    FoldLeft(LAMBDA r, text : LET s == js_alloc_string(r, text)
                              IN  __JS_NewAtom(s.r, s.p, String).r,
             EmptyTable, Predefined)

None == [x \in {} |-> 0]

AtomsInit == rt = JS_InitAtoms /\ held = [val |-> None, sym |-> None, atom |-> None]

AtomsNext ==
    \/ \E t \in Texts : JS_NewString(t) \/ NewAtomLen(t)
    \/ \E n \in Numbers : NewAtomUInt32(n)
    \/ \E p \in Ids : \/ JS_DupValue(p) \/ JS_FreeValue(p, "val") \/ JS_FreeValue(p, "sym")
                      \/ JS_ValueToAtom(p) \/ js_symbol_to_atom(p) \/ js_symbol_for(p)
                      \/ js_symbol_keyFor(p) \/ js_symbol_get_description(p)
                      \/ \E q \in Ids : Concat(p, q)
    \/ js_symbol_constructor(Symbol)
    \/ \E i \in DOMAIN held.atom : \/ JS_AtomToString(i) \/ DupAtom(i) \/ FreeAtom(i)
                                  \/ JS_NewSymbolFromAtom(i, Private)
                                  \/ \E t \in Texts : js_atom_concat_str(i, t)

-----------------------------------------------------------------------------
(* Properties *)

Entries == {i \in DOMAIN rt.array \ {0} : ~rt.array[i].free}
Struct(i) == rt.str[rt.array[i].id]
Named == {i \in Entries : Struct(i).type \in {String, Global}}

\* The entries on the free list.
RECURSIVE FreeFrom(_, _)
FreeFrom(r, i) == IF i = 0 THEN {} ELSE {i} \cup FreeFrom(r, r.array[i].id)

\* The atom table never loses or keeps an entry it should not: every structure
\* is counted by exactly the values, symbols and atoms that refer to it (and by
\* the table for a predefined atom), what is in use and what is on the free
\* list divide atom_array, and each named atom is reached in its own chain
\* once (__JS_NewAtom, JS_FreeAtomStruct, JS_ResizeAtomHash).
AtomTableExact ==
    /\ \A p \in Ids :
          LET at == {i \in Entries : rt.array[i].id = p}
          IN  /\ rt.str[p].rc = Count(held.val, p) + Count(held.sym, p)
                               + (IF \E i \in at : i < AtomEnd THEN 1
                                  ELSE IF at = {} THEN 0
                                  ELSE Count(held.atom, CHOOSE i \in at : TRUE))
              /\ rt.str[p].rc > 0 => (Cardinality(at) = IF rt.str[p].type = NotAtom THEN 0 ELSE 1)
              /\ rt.str[p].rc = 0 => at = {}
    /\ FreeFrom(rt, rt.free) = (DOMAIN rt.array \ {0}) \ Entries
    /\ DOMAIN held.atom \subseteq Entries
    /\ rt.count = Cardinality(Entries) + 1
    /\ \A i \in Named : Cardinality({k \in DOMAIN InBucket(rt, Struct(i).hash) :
                                        InBucket(rt, Struct(i).hash)[k] = i}) = 1

\* Two names are equal exactly when their atoms are: no text has two atoms of
\* one type, and none of them is a text that stands for a tagged integer
\* ("str is the atom, return its index", quickjs.c:2702).
AtomsUnique ==
    /\ \A i, j \in Named : i # j => Struct(i).type # Struct(j).type \/ Struct(i).text # Struct(j).text
    /\ \A i \in Entries : Struct(i).type = String /\ is_num_string(Struct(i).text)
                            => NumberOf(Struct(i).text) > MaxInt

=============================================================================
