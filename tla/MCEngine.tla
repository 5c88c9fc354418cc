-------------------------------- MODULE MCEngine --------------------------------
(* An instance of the state machines of the QuickJS engine. First the function      *)
(* bodies that Bytecode runs in it: a jump or a throw in every pair of enclosing     *)
(* statements, inside a labelled while; blocks whose variables are captured; and for *)
(* loops with a captured variable.                                                   *)
EXTENDS Bytecode, Integers, Sequences, TLC

Call(id) == <<"call", id>>
Runs(id) == <<"expr", Call(id)>>
Block(ss) == <<"block", ss>>
Iteration(n) == IF n = 1 THEN [start |-> "s1", next |-> "n1", store |-> "x1", close |-> "c1"]
                ELSE [start |-> "s2", next |-> "n2", store |-> "x2", close |-> "c2"]
Clause(test, body) == [test |-> test, body |-> body]

\* The statement s inside another one.
Wrap(w, n, s) ==
    CASE w = "while" -> <<"while", NoLabel, Call("t"), s>>
      [] w = "do" -> <<"do", NoLabel, s, Call("t")>>
      [] w = "for" -> <<"for", NoLabel, None, Call("t"), Call("i"), s>>
      [] w = "ever" -> <<"for", NoLabel, None, None, Call("i"), s>>
      [] w \in {"of", "in"} -> <<w, NoLabel, Iteration(n), s>>
      [] w = "switch" -> <<"switch", Call("a"), <<Clause(Call("t"), <<>>), Clause(Call("t"), <<s>>),
                                                  Clause(None, <<Runs("d")>>), Clause(Call("t"), <<Runs("e")>>)>> >>
      [] w = "finally" -> <<"try", Block(<<s>>), None, Block(<<Runs("f")>>)>>
      [] w = "catch" -> <<"try", Block(<<s>>), Block(<<Runs("g")>>), None>>
      [] w = "catching" -> <<"try", Block(<<Runs("b")>>), Block(<<s>>), Block(<<Runs("f")>>)>>
      [] w = "finishing" -> <<"try", Block(<<Runs("b")>>), None, Block(<<s>>)>>
      [] w = "if" -> <<"ifelse", <<"and", Call("t"), Call("u")>>, s, Runs("d")>>
      [] w = "label" -> <<"label", "M", Block(<<s, Runs("e")>>)>>

Wraps == <<"while", "do", "for", "ever", "of", "in", "switch", "finally", "catch", "catching",
           "finishing", "if", "label">>
Leaving == << <<"break", "L">>, <<"continue", "L">>, <<"return", Call("r")>>, <<"return", None>>,
              <<"throw", Call("r")>>, <<"break", NoLabel>>, <<"continue", NoLabel>> >>

\* Every number stands for two statements and a jump; the labelled block is left by
\* a jump with a label only.
Numbered == SelectSeq([n \in 1..(13 * 13 * 7) |->
                         <<(((n - 1) \div 7) \div 13) + 1, (((n - 1) \div 7) % 13) + 1, ((n - 1) % 7) + 1>>],
                     LAMBDA c : c[3] > 5 => (c[1] # 13 /\ c[2] # 13))
Nested(c) == << <<"while", "L", <<"or", Call("p"), Call("q")>>,
                  Block(<<Wrap(Wraps[c[1]], 1, Wrap(Wraps[c[2]], 2, Leaving[c[3]])), Runs("z")>>)>> >>
Jumping == LET cs == Numbered IN [i \in 1..Len(cs) |-> Nested(cs[i])]

Capture(x) == <<"expr", <<"closure", x>> >>
Capturing ==
    [i \in 1..84 |->
        LET w == Wraps[((i - 1) \div 7) + 1]
            j == Leaving[((i - 1) % 7) + 1]
        IN  << <<"while", "L", Call("p"),
                 Block(<< <<"let", "x">>, Capture("x"),
                          Wrap(w, 1, Block(<< <<"let", "y">>, Capture("y"), <<"if", Call("u"), j>>,
                                              Capture("y")>>)),
                          Capture("x")>>)>> >>]
ForLet(s) == << <<"for", "L", <<"let", "x">>, Call("p"), Call("step"), Block(<<Capture("x"), s>>)>> >>

MCBodies ==
    Jumping \o Capturing
      \o <<ForLet(Runs("z")), ForLet(<<"if", Call("t"), <<"break", "L">> >>),
           ForLet(<<"if", Call("t"), <<"return", Call("r")>> >>)>>
\* Appending nothing has the table evaluated as a tuple. TLC evaluates a definition
\* once and a constant whenever it is used.
CompiledBodies ==
    LET bodies == MCBodies
    IN  [f \in DOMAIN bodies |-> js_create_function(bodies[f])] \o <<>>
MCCompiled == LET table == CompiledBodies IN table
MCTests == {"p", "q", "t", "u", "n1", "n2"}
MCThrowers == {"b", "r", "c1", "x1", "n1"}

-----------------------------------------------------------------------------
(* The patterns, flags and texts that Regexps matches in the instance: every      *)
(* kind of quantifier over every kind of atom, alone, nested, in a lookbehind, in  *)
(* a captured group that is referred back to, and over surrogate pairs.            *)

MCUpper == ("a" :> "A") @@ ("b" :> "B")
MCInf == 9

LOCAL Compiler == INSTANCE Regexps WITH
    Inf <- MCInf, Upper <- MCUpper, NL <- "n", Jobs <- {}, job <- 0, vm <- 0

LetterA == <<"char", "a">>
LetterB == <<"char", "b">>
Dot == <<"dot">>
Seq2(x, y) == <<"seq", x, y>>
Simple == {LetterA, Dot, <<"class", {"b"}, TRUE>>, <<"bol">>, <<"eol">>, <<"wordb", FALSE>>, <<"empty">>}
Choice == {<<"alt", x, y>> : x \in {LetterA, <<"empty">>}, y \in {LetterB, Seq2(LetterA, LetterB)}}
Repeatable ==
    Simple \cup Choice
    \cup {Seq2(LetterA, Dot), <<"cap", 1, LetterA>>, <<"cap", 1, <<"alt", LetterA, LetterB>> >>,
          <<"look", LetterA, FALSE, FALSE>>, <<"look", LetterA, TRUE, FALSE>>}

\* A lazy loop over an atom that may be empty does not end.
Quantified(atoms) ==
    {q \in {<<"quant", x, n[1], n[2], greedy>> :
               x \in atoms, greedy \in BOOLEAN,
               n \in {<<0, 1>>, <<0, MCInf>>, <<1, MCInf>>, <<2, 3>>, <<0, 2>>, <<2, 2>>, <<0, 0>>, <<2, MCInf>>}} :
        q[4] = MCInf /\ Compiler!CanBeEmpty(q[2]) => q[5]}
Once == Quantified(Repeatable)
Of(atoms) == {q \in Once : q[2] \in atoms}

Plainly == {Seq2(q, LetterB) : q \in Once}
Nestedly == {Seq2(q, LetterB) : q \in Quantified(Of({LetterA} \cup Choice))}
Behind == {Seq2(Dot, Seq2(<<"look", Seq2(q, LetterA), not, TRUE>>, Dot)) :
             q \in Of({LetterA, Dot, <<"cap", 1, LetterA>>} \cup Choice), not \in BOOLEAN}
Again == {Seq2(<<"cap", 1, q>>, <<"back", 1>>) : q \in Of({LetterA} \cup Choice)}
         \cup {Seq2(Dot, <<"look", Seq2(<<"back", 1>>, <<"cap", 1, <<"alt", LetterA, LetterB>> >>), FALSE, TRUE>>)}
Bounded == {Seq2(q, y) : q \in Of(Simple), y \in {LetterA, <<"eol">>, <<"look", Dot, FALSE, TRUE>>}}
Pairs == {Seq2(<<"cap", 1, q>>, Seq2(x, x)) : q \in Of({Dot}), x \in {<<"class", {"b"}, TRUE>>}}

Flagged(flags) == [x \in {"icase", "multiline", "dotall", "sticky", "utf16"} |-> x \in flags]
Matching(patterns, flags, texts) ==
    {[t |-> t, f |-> Flagged(f), text |-> x] : t \in patterns, f \in flags, x \in texts}

MCJobs ==
    Matching(Plainly, {{}}, {<<"a", "a", "b">>, <<"b", "a", "a">>})
    \cup Matching(Plainly, {{"sticky"}}, {<<"a", "b", "a", "b">>})
    \cup Matching(Nestedly, {{}}, {<<"a", "b", "a">>})
    \cup Matching(Behind, {{}}, {<<"a", "a", "b">>, <<"b", "a", "a">>})
    \cup Matching(Again, {{}, {"icase"}}, {<<"a", "A", "b">>})
    \cup Matching(Bounded, {{"utf16", "dotall"}, {"multiline", "icase"}}, {<<"H", "L", "A">>, <<"L", "n", "b">>})
    \cup Matching(Pairs, {{"utf16"}}, {<<"a", "H", "L", "a">>, <<"L", "H", "L", "b">>})

-----------------------------------------------------------------------------
(* The state machines of the QuickJS engine, side by side. They share no state in  *)
(* the models, so a behaviour is one of one part, chosen at the start, while the    *)
(* variables of the others stay at rest. The bounds are in the configuration.       *)

CONSTANTS
    Chosen,                         \* the parts to run
    Null, Undefined, Absent,        \* as in JSHeap, MapRecords, Promises and ArrayElements
    Getter, Plain, Thenable, BadThen, Thrown,
    p1, p2, p3,                     \* promises
    Slack, MaxStrings, AtomMax      \* of Atoms

VARIABLES part, heap, held, gc, rec, map, iter, ret, js, calls, comb, gen, ag, shape, obj, a, chain,
          aim, revoked, known, job, re, rt, names, env, walk

Heap == INSTANCE JSHeap WITH
    Objects <- {"a", "b"}, WeakMaps <- {"m"}, Parts <- {"v"}, Slots <- {"s"}, MaxHeld <- 1

MapHash == ("a" :> 1) @@ ("z" :> 2) @@ ("n" :> 3)
Map == INSTANCE MapRecords WITH
    Keys <- {"a", "z", "n"}, Vals <- {"x"}, Iters <- {"i", "j"}, Zero <- "z", NegZero <- "n",
    Hash <- MapHash, InitialThreshold <- 2, MaxRecords <- 4

Prom == INSTANCE Promises WITH
    Pool <- <<p1, p2, p3>>, Error <- Thrown, AsyncFns <- {"f"}, MaxPairs <- 3,
    MaxElements <- 3
Gen == INSTANCE Generators WITH MaxRequests <- 3

Shp == INSTANCE Shapes WITH
    Objs <- {1, 2}, NoProto <- 0, NoAtom <- 0, Atoms <- {1, 2}, Flags <- {0, 1}, Vals <- {7},
    Configurable <- {1}, InitialSize <- 1, CompactFrom <- 2, HashBits <- 2, MaxProps <- 3

Descriptor(val, get, w, c) == [val |-> val, get |-> get, w |-> w, c |-> c]
MCDescriptors ==
    {Descriptor("v", Absent, "yes", "yes"), Descriptor("v", Absent, "no", "no"),
     Descriptor("v", Absent, "yes", "no"), Descriptor("v", Absent, Absent, Absent),
     Descriptor(Absent, Absent, "no", Absent), Descriptor(Absent, Getter, Absent, "yes")}
Arr == INSTANCE ArrayElements WITH
    Indices <- {0, 1, 4}, Lengths <- {0, 5}, Vals <- {"v"}, Descriptors <- MCDescriptors,
    CompactFrom <- 2, MaxPlaces <- 3

Proxy == INSTANCE Proxies WITH Values <- {"v", "w"}, Protos <- {"A", "B"}, Undef <- "undefined",
    target <- aim

Regexp == INSTANCE Regexps WITH
    Inf <- MCInf, Upper <- MCUpper, NL <- "n", Jobs <- MCJobs, vm <- re

Atom == INSTANCE Atoms WITH
    Texts <- {<<>>, <<1>>, <<20>>}, Numbers <- {11}, Predefined <- << <<>> >>, EmptyString <- 1, Radix <- 10,
    MaxIndex <- 11, MaxInt <- 5, HashMask <- 8, HashSize <- 1, MinArray <- 2,
    MaxLen <- 2, MaxHeld <- 1, held <- names

Closure == INSTANCE Closures WITH
    Frames <- {1, 2}, Locals <- {"x"}, Args <- {"a"}, Vals <- {"u", "v"}, Undef <- "u",
    Refs <- 1..3, Holders <- {1, 2}, Cells <- 1..4

Object(class, count, props) == [class |-> class, count |-> count, props |-> props]
Prop(n, e) == [n |-> n, e |-> e]
MCChains ==
    {<<o, proto>> :
        o \in {Object("array", 2, <<>>), Object("array", 1, <<Prop(10, FALSE)>>),
               Object("array", 1, <<Prop(10, TRUE)>>), Object("string", 1, <<Prop(2, TRUE), Prop(1, TRUE)>>),
               Object("object", 0, <<Prop(10, TRUE), Prop(1, TRUE), Prop(0, TRUE)>>),
               Object("object", 0, <<Prop(20, TRUE), Prop(11, FALSE), Prop(10, TRUE)>>)},
        proto \in {Object("object", 0, ps) :
                      ps \in {<<>>, <<Prop(10, FALSE)>>, <<Prop(11, TRUE), Prop(0, TRUE)>>, <<Prop(10, TRUE)>>}}}
Props == INSTANCE Properties WITH
    ChainLength <- 3, WriteVal <- "new", InitVal <- "init", OldVal <- "old",
    Names <- {0, 1, 2, 10, 11, 20}, Chains <- MCChains, MaxChanges <- 2

-----------------------------------------------------------------------------
heapState == <<heap, held, gc>>
mapState == <<rec, map, iter, ret>>
promiseState == <<js, calls>>
allState == <<comb>>
generatorState == <<gen, ag>>
shapesState == <<shape, obj>>
arrayState == <<a>>
chainState == <<chain>>
proxyState == <<aim, revoked, known>>
regexpState == <<job, re>>
codeState == <<fn, vm>>
atomsState == <<rt, names>>
closuresState == <<env>>
walksState == <<walk>>
engineVars == <<part, heapState, mapState, promiseState, allState, generatorState, shapesState, arrayState, chainState, proxyState, regexpState, codeState, atomsState, closuresState, walksState>>

\* The variables of a part that is not the chosen one.
Rest == "rest"

EngineInit ==
    /\ part \in Chosen
    /\ IF part = "heap" THEN Heap!HeapInit ELSE heap = Rest /\ held = Rest /\ gc = Rest
    /\ IF part = "map" THEN Map!MapInit ELSE rec = Rest /\ map = Rest /\ iter = Rest /\ ret = Rest
    /\ IF part = "promise" THEN Prom!PromiseInit ELSE js = Rest /\ calls = Rest
    /\ IF part = "all" THEN Prom!CombInit ELSE comb = Rest
    /\ IF part = "generator" THEN Gen!GenInit ELSE gen = Rest /\ ag = Rest
    /\ IF part = "shapes" THEN Shp!ShapesInit ELSE shape = Rest /\ obj = Rest
    /\ IF part = "array" THEN Arr!ArrayInit ELSE a = Rest
    /\ IF part = "chain" THEN Props!ChainInit ELSE chain = Rest
    /\ IF part = "proxy" THEN Proxy!ProxyInit ELSE aim = Rest /\ revoked = Rest /\ known = Rest
    /\ IF part = "regexp" THEN Regexp!RegexpInit ELSE job = Rest /\ re = Rest
    /\ IF part = "code" THEN BytecodeInit ELSE fn = Rest /\ vm = Rest
    /\ IF part = "atoms" THEN Atom!AtomsInit ELSE rt = Rest /\ names = Rest
    /\ IF part = "closures" THEN Closure!ClosuresInit ELSE env = Rest
    /\ IF part = "walks" THEN Props!EnumerationInit ELSE walk = Rest

Only(p) ==
    /\ UNCHANGED part
    /\ IF p = "heap" THEN TRUE ELSE UNCHANGED heapState
    /\ IF p = "map" THEN TRUE ELSE UNCHANGED mapState
    /\ IF p = "promise" THEN TRUE ELSE UNCHANGED promiseState
    /\ IF p = "all" THEN TRUE ELSE UNCHANGED allState
    /\ IF p = "generator" THEN TRUE ELSE UNCHANGED generatorState
    /\ IF p = "shapes" THEN TRUE ELSE UNCHANGED shapesState
    /\ IF p = "array" THEN TRUE ELSE UNCHANGED arrayState
    /\ IF p = "chain" THEN TRUE ELSE UNCHANGED chainState
    /\ IF p = "proxy" THEN TRUE ELSE UNCHANGED proxyState
    /\ IF p = "regexp" THEN TRUE ELSE UNCHANGED regexpState
    /\ IF p = "code" THEN TRUE ELSE UNCHANGED codeState
    /\ IF p = "atoms" THEN TRUE ELSE UNCHANGED atomsState
    /\ IF p = "closures" THEN TRUE ELSE UNCHANGED closuresState
    /\ IF p = "walks" THEN TRUE ELSE UNCHANGED walksState

EngineNext ==
    \/ part = "heap" /\ Heap!HeapNext /\ Only("heap")
    \/ part = "map" /\ Map!MapNext /\ Only("map")
    \/ part = "promise" /\ Prom!PromiseNext /\ Only("promise")
    \/ part = "all" /\ Prom!CombNext /\ Only("all")
    \/ part = "generator" /\ Gen!GenNext /\ Only("generator")
    \/ part = "shapes" /\ Shp!ShapesNext /\ Only("shapes")
    \/ part = "array" /\ Arr!ArrayNext /\ Only("array")
    \/ part = "chain" /\ Props!ChainNext /\ Only("chain")
    \/ part = "proxy" /\ Proxy!ProxyNext /\ Only("proxy")
    \/ part = "regexp" /\ Regexp!RegexpNext /\ Only("regexp")
    \/ part = "code" /\ BytecodeNext /\ Only("code")
    \/ part = "atoms" /\ Atom!AtomsNext /\ Only("atoms")
    \/ part = "closures" /\ Closure!ClosuresNext /\ Only("closures")
    \/ part = "walks" /\ Props!EnumerationNext /\ Only("walks")

EngineSpec == EngineInit /\ [][EngineNext]_engineVars
-----------------------------------------------------------------------------
(* The properties of the parts; the comments in their modules say more.           *)

\* Outside the collector, ref_count is the number of references to a node (JS_DupValue,
\* JS_FreeValue, set_value); what the program can reach is not freed at any step of
\* free_zero_refcount or JS_RunGC; gc_scan keeps exactly that; and the assertions at
\* the end of gc_free_cycles and of JS_FreeRuntime hold.
HeapSound ==
    part = "heap" =>
        /\ Heap!RefCountsExact /\ Heap!NoDangling /\ Heap!OnlyValuesLeft
        /\ Heap!CollectsGarbage /\ Heap!RuntimeFreedEmpty

\* A map record lives as long as it is in the map or an iterator stands on it
\* (map_delete_record, map_decref_record), and the hash table and the record count
\* describe the list of records (map_hash_resize, map_add_record).
RecordsKept == part = "map" => Map!RecordsLocked /\ Map!TableMatchesList

\* A Map or Set behaves as the list of entries of MapSpec under any interleaving of
\* changes and iterations (js_map_set, js_map_delete, js_map_iterator_next).
MapImplementsSpec ==
    /\ part = "map" => Map!Promise!MSInit
    /\ [][part = "map" => Map!Promise!MSStep]_mapState

\* fulfill_or_reject_promise never meets a promise that is already settled; a reaction is
\* neither lost nor run twice (perform_promise_then, js_async_function_resolve_call); the
\* rejection tracker knows exactly the rejected promises that nothing has handled; and
\* the result of Promise.all, allSettled and any is settled by the count exactly when
\* all elements have been seen and answered (js_promise_all).
PromisesSound ==
    /\ part = "promise" => Prom!SettledOnce /\ Prom!ReactionsOnce /\ Prom!UnhandledExact
    /\ part = "all" => Prom!CompleteWhenSettled /\ Prom!SettledWhenComplete

\* The frame of a generator is freed once and never run after that; the assertions of
\* js_async_generator_resolve_function hold; and only a completed async generator leaves a
\* request with nothing left to answer it (js_async_generator_resume_next).
GeneratorsSound ==
    part = "generator" => Gen!FramesLive /\ Gen!CallbacksMeetTheirState /\ Gen!NoRequestStranded

\* Sharing shapes does not show: every object behaves as if it had a property list
\* of its own (js_shape_prepare_update, add_property).
ShapesImplementLists ==
    /\ part = "shapes" => Shp!OwnLists!ListInit
    /\ [][part = "shapes" => Shp!OwnLists!ListNext]_shapesState

\* The value array of an object is as large as its shape says (resize_properties), and a
\* shape on the hash table is what its hash says, once, and counted by its holders.
ShapesSound == part = "shapes" => Shp!ValueArraysFit /\ Shp!ShapeTableExact

\* The two representations of an array do not show: every operation does and returns
\* what ECMAScript says, and the length is above every element (JS_DefineProperty,
\* delete_property, set_array_length).
ArraysAsSpecified == part = "array" => Arr!ElementsAsSpecified /\ Arr!LengthAboveElements

\* JS_SetPropertyInternal and the generic version for Reflect.set do the same in every
\* chain in which at most one prototype has the property; for-in, Object.keys and copies
\* come by every name at most once and in order and miss none that is there all the time;
\* and for-in and Object.keys come by none that is gone (build_for_in_iterator,
\* js_for_in_next, JS_GetOwnPropertyNames2).
PropertiesAsSpecified ==
    /\ part = "chain" => Props!SetAgreesUnshadowed
    /\ part = "walks" => Props!WalksAsSpecified /\ Props!VisitsAreLive

\* Whatever the traps of a proxy answer, a script is never told the opposite of what
\* the proxy has told it (the checks after each call of a trap).
ProxyKeepsItsWord == part = "proxy" => Proxy!ProxyKeepsItsWord

\* The compiled regular expression finds the match that the pattern denotes
\* (lre_compile, lre_exec_backtrack), and no path of the machine through it needs more
\* stack than compute_stack_size of libregexp.c says.
MatchesAsSpecified == part = "regexp" => Regexp!MatchesAsSpecified /\ Regexp!StackSizeSuffices

\* A function that returned or threw did what its statements mean (emit_break,
\* emit_return, resolve_labels, JS_CallInternal), with no more on its stack than
\* compute_stack_size computed, and two executions of a block that no exception left have
\* variables of their own.
CodeRunsAsMeant == part = "code" => RunsAsMeant /\ StackAsComputed /\ FreshUnlessThrown

\* Two names are equal exactly when their atoms are ("str is the atom, return its
\* index", quickjs.c:2702).
AtomsUnique == part = "atoms" => Atom!AtomsUnique

\* The same while no concatenation is done in the place of its first operand; and the
\* atom table holds every structure once, counted by what refers to it (__JS_NewAtom,
\* JS_FreeAtomStruct, JS_ResizeAtomHash).
AtomsSound == AtomsUnique /\ (part = "atoms" => Atom!AtomTableExact)

\* Every route to a captured variable shows what was last written to it (get_var_ref,
\* close_var_refs, close_lexical_var), and no variable reference points into a frame
\* that is gone (free_var_ref).
VariablesShared == part = "closures" => Closure!SharedVariables /\ Closure!RefsFollowFrames
=============================================================================
