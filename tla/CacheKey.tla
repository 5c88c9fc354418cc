------------------------------- MODULE CacheKey -------------------------------
(* makeCacheKey (server.go): the bytes that are hashed to identify a call of an  *)
(* endpoint in the result cache. The hash itself is taken to tell any two byte   *)
(* sequences apart, so that the question is whether the encoding does. The state *)
(* is a pair of calls, built up parameter by parameter; calls of one endpoint    *)
(* have parameters of the same types.                                            *)
EXTENDS Naturals, Sequences, SequencesExt

CONSTANTS
    URIs,        \* URIs of the endpoints, as sequences of bytes
    KeyStrings,  \* values of string parameters, as sequences of bytes
    KeyLists,    \* values of []string parameters
    Ints,        \* values of int64 parameters
    IntLists,    \* values of []int64 parameters
    Optional,    \* whether parameters may be left out
    MaxParams    \* bound on the number of parameters

Bytes == 0..255

ASSUME ParamsAssumption ==
    /\ URIs \subseteq Seq(Bytes) /\ KeyStrings \subseteq Seq(Bytes) /\ KeyLists \subseteq Seq(Seq(Bytes))
    /\ Ints \subseteq Bytes /\ IntLists \subseteq Seq(Bytes)
    /\ Optional \in BOOLEAN
    /\ MaxParams \in Nat

startOfValue == <<2>>
endOfValue == <<3>>

\* binary.Write of an int64 in big endian order; of a bool it is one byte.
BigEndian(i) == <<0, 0, 0, 0, 0, 0, 0, i>>
Byte(b) == <<IF b THEN 1 ELSE 0>>

\* A value between its two marks.
Frame(bytes) == startOfValue \o bytes \o endOfValue

\* What getParams can return for a parameter of each type.
Values(type) ==
    { [type |-> type, val |-> v] :
        v \in CASE type = "string"   -> KeyStrings
                [] type = "[]string" -> KeyLists
                [] type = "int64"    -> Ints
                [] type = "[]int64"  -> IntLists
                [] type = "bool"     -> BOOLEAN }
      \cup (IF Optional THEN {[type |-> "nil", val |-> 0]} ELSE {})

Types == {"string", "[]string", "int64", "[]int64", "bool"}

\* Faulty variant: the elements of a []string are not framed one by one.
Data_NoFrames(a) ==
    CASE a.type = "string"   -> a.val
      [] a.type = "[]string" -> FlattenSeq(a.val)
      [] a.type = "int64"    -> BigEndian(a.val)
      [] a.type = "[]int64"  -> FlattenSeq([i \in DOMAIN a.val |-> BigEndian(a.val[i])])
      [] a.type = "bool"     -> Byte(a.val)
      [] a.type = "nil"      -> <<>>

\* The bytes written between startOfValue and endOfValue for one argument.
Data(a) ==
    CASE a.type = "string"   -> a.val
      [] a.type = "[]string" -> FlattenSeq([i \in DOMAIN a.val |-> Frame(a.val[i])])
      [] a.type = "int64"    -> BigEndian(a.val)
      [] a.type = "[]int64"  -> FlattenSeq([i \in DOMAIN a.val |-> BigEndian(a.val[i])])
      [] a.type = "bool"     -> Byte(a.val)
      [] a.type = "nil"      -> <<>>

\* All the bytes hashed by makeCacheKey.
Stream(u, args) ==
    Frame(u) \o FlattenSeq([i \in DOMAIN args |-> Frame(Data(args[i]))])

VARIABLES
    uri,    \* the URIs of the two calls
    call    \* their arguments

keyVars == <<uri, call>>

KeyInit ==
    /\ uri \in [1..2 -> URIs]
    /\ call = [i \in 1..2 |-> <<>>]

\* One more parameter of each endpoint.
AddParam ==
    /\ Len(call[1]) < MaxParams
    /\ \E t, u \in Types :
         /\ uri[1] = uri[2] => t = u
         /\ \E v \in Values(t), w \in Values(u) :
              call' = [i \in 1..2 |-> Append(call[i], IF i = 1 THEN v ELSE w)]
    /\ UNCHANGED uri

KeySpec == KeyInit /\ [][AddParam]_keyVars

\* model.go 179-181: "The cache entry is specific to the exact values of
\* parameters for the invocation." Two calls are given the same key only if they
\* are to the same URI with the same values.
ExactKey ==
    Stream(uri[1], call[1]) = Stream(uri[2], call[2]) => uri[1] = uri[2] /\ call[1] = call[2]
=============================================================================
