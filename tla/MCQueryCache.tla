---------------------------- MODULE MCQueryCache -----------------------------
(* An endpoint with one parameter. The keys are numbers that stand for the      *)
(* hashes of the bytes of CacheKey, equal for equal bytes.                       *)
EXTENDS QueryCache, Sequences, TLC

CONSTANTS r1, r2, r3

Symmetry == Permutations({r1, r2, r3})

CK == INSTANCE CacheKey WITH
    URIs <- {}, KeyStrings <- {}, KeyLists <- {}, Ints <- {}, IntLists <- {},
    Optional <- FALSE, MaxParams <- 0, uri <- <<>>, call <- <<>>

Hashed(a) == CK!Stream(<<97>>, a)

\* The keys of a list of arguments: the index of the first with the same bytes.
Numbered(list) ==
    [a \in {list[i] : i \in 1..Len(list)} |->
        CHOOSE i \in 1..Len(list) :
            /\ Hashed(list[i]) = Hashed(a)
            /\ \A j \in 1..(i - 1) : Hashed(list[j]) # Hashed(a)]

IntArg(i) == <<[type |-> "int64", val |-> i]>>
StringArg(s) == <<[type |-> "string", val |-> s]>>
Omitted == <<[type |-> "nil", val |-> 0]>>

\* A required integer, with one value whose hash happens to be 0.
IntKey == [a \in {IntArg(7)} |-> 0] @@ Numbered(<<IntArg(0), IntArg(1)>>)
IntArgs == {IntArg(0), IntArg(1), IntArg(7)}

\* A string that may be left out.
StringKey == Numbered(<<Omitted, StringArg(<<>>), StringArg(<<97>>)>>)
StringArgs == {Omitted, StringArg(<<>>), StringArg(<<97>>)}
=============================================================================
