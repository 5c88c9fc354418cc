--------------------------------- MODULE Params ---------------------------------
(* The parameters of an endpoint: their validation when the server is made        *)
(* (Param.validate), what prepareParams computes from them, and how getParams     *)
(* finds, checks and converts the values of a request (params.go).                 *)
(*                                                                                 *)
(* Numbers are counted in halves, so that some are fractions. int64 is             *)
(* MinInt..MaxInt; a float64 is exact up to Exact, beyond it only even integers    *)
(* are float64s, and MaxInt + 1 is one that is no int64. The limit of 1e-9 on the  *)
(* fraction of an integer is zero here. A string is known by its length, the       *)
(* number and truth value it denotes and whether it matches the pattern.           *)
EXTENDS Integers, Sequences, FiniteSetsExt

CONSTANTS
    Endpoints,   \* the lists of parameters that endpoints are configured with
    RawStrings,  \* strings sent by clients and in enums
    Known,       \* what is known of each
    RawLists,    \* values of a key in a query or form: non-empty lists of strings
    JSONValues,  \* values of a key in a JSON object
    MaxInt, Exact

ASSUME NumberAssumption == MaxInt \in Nat /\ Exact \in Nat /\ Exact < MaxInt

VARIABLES
    cpu,     \* the architecture, which decides about conversions that overflow
    params,  \* ep.Params
    server,  \* "config", then "invalid" or "serving"
    pinfo,   \* a.pinfo
    req,     \* the request
    out      \* what getParams returns for it

vars == <<cpu, params, server, pinfo, req, out>>

MinInt == -MaxInt - 1

\* Values of type any.
Nil == [t |-> "nil"]
Str(s) == [t |-> "string", s |-> s]
Bool(b) == [t |-> "bool", b |-> b]
IntVal(i) == [t |-> "int64", i |-> i]
UintVal(i) == [t |-> "uint64", u |-> i]
FloatVal(f) == [t |-> "float64", f |-> f]
List(vs) == [t |-> "list", vs |-> vs]
Array(elem, vs) == [t |-> "array", elem |-> elem, vs |-> vs]

\* Floats; NaN and Inf are those that strconv.ParseFloat makes of a word.
Fin(h) == [c |-> "fin", h |-> h]
NaN == [c |-> "nan", h |-> 0]
Inf == [c |-> "inf", h |-> 0]

\* f < g, false if either is NaN.
Less(f, g) ==
    \/ f.c = "fin" /\ g.c = "fin" /\ f.h < g.h
    \/ f.c = "fin" /\ g.c = "inf"

Error == [t |-> "error"]
Panic == [t |-> "panic"]
Failures == {Error, Panic}

-----------------------------------------------------------------------------
(* Conversions.                                                                *)

\* The nearest float64, ties to even.
Round(h) ==
    IF h \in -2 * Exact .. 2 * Exact THEN h
    ELSE LET q == h \div 4
             up == h % 4 = 3 \/ (h % 4 = 2 /\ q % 2 = 1)
         IN IF up THEN 4 * (q + 1) ELSE 4 * q

\* int64(f): of a float that is no int64, amd64 makes the smallest one, and arm64
\* the one closest to it.
Int64(i) ==
    IF i \in MinInt..MaxInt THEN i
    ELSE IF cpu = "arm64" /\ i > MaxInt THEN MaxInt
    ELSE MinInt

IsIntegral(f) == f.c = "fin" /\ f.h % 2 = 0

\* float2int, as the set of its result.
float2int(f) == IF IsIntegral(f) THEN {Int64(f.h \div 2)} ELSE {}

\* strconv.ParseFloat and ParseInt, as the sets of their results.
ParseFloat(s) == {IF n.c = "fin" THEN Fin(Round(n.h)) ELSE n : n \in Known[s].number}
ParseInt(s) ==
    {n.h \div 2 : n \in {m \in Known[s].number : Known[s].digits /\ m.h \div 2 \in MinInt..MaxInt}}

-----------------------------------------------------------------------------
(* Validation. An optional field of Param is a set of at most one value.       *)

ValidEntry(type, v) ==
    CASE type = "string" -> v.t = "string"
      [] type = "integer" ->
           \/ v.t = "string" /\ ParseInt(v.s) # {}
           \/ v.t = "float64" /\ IsIntegral(v.f)
           \/ v.t = "uint64" /\ v.u <= MaxInt
           \/ v.t = "int64"
      [] type = "number" ->
           \/ v.t = "string" /\ ParseFloat(v.s) # {}
           \/ v.t \in {"uint64", "int64", "float64"}
      [] OTHER -> TRUE

Scalars == {"integer", "number", "string", "boolean"}

\* Param.validate reports no error.
validate(p) ==
    /\ p.in \in {"query", "path", "body"}
    /\ p.type \in Scalars \cup {"array"}
    /\ ~(p.type = "array" /\ p.in = "path")
    /\ p.enum # {} => p.type \in {"integer", "number", "string"}
    /\ \A v \in p.enum : ValidEntry(p.type, v)
    /\ \A m \in p.minimum \cup p.maximum :
         p.type = "number" \/ (p.type = "integer" /\ IsIntegral(m))
    /\ \A lo \in p.minimum, hi \in p.maximum : ~Less(hi, lo)
    /\ \A n \in p.maxLength : p.type = "string" /\ n >= 0
    /\ \A x \in p.pattern : p.type = "string" /\ x = "regexp"
    /\ \A n \in p.minItems \cup p.maxItems : p.type = "array" /\ n >= 0
    /\ \A lo \in p.minItems, hi \in p.maxItems : hi >= lo
    /\ p.elemType \in IF p.type = "array" THEN Scalars ELSE {""}

\* The part of Endpoint.validate that is about parameters.
IsValid(ps) ==
    /\ \A i \in DOMAIN ps : validate(ps[i])
    /\ \A i, j \in DOMAIN ps : ps[i].name = ps[j].name => i = j

-----------------------------------------------------------------------------
(* prepareParams.                                                              *)

EnumInts(v) ==
    CASE v.t = "int64" -> {v.i}
      [] v.t = "uint64" -> {v.u}
      [] v.t = "float64" -> float2int(v.f)
      [] v.t = "string" -> ParseInt(v.s)
      [] OTHER -> {}

EnumFloats(v) ==
    CASE v.t = "int64" -> {Fin(Round(2 * v.i))}
      [] v.t = "uint64" -> {Fin(Round(2 * v.u))}
      [] v.t = "float64" -> {v.f}
      [] v.t = "string" -> ParseFloat(v.s)
      [] OTHER -> {}

EnumStrings(v) == IF v.t = "string" THEN {v.s} ELSE {}

\* The enum of a paramInfo: a slice of the type's own Go type, or nil.
Enum(p) ==
    LET values == CASE p.type = "string" -> UNION {EnumStrings(v) : v \in p.enum}
                    [] p.type = "integer" -> UNION {EnumInts(v) : v \in p.enum}
                    [] p.type = "number" -> UNION {EnumFloats(v) : v \in p.enum}
                    [] OTHER -> {}
    IN [of |-> IF values = {} THEN "nil" ELSE p.type, values |-> values]

Info(p) == [rx |-> "regexp" \in p.pattern, enum |-> Enum(p)]
HasInfo(p) == Info(p).rx \/ Info(p).enum.of # "nil"

\* Entries are stored under the name, so that the last one of a name stays.
prepareParams(ps) ==
    LET At(n) == {i \in DOMAIN ps : ps[i].name = n /\ HasInfo(ps[i])}
    IN [n \in {ps[i].name : i \in {j \in DOMAIN ps : HasInfo(ps[j])}} |-> Info(ps[Max(At(n))])]

-----------------------------------------------------------------------------
(* isSuitable and the check functions: the value, an error or a panic.         *)

\* The type assertion on the enum panics if it is not a slice of the type wanted.
checkEnum(p, type, x, v) ==
    IF p.name \notin DOMAIN pinfo THEN Error
    ELSE IF pinfo[p.name].enum.of # type THEN Panic
    ELSE IF x \in pinfo[p.name].enum.values THEN v
    ELSE Error

checkString(p, s) ==
    IF p.enum # {} THEN checkEnum(p, "string", s, Str(s))
    ELSE IF \E n \in p.maxLength : n >= 0 /\ Known[s].len > n THEN Error
    ELSE IF p.pattern # {} /\ p.name \in DOMAIN pinfo /\ pinfo[p.name].rx /\ ~Known[s].matches THEN Error
    ELSE Str(s)

\* Faulty variant: the bounds themselves are refused.
checkInteger_Exclusive(p, i) ==
    IF p.enum # {} THEN checkEnum(p, "integer", i, IntVal(i))
    ELSE IF \E m \in p.minimum : i <= Int64(m.h \div 2) THEN Error
    ELSE IF \E m \in p.maximum : i >= Int64(m.h \div 2) THEN Error
    ELSE IntVal(i)

checkInteger(p, i) ==
    IF p.enum # {} THEN checkEnum(p, "integer", i, IntVal(i))
    ELSE IF \E m \in p.minimum : i < Int64(m.h \div 2) THEN Error
    ELSE IF \E m \in p.maximum : i > Int64(m.h \div 2) THEN Error
    ELSE IntVal(i)

checkFloat(p, f) ==
    IF p.enum # {} THEN checkEnum(p, "number", f, FloatVal(f))
    ELSE IF \E m \in p.minimum : Less(f, m) THEN Error
    ELSE IF \E m \in p.maximum : Less(m, f) THEN Error
    ELSE FloatVal(f)

checkStringAny(p, v) == IF v.t = "string" THEN checkString(p, v.s) ELSE Error

checkIntegerAny(p, v) ==
    LET ints == CASE v.t = "string" -> UNION {float2int(f) : f \in ParseFloat(v.s)}
                  [] v.t = "float64" -> float2int(v.f)
                  [] OTHER -> {}
    IN IF ints = {} THEN Error ELSE checkInteger(p, CHOOSE i \in ints : TRUE)

\* A float64 comes out of a JSON document and is finite.
checkFloatAny(p, v) ==
    LET floats == CASE v.t = "string" -> ParseFloat(v.s)
                    [] v.t = "float64" /\ v.f.c = "fin" -> {v.f}
                    [] OTHER -> {}
    IN IF floats = {} THEN Error ELSE checkFloat(p, CHOOSE f \in floats : TRUE)

\* strings.ToLower(s) is "true" or "false".
checkBoolAny(p, v) ==
    IF v.t = "string" /\ Known[v.s].truth # {} THEN Bool(CHOOSE b \in Known[v.s].truth : TRUE)
    ELSE IF v.t = "bool" THEN v
    ELSE Error

checkAny(type, p, v) ==
    CASE type = "integer" -> checkIntegerAny(p, v)
      [] type = "number" -> checkFloatAny(p, v)
      [] type = "string" -> checkStringAny(p, v)
      [] type = "boolean" -> checkBoolAny(p, v)

\* The result of a loop that returns at the first failure.
FirstFailure(rs, otherwise) ==
    LET failed == {i \in DOMAIN rs : rs[i] \in Failures}
    IN IF failed = {} THEN otherwise ELSE rs[Min(failed)]

checkArray(p, vs) ==
    IF \E n \in p.minItems : Len(vs) < n THEN Error
    ELSE IF \E n \in p.maxItems : Len(vs) > n THEN Error
    ELSE LET rs == [i \in DOMAIN vs |-> checkAny(p.elemType, p, vs[i])]
         IN FirstFailure(rs, Array(p.elemType, rs))

checkArrayAny(p, v) ==
    CASE v.t = "list" -> checkArray(p, v.vs)
      [] v.t = "strings" -> checkArray(p, [i \in DOMAIN v.ss |-> Str(v.ss[i])])
      [] OTHER -> Error

\* A []string of one element stands for the element.
Single(v) == IF v.t = "strings" /\ Len(v.ss) = 1 THEN Str(v.ss[1]) ELSE v

isSuitable(p, v) ==
    IF p.type = "array" THEN checkArrayAny(p, v) ELSE checkAny(p.type, p, Single(v))

-----------------------------------------------------------------------------
(* Requests and getParams.                                                     *)

Absent == [t |-> "absent"]
StringList(ss) == [t |-> "strings", ss |-> ss]
NoRequest == [method |-> "none", body |-> "none", sent |-> <<>>]

\* What a client can send as the value of a parameter, in the place the parameter
\* is configured for; body is what the server finds the body of the request to be.
Sendable(p, body) ==
    CASE p.in = "path" -> {Str(s) : s \in RawStrings}
      [] p.in = "query" -> {StringList(ss) : ss \in RawLists} \cup {Absent}
      [] p.in = "body" /\ body = "json" -> JSONValues \cup {Absent}
      [] p.in = "body" /\ body = "form" -> {StringList(ss) : ss \in RawLists} \cup {Absent}
      [] OTHER -> {Absent}

Bodies == {"none", "json", "badJSON", "form", "badForm", "badGzip"}

Requests ==
    {r \in [method : {"GET", "POST", "DELETE"},
            body : Bodies,
            sent : [DOMAIN params -> UNION {Sendable(params[i], b) : i \in DOMAIN params, b \in Bodies}]] :
        \A i \in DOMAIN params : r.sent[i] \in Sendable(params[i], r.body)}

\* req.ParseForm reads the body of POST, PUT and PATCH requests only.
FormRead(r) == r.method = "POST" /\ r.body = "form"
JSONRead(r) == r.method # "GET" /\ r.body = "json"

getParam(r, i) ==
    CASE params[i].in = "path" /\ Known[r.sent[i].s].len > 0 -> r.sent[i]
      [] params[i].in = "query" /\ r.method = "GET" -> r.sent[i]
      [] params[i].in = "body" /\ (JSONRead(r) \/ FormRead(r)) -> r.sent[i]
      [] OTHER -> Absent

\* "boolean url/form parameters with no value will be considered as true"
NoValue(r, i, v) ==
    /\ params[i].type = "boolean"
    /\ params[i].in = "query" \/ (params[i].in = "body" /\ FormRead(r))
    /\ Len(v.ss) = 1 /\ Known[v.ss[1]].len = 0

getParams(r) ==
    LET value(i) ==
          LET v == getParam(r, i)
          IN IF v = Absent THEN (IF params[i].required THEN Error ELSE Nil)
             ELSE isSuitable(params[i], IF NoValue(r, i, v) THEN Bool(TRUE) ELSE v)
        values == [i \in DOMAIN params |-> value(i)]
    IN IF r.method # "GET" /\ r.body = "badGzip" THEN Error ELSE FirstFailure(values, List(values))

-----------------------------------------------------------------------------
Init ==
    /\ cpu \in {"amd64", "arm64"}
    /\ params \in Endpoints
    /\ server = "config" /\ pinfo = <<>>
    /\ req = NoRequest /\ out = Nil

\* The configuration is refused, or the parameters are prepared.
NewAPIServer ==
    /\ server = "config"
    /\ \/ IsValid(params) /\ server' = "serving" /\ pinfo' = prepareParams(params)
       \/ ~IsValid(params) /\ server' = "invalid" /\ UNCHANGED pinfo
    /\ UNCHANGED <<cpu, params, req, out>>

\* A request, the only one: getParams changes nothing that another could see.
Serve ==
    /\ server = "serving" /\ req = NoRequest
    /\ req' \in Requests
    /\ out' = getParams(req')
    /\ UNCHANGED <<cpu, params, server, pinfo>>

Next == NewAPIServer \/ Serve

Spec == Init /\ [][Next]_vars

-----------------------------------------------------------------------------
(* Properties.                                                                 *)

GoType(type) ==
    CASE type = "integer" -> "int64" [] type = "number" -> "float64" [] type = "string" -> "string"
      [] type = "boolean" -> "bool" [] type = "array" -> "array"

\* The values that getParams returns have the Go types that makeCacheKey and the
\* database driver expect for the types of the parameters.
TypeOK ==
    out.t = "list" =>
        \A i \in DOMAIN params :
            LET v == out.vs[i]
            IN \/ v = Nil
               \/ /\ v.t = GoType(params[i].type)
                  /\ v.t = "array" =>
                       \A j \in DOMAIN v.vs : v.vs[j].t = GoType(params[i].elemType)

\* No request to an endpoint whose configuration passed Validate makes a type
\* assertion in the check functions panic: prepareParams has stored, for each
\* parameter with an enum, a non-empty slice of the type its check asserts.
NoPanic == out # Panic

\* The numbers that a client's value and the configuration are about, exactly.
Denoted(v) ==
    CASE v.t = "string" -> Known[v.s].number
      [] v.t = "float64" -> {v.f}
      [] v.t = "int64" -> {Fin(2 * v.i)}
      [] v.t = "uint64" -> {Fin(2 * v.u)}
      [] OTHER -> {}

IsExact(n) == n.c = "fin" /\ n.h \in -2 * Exact .. 2 * Exact

Allowed(p, n) ==
    IF p.enum # {} THEN \E e \in p.enum : n \in Denoted(e)
    ELSE (\A m \in p.minimum : m.h <= n.h) /\ (\A m \in p.maximum : n.h <= m.h)

\* What the comments in model.go promise of a value: the set of the value that is
\* handed on, empty if it is to be refused.
PromisedScalar(type, p, v) ==
    CASE type = "integer" ->
           {IntVal(n.h \div 2) : n \in {m \in Denoted(v) : m.h % 2 = 0 /\ Allowed(p, m)}}
      [] type = "number" -> {FloatVal(n) : n \in {m \in Denoted(v) : Allowed(p, m)}}
      [] type = "string" ->
           {w \in {v} : /\ w.t = "string"
                        /\ IF p.enum # {} THEN w \in p.enum
                           ELSE /\ \A n \in p.maxLength : Known[w.s].len <= n
                                /\ p.pattern # {} => Known[w.s].matches}
      [] type = "boolean" ->
           IF v.t = "string" THEN {Bool(b) : b \in Known[v.s].truth} ELSE {w \in {v} : w.t = "bool"}

Items(v) == IF v.t = "strings" THEN [i \in DOMAIN v.ss |-> Str(v.ss[i])] ELSE v.vs

Promised(p, v) ==
    IF p.type # "array" THEN PromisedScalar(p.type, p, Single(v))
    ELSE IF v.t \notin {"list", "strings"} THEN {}
    ELSE LET items == Items(v)
             each == [j \in DOMAIN items |-> PromisedScalar(p.elemType, p, items[j])]
         IN IF \/ \E n \in p.minItems : Len(items) < n
               \/ \E n \in p.maxItems : Len(items) > n
               \/ \E j \in DOMAIN items : each[j] = {}
            THEN {}
            ELSE {Array(p.elemType, [j \in DOMAIN items |-> CHOOSE w \in each[j] : TRUE])}

\* A request is about numbers that float64 represents: beyond 2^53 integers are
\* rounded, beyond 2^63 their conversion to int64 is undefined, and "NaN" and "Inf"
\* are numbers to strconv.ParseFloat.
Scalar(v) == {Single(v)} \cup (IF v.t \in {"list", "strings"} THEN {Items(v)[j] : j \in DOMAIN Items(v)} ELSE {})
ExactRequest ==
    \A i \in DOMAIN params :
        /\ \A v \in Scalar(req.sent[i]) \cup params[i].enum : \A n \in Denoted(v) : IsExact(n)
        /\ \A m \in params[i].minimum \cup params[i].maximum : IsExact(m)

\* model.go, Param: the value of each parameter is the one the client has sent, in
\* any of the forms it can be sent in; a request is refused exactly if a required
\* parameter is missing or a value breaks its type, enum, minimum, maximum, maxLength,
\* pattern, minItems or maxItems; a parameter that is not supplied is NULL.
AsPromised ==
    req # NoRequest /\ ExactRequest =>
        LET promised(i) ==
              LET v == getParam(req, i)
              IN IF v = Absent THEN (IF params[i].required THEN {} ELSE {Nil})
                 ELSE IF NoValue(req, i, v) THEN {Bool(TRUE)}
                 ELSE Promised(params[i], v)
            refused == \/ req.method # "GET" /\ req.body = "badGzip"
                       \/ \E i \in DOMAIN params : promised(i) = {}
        IN IF refused THEN out = Error
           ELSE out.t = "list" /\ \A i \in DOMAIN params : out.vs[i] \in promised(i)

\* Both: getParams keeps the promises of Param for every endpoint that Validate
\* lets through, and no request to one makes it panic.
ParamsAsPromised == NoPanic /\ AsPromised
=============================================================================
