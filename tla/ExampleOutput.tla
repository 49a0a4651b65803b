---------------------------- MODULE ExampleOutput ----------------------------
(***************************************************************************)
(* How an example test compares what it expects, which it reads from JSON, *)
(* with the data of a Result, which are Go values of any type (verifyOutput*)
(* and deepEqual, application/plugin/testing.go), and what JSON makes of   *)
(* such data on its way to the host.                                       *)
(*                                                                         *)
(* A value is a number n or a text of some type, or holds items: a slice by*)
(* position, a map by key, where a key is a number too.  Of the Go types   *)
(* are kept the five JSON is read into ("float64", "string", "[]any",      *)
(* "map", and "nil" for null), "int" for the numbers toFloat64 knows,      *)
(* "uint" for those it does not, "[]float64" for a slice and "map of       *)
(* float64" for a map of a type of its own.  A slice or map may be nil:    *)
(* its length is 0, and JSON has null for it.  Numbers are those that every*)
(* type holds exactly.  What json.Marshal refuses (NaN, a channel) equals  *)
(* nothing that is read from JSON: Handlers keeps only that it is there.   *)
(***************************************************************************)
EXTENDS Integers

Plain(type, n) == [type |-> type, n |-> n, items |-> <<>>]
Holding(type, items) == [type |-> type, n |-> 0, items |-> items]

NoData == Holding("map", <<>>)

Null == Plain("nil", 0)

\* Slices and maps that are nil.
Nils == {Plain(type, 1) : type \in {"[]any", "map", "[]float64"}}

\* Values that differ in type, number, length, keys and depth.
JSONPlain == {Plain("float64", 1), Plain("float64", 2), Plain("string", 1), Null}
GoPlain == JSONPlain \cup {Plain("int", 1), Plain("uint", 1)}

Slices(type, items) == {Holding(type, s) : s \in UNION {[1..n -> items] : n \in 0..2}}
Maps(type, items, keys) ==
  {Holding(type, f) : f \in UNION {[kept -> items] : kept \in keys}}

JSONValues ==
  JSONPlain \cup Slices("[]any", JSONPlain) \cup Maps("map", JSONPlain, {{}, {1}})
GoValues ==
  GoPlain \cup Nils \cup Slices("[]any", GoPlain) \cup Maps("map", GoPlain, {{}, {1}})
    \cup Slices("[]float64", {Plain("float64", 1)})
    \cup Maps("map of float64", {Plain("float64", 1)}, {{1}})

\* Objects of up to two keys, the second with a number or a text.
Objects(values) ==
  LET plain == {Plain("float64", 1), Plain("string", 1)}
  IN  Maps("map", values, {{}, {1}}) \cup Maps("map", plain, {{2}})
        \cup {Holding("map", <<v, p>>) : v \in values, p \in plain}

\* All of these and what they hold: the domain of the recursion below.
Values == GoValues \cup Objects(GoValues)

-----------------------------------------------------------------------------
(* JSON written and read again, as in structToMap, or by the host.         *)
JSONType(type) ==
  CASE type \in {"int", "uint"} -> "float64"
    [] type = "[]float64" -> "[]any"
    [] type = "map of float64" -> "map"
    [] OTHER -> type

ThroughJSON[v \in Values] ==
  IF v \in Nils THEN Null
  ELSE [type |-> JSONType(v.type), n |-> v.n,
        items |-> [k \in DOMAIN v.items |-> ThroughJSON[v.items[k]]]]

-----------------------------------------------------------------------------
\* The types toFloat64 converts.
ToFloat64 == {"float64", "int"}

\* The keys of a map that are compared; the mutant goes by the actual map's.
KeysCompared_Actual(expected, actual) == DOMAIN expected.items \cap DOMAIN actual.items
KeysCompared(expected, actual) == DOMAIN expected.items

(* Slices agree item by item, of a map the keys that are expected, numbers *)
(* as float64; everything else as Go's reflect.DeepEqual has it.           *)
DeepEqual[expected \in Values, actual \in Values] ==
  LET Agree(key) ==
        key \in DOMAIN actual.items /\ DeepEqual[expected.items[key], actual.items[key]]
  IN  CASE expected.type = "[]any" /\ actual.type = "[]any" ->
             /\ DOMAIN expected.items = DOMAIN actual.items
             /\ \A i \in DOMAIN expected.items : Agree(i)
        [] expected.type = "map" /\ actual.type = "map" ->
             \A key \in KeysCompared(expected, actual) : Agree(key)
        [] {expected.type, actual.type} \subseteq ToFloat64 -> expected.n = actual.n
        [] OTHER -> expected = actual

\* What is expected of data: null is read into a map without keys.
Demanded(expected) == IF expected = Null THEN NoData ELSE expected

(* What is expected is read into a map, which anything but an object or    *)
(* null fails; then verifyOutput.                                          *)
VerifyOutput(expected, data) ==
  LET demanded == Demanded(expected)
  IN  /\ demanded.type = "map"
      /\ \A key \in DOMAIN demanded.items :
           key \in DOMAIN data.items /\ DeepEqual[demanded.items[key], data.items[key]]

-----------------------------------------------------------------------------
(* The reference: what is left of a JSON value if keys of its objects are  *)
(* left out, however deep, and nothing else is changed, but that, if       *)
(* nullsMayBeEmpty, a null stands for an empty list or object as well.     *)
Excerpts[v \in Values, nullsMayBeEmpty \in BOOLEAN] ==
  LET Of(k) == Excerpts[v.items[k], nullsMayBeEmpty]
      Keeping(kept) == {[v EXCEPT !.items = items] :
        items \in {f \in [kept -> UNION {Of(k) : k \in kept}] : \A k \in kept : f[k] \in Of(k)}}
  IN  UNION {Keeping(kept) : kept \in IF v.type = "map" THEN SUBSET DOMAIN v.items
                                       ELSE {DOMAIN v.items}}
        \cup IF v = Null /\ nullsMayBeEmpty THEN {Holding("[]any", <<>>), NoData} ELSE {}
=============================================================================
