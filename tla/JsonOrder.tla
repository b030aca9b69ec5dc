------------------------------ MODULE JsonOrder -----------------------------
(***************************************************************************)
(* The order of Json::Values (jsoncpp.cpp), of which that of the keys      *)
(* makes an object's members be found.  Values are compared by type first, *)
(* arrays and objects by their entries in the order of std::map.  A string *)
(* has text, a number or a boolean n; an array's keys are its indices and  *)
(* an object's are texts.                                                  *)
(***************************************************************************)
EXTENDS JsonValue, Sequences, Integers, Calls

CONSTANTS
  Comparables,   \* Values to compare, with the Values they hold
  Nesting        \* how deep each of them is

\* A std::map with such keys.
FiniteMap(map, keys) ==
  /\ map = [k \in DOMAIN map |-> map[k]]
  /\ IsFiniteSet(DOMAIN map) /\ DOMAIN map \subseteq keys

\* *value_.map_
Content(v) == IF v.type = "array" THEN v.items ELSE v.fields
IsContainer(v) == v.type \in {"array", "object"}

ComparableOf(v) ==
  CASE v.type = "null"   -> v = Null
    [] v.type = "string" -> v \in [type : {"string"}, text : Seq(Nat)]
    [] v.type = "array"  -> v = Array(v.items) /\ FiniteMap(v.items, Nat)
    [] v.type = "object" -> v = Object(v.fields) /\ FiniteMap(v.fields, Seq(Nat))
    [] OTHER             -> v \in [type : {"int", "uint", "real", "boolean"}, n : Int]

ASSUME OrderAssumption ==
  /\ Nesting \in [Comparables -> Nat]
  /\ \A v \in Comparables :
       /\ ComparableOf(v)
       /\ IsContainer(v) => \A k \in DOMAIN Content(v) :
            Content(v)[k] \in Comparables /\ Nesting[Content(v)[k]] < Nesting[v]

\* enum ValueType
ValueTypes == <<"null", "int", "uint", "real", "string", "boolean", "array", "object">>
Rank(v) == CHOOSE i \in DOMAIN ValueTypes : ValueTypes[i] = v.type

\* memcmp of the first n bytes.
memcmp(s, t, n) ==
  LET differ == {i \in 1 .. n : s[i] # t[i]}
  IN  IF differ = {} THEN 0 ELSE s[Min(differ)] - t[Min(differ)]

\* A slip: of two strings that begin alike none is less.
BytesLessPrefix(s, t) == memcmp(s, t, Min({Len(s), Len(t)})) < 0

\* CZString::operator< of two strings, and of two string values.
BytesLess(s, t) ==
  LET comp == memcmp(s, t, Min({Len(s), Len(t)}))
  IN  comp < 0 \/ (comp = 0 /\ Len(s) < Len(t))

\* CZString::operator== of two strings, and that of two string values.
BytesEqual(s, t) == Len(s) = Len(t) /\ memcmp(s, t, Len(s)) = 0

KeyLess(type, k, l) == IF type = "array" THEN k < l ELSE BytesLess(k, l)
KeyEqual(type, k, l) == IF type = "array" THEN k = l ELSE BytesEqual(k, l)

\* The entries of *value_.map_ in order.
Entries(v) ==
  LET map  == Content(v)
      n    == Cardinality(DOMAIN map)
      keys == CHOOSE s \in [1 .. n -> DOMAIN map] :
                /\ {s[i] : i \in 1 .. n} = DOMAIN map
                /\ \A i, j \in 1 .. n : i < j => ~KeyLess(v.type, s[j], s[i])
  IN  [i \in 1 .. n |-> [key |-> keys[i], value |-> map[keys[i]]]]

\* Value::operator<, with those of std::map, which looks for the first entries of
\* which one comes before the other, and of std::pair.
Less[p \in Comparables \X Comparables] ==
  LET v == p[1]
      w == p[2]
      a == Entries(v)
      b == Entries(w)
      Before(x, y) == \/ KeyLess(v.type, x.key, y.key)
                      \/ ~KeyLess(v.type, y.key, x.key) /\ Less[<<x.value, y.value>>]
  IN  CASE v.type # w.type -> Rank(v) < Rank(w)
        [] v.type = w.type /\ v.type = "null" -> FALSE
        [] v.type = w.type /\ v.type = "string" -> BytesLess(v.text, w.text)
        [] v.type = w.type /\ IsContainer(v) ->
             IF Len(a) # Len(b) THEN Len(a) < Len(b)
             ELSE \E i \in 1 .. Len(a) :
                    Before(a[i], b[i]) /\ \A j \in 1 .. i - 1 : ~Before(b[j], a[j])
        [] OTHER -> v.n < w.n

\* Value::operator==
Equal[p \in Comparables \X Comparables] ==
  LET v == p[1]
      w == p[2]
      a == Entries(v)
      b == Entries(w)
      Same(x, y) == KeyEqual(v.type, x.key, y.key) /\ Equal[<<x.value, y.value>>]
  IN  CASE v.type # w.type -> FALSE
        [] v.type = w.type /\ v.type = "null" -> TRUE
        [] v.type = w.type /\ v.type = "string" -> BytesEqual(v.text, w.text)
        [] v.type = w.type /\ IsContainer(v) ->
             Len(a) = Len(b) /\ \A i \in 1 .. Len(a) : Same(a[i], b[i])
        [] OTHER -> v.n = w.n

compare(v, w) == IF Less[<<v, w>>] THEN -1 ELSE IF Less[<<w, v>>] THEN 1 ELSE 0

-----------------------------------------------------------------------------
(* A program that compares three Values.                                   *)

Comparison ==
  /\ call = NoCall
  /\ \E u, v, w \in Comparables : call' = [f |-> "compare", u |-> u, v |-> v, w |-> w]

OrderSpec == CallInit /\ [][Comparison]_call

\* Values are totally ordered, and equal exactly when neither is less; of equal
\* strings alone both ends and all bytes are.  A member that an object holds
\* would otherwise not be found again.
ValuesOrdered ==
  call.f = "compare" =>
    LET u == call.u  v == call.v  w == call.w
    IN  /\ Less[<<u, v>>] /\ Less[<<v, w>>] => Less[<<u, w>>]
        /\ ~(Less[<<u, v>>] /\ Less[<<v, u>>])
        /\ Equal[<<u, v>>] <=> compare(u, v) = 0
        /\ Equal[<<u, v>>] <=> u = v
=============================================================================
