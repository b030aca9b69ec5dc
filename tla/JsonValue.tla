------------------------------ MODULE JsonValue -----------------------------
(***************************************************************************)
(* Json::Value (jsoncpp.cpp), the value every answer and every stream      *)
(* message of the libraries is parsed into and every request built from.   *)
(* An array is a map from indices, which may have holes: a missing index   *)
(* reads as null, and the size is the last index plus one.  A string, a    *)
(* number or a boolean is its token.  Comments and offsets are left out.   *)
(***************************************************************************)
EXTENDS Naturals, FiniteSets, FiniteSetsExt

Null           == [type |-> "null"]
Array(items)   == [type |-> "array", items |-> items]
Object(fields) == [type |-> "object", fields |-> fields]

Empty == [x \in {} |-> Null]

Put(map, key, v) == [k \in DOMAIN map \cup {key} |-> IF k = key THEN v ELSE map[k]]
Erase(map, keys) == [k \in DOMAIN map \ keys |-> map[k]]

\* Value(vtype) and *this = Value(arrayValue): a null becomes an empty array.
AsArray(v) == IF v = Null THEN Array(Empty) ELSE v

size(v) ==
  CASE v.type = "array"  -> IF v.items = Empty THEN 0 ELSE Max(DOMAIN v.items) + 1
    [] v.type = "object" -> Cardinality(DOMAIN v.fields)
    [] OTHER             -> 0

\* operator[](ArrayIndex) const
At(v, i) == IF v.type = "array" /\ i \in DOMAIN v.items THEN v.items[i] ELSE Null

\* operator[](ArrayIndex): the array with an element at i, null if it is new.
Ref(v, i) ==
  LET a == AsArray(v)
  IN  IF i \in DOMAIN a.items THEN a ELSE Array(Put(a.items, i, Null))

Set(v, i, x) == Array(Put(Ref(v, i).items, i, x))

\* operator[](key): the object with a member key.
RefMember(v, key) ==
  LET fields == IF v = Null THEN Empty ELSE v.fields
  IN  IF key \in DOMAIN fields THEN v ELSE Object(Put(fields, key, Null))

append(v, x) == Set(v, size(v), x)

\* A slip: the loop stops one element early.
removeIndexShort(v, i) ==
  LET last  == size(v) - 1
      moved == [k \in DOMAIN v.items \cup (i .. last) |->
                  IF k \in i .. last - 2 THEN At(v, k + 1) ELSE At(v, k)]
  IN  Array(Erase(moved, {last}))

\* removeIndex, of an index that has an element: the elements after it move
\* left (a hole among them becomes a null element), and the last is erased.
removeIndex(v, i) ==
  LET last  == size(v) - 1
      moved == [k \in DOMAIN v.items \cup (i .. last) |->
                  IF k \in i .. last - 1 THEN At(v, k + 1) ELSE At(v, k)]
  IN  Array(Erase(moved, {last}))

\* resize: what it leaves.  Growing makes the last element only.
Resized(v, n) ==
  LET a == AsArray(v)
  IN  CASE n = 0       -> Array(Empty)
        [] n > size(a) -> Ref(a, n - 1)
        [] OTHER       -> Array(Erase(a.items, n .. size(a) - 1))

\* Its assertion, which throws when it fails.
ResizeAsserts(v, n) == n = 0 \/ n > size(AsArray(v)) \/ size(Resized(v, n)) = n
=============================================================================
