------------------------------ MODULE Json_proof -----------------------------
(***************************************************************************)
(* Proofs about jsoncpp.cpp and about the encodings of the clients,        *)
(* whatever the width of the integers and the length of the texts: the     *)
(* array of JsonArray is the list the program means; an integer is read    *)
(* back from its digits, and what a Value says that it converts to is what *)
(* it converts to, exactly; a string is read back from its quotes; Values  *)
(* are totally ordered; a path reads its own text, and finds what was put  *)
(* where it leads; and base64, hexadecimal and URL encoding lose nothing.  *)
(***************************************************************************)
EXTENDS Decimal_proof, JsonArray, NumberCalls, TextCalls, JsonOrder, JsonPath, SequenceTheorems

-----------------------------------------------------------------------------
(* Arrays.                                                                 *)

\* A set of numbers below a bound has a greatest, and Max is it.
LEMMA Greatest ==
  ASSUME NEW S, NEW n \in Nat, S \subseteq 0 .. n - 1, S # {}
  PROVE  Max(S) \in S /\ \A y \in S : y <= Max(S)
<1> DEFINE Above == {x \in Nat : \A y \in S : y <= x}
<1>1. n \in Above /\ Above \subseteq Nat
  OBVIOUS
<1>2. PICK m \in Above : \A x \in Above : ~(x < m)
  BY <1>1, LeastNatural
<1>3. m \in S
  <2> SUFFICES ASSUME m \notin S PROVE FALSE
    OBVIOUS
  <2>1. \A y \in S : y <= m - 1
    BY <1>2
  <2>2. PICK y \in S : TRUE
    OBVIOUS
  <2>3. m - 1 \in Nat
    BY <1>2, <2>1, <2>2
  <2>4. m - 1 \in Above
    BY <2>1, <2>3
  <2> QED
    BY <1>2, <2>4
<1>4. \E x \in S : \A y \in S : x >= y
  BY <1>2, <1>3
<1>5. Max(S) \in S /\ \A y \in S : Max(S) >= y
  BY <1>4 DEF Max
<1> QED
  BY <1>5

IsMap(f) == f = [k \in DOMAIN f |-> f[k]]

\* An array whose indices are below n.
Below(items, n) ==
  /\ IsMap(items)
  /\ DOMAIN items \subseteq 0 .. n - 1

\* The size of an array: one more than its greatest index, or 0.
LEMMA Size ==
  ASSUME NEW items, NEW n \in Nat, Below(items, n)
  PROVE  /\ size(Array(items)) \in 0 .. n
         /\ Below(items, size(Array(items)))
         /\ size(Array(items)) > 0 => size(Array(items)) - 1 \in DOMAIN items
<1>1. items = Empty <=> DOMAIN items = {}
  BY DEF Empty, Below, IsMap
<1>2. size(Array(items)) = IF items = Empty THEN 0 ELSE Max(DOMAIN items) + 1
  BY DEF size, Array
<1>3. DOMAIN items \subseteq 0 .. n - 1
  BY DEF Below
<1>4. CASE items = Empty
  <2>1. size(Array(items)) = 0
    BY <1>2, <1>4
  <2>2. Below(items, 0)
    BY <1>1, <1>4 DEF Below
  <2> QED
    BY <2>1, <2>2
<1>5. CASE items # Empty
  <2>1. Max(DOMAIN items) \in DOMAIN items /\ \A y \in DOMAIN items : y <= Max(DOMAIN items)
    BY <1>1, <1>3, <1>5, Greatest
  <2>2. DOMAIN items \subseteq 0 .. Max(DOMAIN items)
    BY <1>3, <2>1
  <2>3. size(Array(items)) = Max(DOMAIN items) + 1 /\ Max(DOMAIN items) \in 0 .. n - 1
    BY <1>2, <1>3, <1>5, <2>1
  <2> QED
    BY <2>1, <2>2, <2>3 DEF Below
<1> QED
  BY <1>4, <1>5

\* The elements a list can have.
Element == Added \cup {Null}

\* The array v stands for the list s.
Represents(v, s) ==
  /\ v = Null \/ v = Array(v.items)
  /\ v = Null => s = <<>>
  /\ s \in Seq(Element)
  /\ Below(AsArray(v).items, Len(s))
  /\ \A k \in 0 .. Len(s) - 1 :
       s[k + 1] = IF k \in DOMAIN AsArray(v).items THEN AsArray(v).items[k] ELSE Null

\* Null and arrays, told apart by their type.
LEMMA Arrays ==
  /\ \A items : Array(items).items = items /\ Array(items) # Null /\ AsArray(Array(items)) = Array(items)
  /\ AsArray(Null) = Array(Empty) /\ DOMAIN Empty = {} /\ size(Null) = 0
<1>1. \A items : Array(items).items = items /\ Array(items).type = "array"
  BY DEF Array
<1>2. Null.type = "null"
  BY DEF Null
<1>3. size(Null) = 0
  BY <1>2 DEF size
<1> QED
  BY <1>1, <1>2, <1>3 DEF AsArray, Empty

\* A list made longer with nulls, or cut.
LEMMA Lengthened ==
  ASSUME NEW s \in Seq(Element), NEW n \in Nat
  PROVE  /\ ToLength(s, n) \in Seq(Element) /\ Len(ToLength(s, n)) = n
         /\ \A k \in 0 .. n - 1 : ToLength(s, n)[k + 1] = IF k < Len(s) THEN s[k + 1] ELSE Null
<1>1. \A k \in 1 .. n : (IF k <= Len(s) THEN s[k] ELSE Null) \in Element
  BY DEF Element
<1>2. ToLength(s, n) \in [1 .. n -> Element]
  BY <1>1 DEF ToLength
<1>3. ToLength(s, n) \in Seq(Element) /\ Len(ToLength(s, n)) = n
  BY <1>2
<1> QED
  BY <1>3 DEF ToLength

\* f is the map with x at key.
Extends(f, map, key, x) ==
  /\ DOMAIN f = DOMAIN map \cup {key}
  /\ \A k \in DOMAIN f : f[k] = IF k = key THEN x ELSE map[k]
  /\ IsMap(f)

\* Put puts.
LEMMA PutExtends == \A map, key, x : Extends(Put(map, key, x), map, key, x)
  BY DEF Put, IsMap, Extends

\* A list with one element changed.
LEMMA Changed ==
  ASSUME NEW s \in Seq(Element), NEW i, NEW x \in Element
  PROVE  [s EXCEPT ![i] = x] \in Seq(Element) /\ Len([s EXCEPT ![i] = x]) = Len(s)
<1>1. s \in [1 .. Len(s) -> Element] /\ Len(s) \in Nat
  OBVIOUS
<1>2. [s EXCEPT ![i] = x] \in [1 .. Len(s) -> Element]
  BY <1>1
<1> QED
  BY <1>1, <1>2

\* What an array that stands for a list is.
LEMMA AnArray ==
  ASSUME NEW v, NEW s, Represents(v, s)
  PROVE  /\ AsArray(v) = Array(AsArray(v).items)
         /\ s \in Seq(Element) /\ Len(s) \in Nat
         /\ Below(AsArray(v).items, Len(s))
         /\ size(AsArray(v)) \in 0 .. Len(s) /\ size(v) = size(AsArray(v))
         /\ Below(AsArray(v).items, size(AsArray(v)))
<1>1. AsArray(v) = Array(AsArray(v).items)
  BY Arrays DEF Represents
<1>2. s \in Seq(Element) /\ Len(s) \in Nat /\ Below(AsArray(v).items, Len(s))
  BY DEF Represents
<1>3. size(AsArray(v)) \in 0 .. Len(s) /\ Below(AsArray(v).items, size(AsArray(v)))
  BY <1>1, <1>2, Size
<1>4. size(v) = size(AsArray(v))
  <2>1. CASE v = Null
    <3>1. size(Array(Empty)) = 0
      BY Arrays DEF size, Array
    <3> QED
      BY <2>1, <3>1, Arrays
  <2>2. CASE v # Null
    BY <2>2 DEF AsArray
  <2> QED
    BY <2>1, <2>2
<1> QED
  BY <1>1, <1>2, <1>3, <1>4

\* operator[] makes an element, and lengthens the list as far.
LEMMA RefRepresents ==
  ASSUME NEW v, NEW s, Represents(v, s), NEW i \in Nat
  PROVE  /\ Represents(Ref(v, i), Reaching(s, i))
         /\ Len(Reaching(s, i)) = (IF i < Len(s) THEN Len(s) ELSE i + 1)
         /\ Ref(v, i) = Array(Ref(v, i).items) /\ i \in DOMAIN Ref(v, i).items
<1> DEFINE a == AsArray(v)
           n == IF i < Len(s) THEN Len(s) ELSE i + 1
           t == ToLength(s, n)
           w == Ref(v, i)
<1>1. /\ a = Array(a.items) /\ s \in Seq(Element) /\ Len(s) \in Nat
      /\ Below(a.items, Len(s))
  BY AnArray
<1>2. n \in Nat /\ i < n /\ Len(s) <= n
  BY <1>1
<1>3. /\ t \in Seq(Element) /\ Len(t) = n
      /\ \A k \in 0 .. n - 1 : t[k + 1] = IF k < Len(s) THEN s[k + 1] ELSE Null
  BY <1>1, <1>2, Lengthened
<1>4. w = Array(w.items) /\ w # Null /\ AsArray(w) = w
      /\ w.items = IF i \in DOMAIN a.items THEN a.items ELSE Put(a.items, i, Null)
  BY <1>1, Arrays DEF Ref
<1>5. /\ DOMAIN w.items = DOMAIN a.items \cup {i}
      /\ \A k \in DOMAIN w.items : w.items[k] = IF k \in DOMAIN a.items THEN a.items[k] ELSE Null
      /\ IsMap(w.items)
  <2>1. IsMap(a.items)
    BY <1>1 DEF Below
  <2>2. CASE i \in DOMAIN a.items
    <3>1. w.items = a.items
      BY <1>4, <2>2
    <3> QED
      BY <2>1, <2>2, <3>1
  <2>3. CASE i \notin DOMAIN a.items
    <3>1. w.items = Put(a.items, i, Null)
      BY <1>4, <2>3
    <3>2. Extends(w.items, a.items, i, Null)
      BY <3>1, PutExtends
    <3> HIDE DEF w, a
    <3> QED
      BY <2>3, <3>2 DEF Extends
  <2> QED
    BY <2>2, <2>3
<1>6. Below(w.items, n)
  BY <1>1, <1>2, <1>5 DEF Below
<1>7. \A k \in 0 .. n - 1 : t[k + 1] = IF k \in DOMAIN w.items THEN w.items[k] ELSE Null
  <2> SUFFICES ASSUME NEW k \in 0 .. n - 1
               PROVE  t[k + 1] = IF k \in DOMAIN w.items THEN w.items[k] ELSE Null
    OBVIOUS
  <2>1. CASE k < Len(s)
    <3>1. t[k + 1] = IF k \in DOMAIN a.items THEN a.items[k] ELSE Null
      BY <1>1, <1>3, <2>1 DEF Represents
    <3> QED
      BY <1>5, <3>1
  <2>2. CASE k >= Len(s)
    <3>1. k \notin DOMAIN a.items
      BY <1>1, <2>2 DEF Below
    <3> QED
      BY <1>1, <1>3, <1>5, <2>2, <3>1
  <2> QED
    BY <1>1, <2>1, <2>2
<1>8. Represents(w, t)
  BY <1>3, <1>4, <1>6, <1>7 DEF Represents
<1>9. Reaching(s, i) = t
  BY DEF Reaching
<1> QED
  BY <1>3, <1>4, <1>5, <1>8, <1>9

\* An assignment changes one element.
LEMMA SetRepresents ==
  ASSUME NEW v, NEW s, Represents(v, s), NEW i \in Nat, NEW x \in Added
  PROVE  Represents(Set(v, i, x), [Reaching(s, i) EXCEPT ![i + 1] = x])
<1> DEFINE w == Ref(v, i)
           t == Reaching(s, i)
           u == [t EXCEPT ![i + 1] = x]
           y == Set(v, i, x)
<1>1. Represents(w, t) /\ w = Array(w.items) /\ AsArray(w) = w /\ i \in DOMAIN w.items
  BY RefRepresents, Arrays
<1>2. t \in Seq(Element) /\ Len(t) \in Nat /\ Below(w.items, Len(t))
  BY <1>1, AnArray
<1>3. x \in Element
  BY DEF Element
<1>4. u \in Seq(Element) /\ Len(u) = Len(t) /\ DOMAIN t = 1 .. Len(t)
  <2>1. u \in Seq(Element) /\ Len(u) = Len(t)
    <3> HIDE DEF t
    <3> QED
      BY <1>2, <1>3, Changed
  <2> QED
    BY <1>2, <2>1
<1>5. y = Array(y.items) /\ y # Null /\ AsArray(y) = y /\ y.items = Put(w.items, i, x)
  BY Arrays DEF Set
<1>6. /\ DOMAIN y.items = DOMAIN w.items
      /\ \A k \in DOMAIN y.items : y.items[k] = IF k = i THEN x ELSE w.items[k]
      /\ IsMap(y.items)
  <2>1. Extends(y.items, w.items, i, x)
    BY <1>5, PutExtends
  <2> HIDE DEF y, w
  <2> QED
    BY <1>1, <2>1 DEF Extends
<1>7. Below(y.items, Len(u))
  BY <1>2, <1>4, <1>6 DEF Below
<1>8. \A k \in 0 .. Len(u) - 1 : u[k + 1] = IF k \in DOMAIN y.items THEN y.items[k] ELSE Null
  <2> SUFFICES ASSUME NEW k \in 0 .. Len(t) - 1
               PROVE  u[k + 1] = IF k \in DOMAIN y.items THEN y.items[k] ELSE Null
    BY <1>4
  <2>1. t[k + 1] = IF k \in DOMAIN w.items THEN w.items[k] ELSE Null
    BY <1>1 DEF Represents
  <2>2. k + 1 \in DOMAIN t /\ k + 1 \in Nat /\ (k + 1 = i + 1 <=> k = i)
    BY <1>2, <1>4
  <2>3. u[k + 1] = IF k = i THEN x ELSE t[k + 1]
    BY <2>2
  <2> QED
    BY <1>1, <1>6, <2>1, <2>3
<1> QED
  BY <1>4, <1>5, <1>7, <1>8 DEF Represents

\* append adds behind what the array has of the list.
LEMMA AppendRepresents ==
  ASSUME NEW v, NEW s, Represents(v, s), NEW x \in Added
  PROVE  Represents(append(v, x), ToLength(s, size(v)) \o <<x>>)
<1> DEFINE n == size(v)
           a == AsArray(v)
           t == ToLength(s, n)
           u == t \o <<x>>
           y == append(v, x)
<1>1. /\ a = Array(a.items) /\ s \in Seq(Element) /\ Len(s) \in Nat
      /\ n \in 0 .. Len(s) /\ Below(a.items, n)
  BY AnArray
<1>2. /\ t \in Seq(Element) /\ Len(t) = n
      /\ \A k \in 0 .. n - 1 : t[k + 1] = IF k < Len(s) THEN s[k + 1] ELSE Null
  <2> HIDE DEF n
  <2> QED
    BY <1>1, Lengthened
<1>3. x \in Element /\ <<x>> \in Seq(Element) /\ Len(<<x>>) = 1
  BY DEF Element
<1>4. /\ u \in Seq(Element) /\ Len(u) = n + 1 /\ u[n + 1] = x
      /\ \A k \in 0 .. n - 1 : u[k + 1] = t[k + 1]
  <2> HIDE DEF n, t
  <2> QED
    BY <1>1, <1>2, <1>3
<1>5. n \notin DOMAIN a.items
  BY <1>1 DEF Below
<1>6. y = Array(y.items) /\ y # Null /\ AsArray(y) = y
      /\ y.items = Put(Put(a.items, n, Null), n, x)
  BY <1>1, <1>5, Arrays DEF append, Set, Ref
<1>7. /\ DOMAIN y.items = DOMAIN a.items \cup {n}
      /\ \A k \in DOMAIN y.items : y.items[k] = IF k = n THEN x ELSE a.items[k]
      /\ IsMap(y.items)
  <2> DEFINE m == Put(a.items, n, Null)
  <2>1. Extends(m, a.items, n, Null) /\ Extends(y.items, m, n, x)
    BY <1>6, PutExtends
  <2> HIDE DEF y, a, n, m
  <2> QED
    BY <2>1 DEF Extends
<1>8. Below(y.items, n + 1)
  BY <1>1, <1>7 DEF Below
<1>9. \A k \in 0 .. Len(u) - 1 : u[k + 1] = IF k \in DOMAIN y.items THEN y.items[k] ELSE Null
  <2> SUFFICES ASSUME NEW k \in 0 .. n
               PROVE  u[k + 1] = IF k \in DOMAIN y.items THEN y.items[k] ELSE Null
    BY <1>1, <1>4
  <2>1. CASE k = n
    BY <1>4, <1>7, <2>1
  <2>2. CASE k # n
    <3>1. k \in 0 .. n - 1 /\ k < Len(s) /\ k \in 0 .. Len(s) - 1
      BY <1>1, <2>2
    <3>2. u[k + 1] = s[k + 1]
      BY <1>2, <1>4, <3>1
    <3>3. s[k + 1] = IF k \in DOMAIN a.items THEN a.items[k] ELSE Null
      BY <3>1 DEF Represents
    <3> QED
      BY <1>7, <2>2, <3>2, <3>3
  <2> QED
    BY <2>1, <2>2
<1> QED
  BY <1>4, <1>6, <1>8, <1>9 DEF Represents

\* A list without its i-th element.
LEMMA Removed ==
  ASSUME NEW s \in Seq(Element), NEW i \in 1 .. Len(s)
  PROVE  /\ RemoveAt(s, i) \in Seq(Element) /\ Len(RemoveAt(s, i)) = Len(s) - 1
         /\ \A k \in 1 .. Len(s) - 1 : RemoveAt(s, i)[k] = IF k < i THEN s[k] ELSE s[k + 1]
<1> DEFINE t == SubSeq(s, 1, i - 1)
           u == SubSeq(s, i + 1, Len(s))
<1>1. RemoveAt(s, i) = t \o u
  BY DEF RemoveAt
<1>2. /\ t \in Seq(Element) /\ Len(t) = i - 1 /\ \A k \in 1 .. i - 1 : t[k] = s[k]
      /\ u \in Seq(Element) /\ Len(u) = Len(s) - i
      /\ \A k \in 1 .. Len(s) - i : u[k] = s[i + k]
  OBVIOUS
<1> HIDE DEF t, u
<1>3. t \o u \in Seq(Element) /\ Len(t \o u) = Len(s) - 1
  BY <1>2
<1>4. \A k \in 1 .. Len(s) - 1 : (t \o u)[k] = IF k < i THEN s[k] ELSE s[k + 1]
  <2> SUFFICES ASSUME NEW k \in 1 .. Len(s) - 1
               PROVE  (t \o u)[k] = IF k < i THEN s[k] ELSE s[k + 1]
    OBVIOUS
  <2>1. (t \o u)[k] = IF k <= Len(t) THEN t[k] ELSE u[k - Len(t)]
    BY <1>2
  <2>2. CASE k < i
    BY <1>2, <2>1, <2>2
  <2>3. CASE ~(k < i)
    <3>1. k - Len(t) = k - i + 1 /\ k - i + 1 \in 1 .. Len(s) - i /\ i + (k - i + 1) = k + 1
      BY <1>2, <2>3
    <3> QED
      BY <1>2, <2>1, <2>3, <3>1
  <2> QED
    BY <2>2, <2>3
<1> QED
  BY <1>1, <1>3, <1>4

\* removeIndex moves the elements behind the removed one.
LEMMA RemoveRepresents ==
  ASSUME NEW v, NEW s, Represents(v, s), v # Null, NEW i \in DOMAIN v.items
  PROVE  Represents(removeIndex(v, i), RemoveAt(s, i + 1))
<1> DEFINE n == Len(s)
           z == size(v)
           u == RemoveAt(s, i + 1)
           y == removeIndex(v, i)
           at(k) == IF k \in DOMAIN v.items THEN v.items[k] ELSE Null
<1>1. /\ v = Array(v.items) /\ AsArray(v) = v /\ s \in Seq(Element) /\ n \in Nat
      /\ z \in 0 .. n /\ Below(v.items, z)
  BY AnArray, Arrays DEF Represents
<1>2. i \in 0 .. z - 1 /\ i + 1 \in 1 .. n
  BY <1>1 DEF Below
<1>3. u \in Seq(Element) /\ Len(u) = n - 1
      /\ \A k \in 1 .. n - 1 : u[k] = IF k < i + 1 THEN s[k] ELSE s[k + 1]
  BY <1>1, <1>2, Removed
<1>4. \A k : At(v, k) = at(k)
  <2>1. v.type = "array"
    BY <1>1 DEF Array
  <2> QED
    BY <2>1 DEF At
<1>5. \A k \in 0 .. n - 1 : s[k + 1] = at(k)
  BY <1>1 DEF Represents
<1>6. /\ y = Array(y.items) /\ y # Null /\ AsArray(y) = y
      /\ DOMAIN y.items = (DOMAIN v.items \cup (i .. z - 1)) \ {z - 1}
      /\ \A k \in DOMAIN y.items : y.items[k] = IF k \in i .. z - 2 THEN at(k + 1) ELSE at(k)
      /\ IsMap(y.items)
  <2> DEFINE moved == [k \in DOMAIN v.items \cup (i .. z - 1) |->
                         IF k \in i .. (z - 1) - 1 THEN At(v, k + 1) ELSE At(v, k)]
  <2>1. y.items = Erase(moved, {z - 1}) /\ y = Array(y.items) /\ y # Null /\ AsArray(y) = y
    BY Arrays DEF removeIndex
  <2>2. DOMAIN y.items = (DOMAIN v.items \cup (i .. z - 1)) \ {z - 1} /\ IsMap(y.items)
    BY <2>1 DEF Erase, IsMap
  <2>3. ASSUME NEW k \in DOMAIN y.items
        PROVE  y.items[k] = IF k \in i .. z - 2 THEN at(k + 1) ELSE at(k)
    <3>1. y.items[k] = moved[k] /\ k \in DOMAIN moved
      BY <2>1, <2>2 DEF Erase
    <3>2. (z - 1) - 1 = z - 2
      BY <1>1
    <3> QED
      BY <3>1, <3>2, <1>4
  <2> QED
    BY <2>1, <2>2, <2>3
<1>7. DOMAIN y.items \subseteq 0 .. z - 2 /\ i .. z - 2 \subseteq DOMAIN y.items
      /\ \A k \in 0 .. i - 1 : k \in DOMAIN y.items <=> k \in DOMAIN v.items
  <2>1. DOMAIN v.items \subseteq 0 .. z - 1 /\ z \in Nat /\ i \in 0 .. z - 1
    BY <1>1, <1>2 DEF Below
  <2> HIDE DEF y, z
  <2> QED
    BY <1>6, <2>1
<1>8. Below(y.items, Len(u))
  BY <1>1, <1>3, <1>6, <1>7 DEF Below
<1>9. \A k \in 0 .. Len(u) - 1 : u[k + 1] = IF k \in DOMAIN y.items THEN y.items[k] ELSE Null
  <2> SUFFICES ASSUME NEW k \in 0 .. n - 2
               PROVE  u[k + 1] = IF k \in DOMAIN y.items THEN y.items[k] ELSE Null
    BY <1>3
  <2>1. k + 1 \in 1 .. n - 1 /\ k \in 0 .. n - 1 /\ k + 1 \in 0 .. n - 1 /\ k \in Int /\ i \in Int
    BY <1>1, <1>2
  <2>2. u[k + 1] = IF k < i THEN at(k) ELSE at(k + 1)
    <3>1. u[k + 1] = IF k + 1 < i + 1 THEN s[k + 1] ELSE s[(k + 1) + 1]
      BY <1>3, <2>1
    <3>2. s[k + 1] = at(k) /\ s[(k + 1) + 1] = at(k + 1)
      BY <1>5, <2>1
    <3>3. k + 1 < i + 1 <=> k < i
      BY <2>1
    <3> QED
      BY <3>1, <3>2, <3>3
  <2> HIDE DEF at
  <2>3. CASE k < i
    <3>1. k \in 0 .. i - 1 /\ k \notin i .. z - 2
      BY <2>1, <2>3
    <3>2. k \in DOMAIN y.items => y.items[k] = at(k)
      BY <1>6, <3>1
    <3> QED
      BY <1>7, <2>2, <2>3, <3>1, <3>2 DEF at
  <2>4. CASE k >= i /\ k <= z - 2
    <3>1. k \in i .. z - 2
      BY <1>1, <2>1, <2>4
    <3> QED
      BY <1>6, <1>7, <2>1, <2>2, <2>4, <3>1
  <2>5. CASE k >= i /\ k > z - 2
    <3>1. k + 1 \notin DOMAIN v.items /\ k \notin DOMAIN y.items
      BY <1>1, <1>7, <2>1, <2>5 DEF Below
    <3>2. at(k + 1) = Null
      BY <3>1 DEF at
    <3> QED
      BY <2>1, <2>2, <2>5, <3>1, <3>2
  <2> QED
    BY <1>1, <2>1, <2>3, <2>4, <2>5
<1> QED
  BY <1>3, <1>6, <1>8, <1>9 DEF Represents

\* resize cuts or lengthens, and throws only at a hole.
LEMMA ResizeRepresents ==
  ASSUME NEW v, NEW s, Represents(v, s), NEW n \in Nat
  PROVE  /\ Represents(Resized(v, n), ToLength(s, n))
         /\ ~ResizeAsserts(v, n) =>
              v # Null /\ n - 1 \notin DOMAIN v.items /\ n < size(v)
<1> DEFINE a == AsArray(v)
           z == size(a)
           t == ToLength(s, n)
           y == Resized(v, n)
           at(k) == IF k \in DOMAIN a.items THEN a.items[k] ELSE Null
<1>1. /\ a = Array(a.items) /\ s \in Seq(Element) /\ Len(s) \in Nat
      /\ z \in 0 .. Len(s) /\ size(v) = z /\ Below(a.items, z)
      /\ z > 0 => z - 1 \in DOMAIN a.items
  BY AnArray, Size
<1>2. /\ t \in Seq(Element) /\ Len(t) = n
      /\ \A k \in 0 .. n - 1 : t[k + 1] = IF k < Len(s) THEN s[k + 1] ELSE Null
  BY <1>1, Lengthened
<1>3. \A k \in 0 .. n - 1 : t[k + 1] = at(k)
  <2> SUFFICES ASSUME NEW k \in 0 .. n - 1 PROVE t[k + 1] = at(k)
    OBVIOUS
  <2>1. CASE k < Len(s)
    BY <1>1, <1>2, <2>1 DEF Represents
  <2>2. CASE k >= Len(s)
    <3>1. k \notin DOMAIN a.items
      BY <1>1, <2>2 DEF Below
    <3>2. ~(k < Len(s))
      BY <1>1, <2>2
    <3> QED
      BY <1>2, <3>1, <3>2
  <2> QED
    BY <1>1, <2>1, <2>2
<1>4. ASSUME NEW w, w = Array(w.items), IsMap(w.items), DOMAIN w.items \subseteq 0 .. n - 1,
             \A k \in 0 .. n - 1 : (IF k \in DOMAIN w.items THEN w.items[k] ELSE Null) = at(k)
      PROVE  Represents(w, t)
  <2>1. w # Null /\ AsArray(w) = w
    BY <1>4, Arrays
  <2> HIDE DEF at, t
  <2> QED
    BY <1>2, <1>3, <1>4, <2>1 DEF Represents, Below
<1>5. CASE n = 0
  <2>1. y = Array(Empty) /\ y.items = Empty
    BY <1>1, <1>5, Arrays DEF Resized
  <2>2. IsMap(Empty) /\ DOMAIN Empty = {}
    BY DEF Empty, IsMap
  <2>3. Represents(y, t)
    BY <1>4, <1>5, <2>1, <2>2
  <2> QED
    BY <1>5, <2>3 DEF ResizeAsserts
<1>6. CASE n > z
  <2>1. y = Ref(a, n - 1) /\ n # 0 /\ n - 1 \in Nat /\ n - 1 \notin DOMAIN a.items
    BY <1>1, <1>6 DEF Resized, Below
  <2>2. AsArray(a) = a
    BY <1>1, Arrays
  <2>3. y = Array(Put(a.items, n - 1, Null)) /\ y.items = Put(a.items, n - 1, Null)
    BY <2>1, <2>2, Arrays DEF Ref
  <2>4. Extends(y.items, a.items, n - 1, Null)
    BY <2>3, PutExtends
  <2>5. DOMAIN y.items \subseteq 0 .. n - 1
    BY <1>1, <1>6, <2>4 DEF Extends, Below
  <2>6. \A k \in 0 .. n - 1 : (IF k \in DOMAIN y.items THEN y.items[k] ELSE Null) = at(k)
    <3> HIDE DEF y, a
    <3> QED
      BY <2>1, <2>4 DEF Extends
  <2>7. Represents(y, t)
    BY <1>4, <2>3, <2>4, <2>5, <2>6 DEF Extends
  <2>8. ResizeAsserts(v, n)
    BY <1>6 DEF ResizeAsserts
  <2> QED
    BY <2>7, <2>8
<1>7. CASE n # 0 /\ n <= z
  <2>1. y = Array(Erase(a.items, n .. z - 1)) /\ y.items = Erase(a.items, n .. z - 1)
    BY <1>1, <1>7, Arrays DEF Resized
  <2>2. DOMAIN y.items = DOMAIN a.items \ (n .. z - 1) /\ IsMap(y.items)
    BY <2>1 DEF Erase, IsMap
  <2>3. \A k \in DOMAIN y.items : y.items[k] = a.items[k]
    BY <2>1 DEF Erase
  <2>4. DOMAIN y.items \subseteq 0 .. n - 1
    <3> HIDE DEF y, a, z
    <3> QED
      BY <1>1, <1>7, <2>2 DEF Below
  <2>5. \A k \in 0 .. n - 1 : (IF k \in DOMAIN y.items THEN y.items[k] ELSE Null) = at(k)
    <3> HIDE DEF y, a, z
    <3> QED
      BY <2>2, <2>3
  <2>6. Represents(y, t)
    BY <1>4, <2>1, <2>2, <2>4, <2>5
  <2>7. ASSUME ~ResizeAsserts(v, n)
        PROVE  v # Null /\ n - 1 \notin DOMAIN v.items /\ n < size(v)
    <3>1. size(y) # n
      BY <2>7 DEF ResizeAsserts
    <3>2. Below(y.items, n)
      BY <2>2, <2>4 DEF Below
    <3>3. size(y) \in 0 .. n /\ Below(y.items, size(y))
      BY <2>1, <3>2, Size
    <3>4. n - 1 \notin DOMAIN y.items
      BY <1>7, <3>1, <3>3 DEF Below
    <3>5. n - 1 \notin DOMAIN a.items
      BY <1>1, <1>7, <2>2, <3>4
    <3>6. n < z
      BY <1>1, <1>7, <3>5
    <3>7. v # Null
      BY <1>1, <1>7, <3>6, Arrays
    <3> QED
      BY <1>1, <3>5, <3>6, <3>7 DEF AsArray
  <2> QED
    BY <2>6, <2>7
<1> QED
  BY <1>1, <1>5, <1>6, <1>7

\* What a resize that threw says, and the list the array stands for.
ArrayInv ==
  /\ Represents(array, list)
  /\ thrown # NoResize => /\ thrown.n - 1 \notin DOMAIN thrown.before.items
                          /\ thrown.n < size(thrown.before)

\* At first there is neither array nor list.
LEMMA ArrayStarts == ArrayInit => ArrayInv
<1> SUFFICES ASSUME ArrayInit PROVE ArrayInv
  OBVIOUS
<1>1. array = Null /\ list = <<>> /\ thrown = NoResize
  BY DEF ArrayInit
<1>2. <<>> \in Seq(Element)
  OBVIOUS
<1>3. Len(<<>>) = 0 /\ 0 .. 0 - 1 = {}
  OBVIOUS
<1>4. AsArray(Null).items = Empty /\ DOMAIN Empty = {} /\ IsMap(Empty)
  BY Arrays DEF IsMap, Empty
<1>5. Below(Empty, 0)
  BY <1>4 DEF Below
<1>6. Represents(Null, <<>>)
  BY <1>2, <1>3, <1>4, <1>5 DEF Represents
<1> QED
  BY <1>1, <1>6 DEF ArrayInv

\* Every operation keeps the array the list.
LEMMA ArraySteps == ArrayInv /\ [ArrayNext]_arrayVars => ArrayInv'
<1> SUFFICES ASSUME ArrayInv, [ArrayNext]_arrayVars PROVE ArrayInv'
  OBVIOUS
<1>1. Represents(array, list) /\ MaxArray \in Nat
  BY ArrayAssumption DEF ArrayInv
<1>2. ASSUME NEW v, NEW s, Becomes1(v, s), Represents(v, s)
      PROVE  ArrayInv'
  BY <1>2 DEF Becomes1, ArrayInv, NoResize, Represents
<1>3. CASE Append1
  BY <1>1, <1>2, <1>3, AppendRepresents DEF Append1
<1>4. CASE Assign
  BY <1>1, <1>2, <1>4, SetRepresents DEF Assign
<1>5. CASE Touch
  BY <1>1, <1>2, <1>5, RefRepresents DEF Touch
<1>6. CASE RemoveElement
  BY <1>1, <1>2, <1>6, RemoveRepresents DEF RemoveElement
<1>7. CASE Resize
  BY <1>1, <1>2, <1>7, ResizeRepresents DEF Resize
<1>8. CASE ResizeThrows
  <2>1. PICK n \in 0 .. MaxArray :
          /\ ~ResizeAsserts(array, n)
          /\ array' = Resized(array, n) /\ list' = ToLength(list, n)
          /\ thrown' = [f |-> "resize", n |-> n, before |-> array]
    BY <1>8 DEF ResizeThrows
  <2>2. /\ Represents(Resized(array, n), ToLength(list, n))
        /\ n - 1 \notin DOMAIN array.items /\ n < size(array)
    BY <1>1, <2>1, ResizeRepresents
  <2>3. Represents(array, list)'
    BY <2>1, <2>2 DEF Represents
  <2> QED
    BY <2>1, <2>2, <2>3 DEF ArrayInv
<1>9. CASE UNCHANGED arrayVars
  BY <1>9 DEF arrayVars, ArrayInv, Represents
<1> QED
  BY <1>3, <1>4, <1>5, <1>6, <1>7, <1>8, <1>9 DEF ArrayNext

\* A Json::Value used as an array is, after any operations in any order, the
\* list of the elements put into it, with its holes read as null; and resize
\* throws only where it would end in a hole: for arrays of any length and any
\* elements.
THEOREM ArrayStandsForList == ArraySpec => []ArrayIsList
<1>1. ArrayInv => ArrayIsList
  <2> SUFFICES ASSUME ArrayInv PROVE ArrayIsList
    OBVIOUS
  <2>1. Represents(array, list)
    BY DEF ArrayInv
  <2>2. size(array) \in 0 .. Len(list) /\ Len(list) \in Nat
    BY <2>1, AnArray
  <2>3. \A k \in 0 .. Len(list) - 1 : At(array, k) = list[k + 1]
    <3>1. CASE array = Null
      BY <2>1, <3>1 DEF Represents
    <3>2. CASE array # Null
      <4>1. array.type = "array" /\ AsArray(array) = array
        BY <2>1, <3>2 DEF Represents, Array, AsArray
      <4> QED
        BY <2>1, <4>1 DEF Represents, At
    <3> QED
      BY <3>1, <3>2
  <2>4. \A i \in 1 .. Len(list) : At(array, i - 1) = list[i]
    <3> SUFFICES ASSUME NEW i \in 1 .. Len(list) PROVE At(array, i - 1) = list[i]
      OBVIOUS
    <3>1. i - 1 \in 0 .. Len(list) - 1 /\ (i - 1) + 1 = i
      BY <2>2
    <3> QED
      BY <2>3, <3>1
  <2> QED
    BY <2>2, <2>4 DEF ArrayInv, ArrayIsList
<1> QED
  BY <1>1, ArrayStarts, ArraySteps, PTL DEF ArraySpec

-----------------------------------------------------------------------------
(* The digits of a number.                                                 *)

DigitsStep(g, n) == IF n < 10 THEN <<n>> ELSE Append(g[n \div 10], n % 10)

\* Every digit taken off makes the number smaller.
LEMMA DigitTakenOff ==
  ASSUME NEW n \in Nat
  PROVE  /\ n \div 10 \in Nat /\ n % 10 \in 0 .. 9 /\ n = 10 * (n \div 10) + (n % 10)
         /\ n \div 10 <= n /\ (n >= 10 => n \div 10 < n /\ n \div 10 >= 1)
         /\ n < 10 => n \div 10 = 0 /\ n % 10 = n
  OBVIOUS

LEMMA DigitsAre ==
  uintToString = [n \in Nat |-> IF n < 10 THEN <<n>> ELSE Append(uintToString[n \div 10], n % 10)]
<1>1. Itself \in [Nat -> Nat]
  BY DEF Itself
<1>2. IsWellFoundedOn(Smaller(Itself, Nat), Nat)
  BY <1>1, MeasureIsWellFounded
<1>3. WFDefOn(Smaller(Itself, Nat), Nat, DigitsStep)
  <2> SUFFICES ASSUME NEW g, NEW h, NEW n \in Nat,
                      \A y \in SetLessThan(n, Smaller(Itself, Nat), Nat) : g[y] = h[y]
               PROVE  DigitsStep(g, n) = DigitsStep(h, n)
    BY DEF WFDefOn
  <2>1. n >= 10 => n \div 10 \in SetLessThan(n, Smaller(Itself, Nat), Nat)
    BY DigitTakenOff DEF SetLessThan, Smaller, Itself
  <2> QED
    BY <2>1 DEF DigitsStep
<1>4. OpDefinesFcn(uintToString, Nat, DigitsStep)
  BY DEF OpDefinesFcn, uintToString, DigitsStep
<1>5. WFInductiveDefines(uintToString, Nat, DigitsStep)
  BY <1>2, <1>3, <1>4, WFInductiveDef
<1> QED
  BY <1>5 DEF WFInductiveDefines, DigitsStep

DigitTexts == Seq(0 .. 9)
LengthOf == [s \in DigitTexts |-> Len(s)]
ValueStep(g, s) == IF s = <<>> THEN 0 ELSE 10 * g[Front(s)] + Last(s)

LEMMA DigitsFront ==
  ASSUME NEW s \in DigitTexts, s # <<>>
  PROVE  /\ Front(s) \in DigitTexts /\ Len(Front(s)) < Len(s) /\ Last(s) \in 0 .. 9
         /\ Front(s) = SubSeq(s, 1, Len(s) - 1) /\ Last(s) = s[Len(s)]
  BY DEF Front, Last, DigitTexts

LEMMA ValueIs ==
  Value = [s \in DigitTexts |-> IF s = <<>> THEN 0 ELSE 10 * Value[Front(s)] + Last(s)]
<1>1. LengthOf \in [DigitTexts -> Nat]
  BY DEF LengthOf, DigitTexts
<1>2. IsWellFoundedOn(Smaller(LengthOf, DigitTexts), DigitTexts)
  BY <1>1, MeasureIsWellFounded
<1>3. WFDefOn(Smaller(LengthOf, DigitTexts), DigitTexts, ValueStep)
  <2> SUFFICES ASSUME NEW g, NEW h, NEW s \in DigitTexts,
                      \A y \in SetLessThan(s, Smaller(LengthOf, DigitTexts), DigitTexts) : g[y] = h[y]
               PROVE  ValueStep(g, s) = ValueStep(h, s)
    BY DEF WFDefOn
  <2>1. s # <<>> => Front(s) \in SetLessThan(s, Smaller(LengthOf, DigitTexts), DigitTexts)
    BY DigitsFront DEF SetLessThan, Smaller, LengthOf
  <2> QED
    BY <2>1 DEF ValueStep
<1>4. OpDefinesFcn(Value, DigitTexts, ValueStep)
  BY DEF OpDefinesFcn, Value, ValueStep, DigitTexts
<1>5. WFInductiveDefines(Value, DigitTexts, ValueStep)
  BY <1>2, <1>3, <1>4, WFInductiveDef
<1> QED
  BY <1>5 DEF WFInductiveDefines, ValueStep

\* s are the digits of n, and each of its beginnings shows less than a tenth of
\* what the next shows.
Shows(s, n) ==
  /\ s \in DigitTexts /\ Len(s) \in Nat \ {0} /\ Value[s] = n
  /\ s[Len(s)] = n % 10 /\ Before(s, Len(s)) = n \div 10
  /\ \A i \in 1 .. Len(s) - 1 : Before(s, i) \in Nat /\ 10 * Before(s, i) <= n \div 10
  /\ Len(s) > 1 => n >= 10

LEMMA OneDigit ==
  ASSUME NEW n \in 0 .. 9
  PROVE  Shows(<<n>>, n)
<1> DEFINE s == <<n>>
<1>1. s \in DigitTexts /\ <<>> \in DigitTexts /\ Len(s) = 1 /\ s[1] = n /\ s # <<>>
  BY DEF DigitTexts
<1>2. SubSeq(s, 1, 1 - 1) = <<>>
  BY <1>1 DEF DigitTexts
<1>3. Front(s) = <<>> /\ Last(s) = n
  <2>1. Len(s) - 1 = 1 - 1
    BY <1>1
  <2> QED
    BY <1>1, <1>2, <2>1, DigitsFront
<1>4. Value[<<>>] = 0 /\ Value[s] = 10 * 0 + n
  BY <1>1, <1>3, ValueIs
<1>5. Before(s, 1) = 0
  BY <1>2, <1>4 DEF Before
<1>6. n \in Nat /\ n \div 10 = 0 /\ n % 10 = n
  BY DigitTakenOff
<1> HIDE DEF s
<1>7. Value[s] = n
  BY <1>4
<1>8. 1 .. Len(s) - 1 = {} /\ ~(Len(s) > 1) /\ Len(s) \in Nat \ {0}
  BY <1>1
<1>9. s[Len(s)] = n % 10 /\ Before(s, Len(s)) = n \div 10
  BY <1>1, <1>5, <1>6
<1>10. Shows(s, n)
  BY <1>1, <1>7, <1>8, <1>9 DEF Shows
<1> QED
  BY <1>10 DEF s

LEMMA MoreDigits ==
  ASSUME NEW n \in Nat, n >= 10, NEW s, Shows(s, n \div 10)
  PROVE  Shows(Append(s, n % 10), n)
<1> DEFINE m == n \div 10
           d == n % 10
           t == Append(s, d)
           l == Len(s)
<1>1. m \in Nat /\ d \in 0 .. 9 /\ n = 10 * m + d
  BY DigitTakenOff
<1>2. m \div 10 <= m
  BY <1>1, DigitTakenOff
<1> HIDE DEF m, d
<1>3. s \in DigitTexts /\ l \in Nat \ {0} /\ Value[s] = m
  BY DEF Shows, m
<1>4. /\ t \in DigitTexts /\ Len(t) = l + 1 /\ t[l + 1] = d /\ t # <<>>
      /\ SubSeq(t, 1, l) = s
      /\ \A i \in 1 .. l : SubSeq(t, 1, i - 1) = SubSeq(s, 1, i - 1)
  BY <1>1, <1>3 DEF DigitTexts
<1> HIDE DEF t
<1>5. Front(t) = s /\ Last(t) = d
  <2>1. Len(t) - 1 = l
    BY <1>3, <1>4
  <2> QED
    BY <1>4, <2>1, DigitsFront
<1>6. Value[t] = n
  <2>1. Value[t] = 10 * Value[Front(t)] + Last(t)
    BY <1>4, ValueIs
  <2> QED
    BY <1>1, <1>3, <1>5, <2>1
<1>7. Before(t, l + 1) = m
  <2>1. (l + 1) - 1 = l
    BY <1>3
  <2> QED
    BY <1>3, <1>4, <2>1 DEF Before
<1>8. \A i \in 1 .. l : Before(t, i) = Before(s, i)
  BY <1>4 DEF Before
<1>9. ASSUME NEW i \in 1 .. l PROVE Before(s, i) \in Nat /\ 10 * Before(s, i) <= m
  <2>1. i \in 1 .. l - 1 => Before(s, i) \in Nat /\ 10 * Before(s, i) <= m \div 10
    BY DEF Shows, m
  <2>2. m \div 10 \in Nat /\ 10 * (m \div 10) <= m
    BY <1>1, DigitTakenOff
  <2>3. i = l => Before(s, i) = m \div 10
    BY DEF Shows, m
  <2>4. i = l \/ i \in 1 .. l - 1
    BY <1>3
  <2> QED
    BY <1>1, <1>2, <2>1, <2>2, <2>3, <2>4
<1>10. Len(t) - 1 = l /\ Len(t) \in Nat \ {0}
  BY <1>3, <1>4
<1>11. \A i \in 1 .. Len(t) - 1 : Before(t, i) \in Nat /\ 10 * Before(t, i) <= n \div 10
  BY <1>8, <1>9, <1>10 DEF m
<1>12. Shows(t, n)
  BY <1>4, <1>6, <1>7, <1>10, <1>11 DEF Shows, m, d
<1> QED
  BY <1>12 DEF t, d

\* uintToString writes a number's digits.
LEMMA DigitsShow == \A n \in Nat : Shows(uintToString[n], n)
<1> DEFINE T == {n \in Nat : ~Shows(uintToString[n], n)}
<1> SUFFICES ASSUME T # {} PROVE FALSE
  OBVIOUS
<1>1. PICK n \in T : \A m \in T : ~(m < n)
  <2>1. T \subseteq Nat
    OBVIOUS
  <2> HIDE DEF T
  <2> QED
    BY <2>1, LeastNatural
<1>2. CASE n < 10
  <2>1. uintToString[n] = <<n>> /\ n \in 0 .. 9
    BY <1>2, DigitsAre
  <2> QED
    BY <2>1, OneDigit
<1>3. CASE n >= 10
  <2>1. n \div 10 \in Nat /\ n \div 10 < n
    BY <1>3, DigitTakenOff
  <2>2. Shows(uintToString[n \div 10], n \div 10)
    BY <1>1, <2>1
  <2>3. uintToString[n] = Append(uintToString[n \div 10], n % 10)
    <3>1. ~(n < 10)
      BY <1>3
    <3> QED
      BY <3>1, DigitsAre
  <2> QED
    BY <1>3, <2>2, <2>3, MoreDigits
<1> QED
  BY <1>2, <1>3

\* They are read as that number as long as it does not exceed max.
LEMMA DigitsAreDecoded ==
  ASSUME NEW n \in Nat, NEW s, Shows(s, n), NEW max \in Nat
  PROVE  decodeDigits(max, s) = IF n <= max THEN [double |-> FALSE, value |-> n]
                                            ELSE [double |-> TRUE, value |-> 0]
<1> DEFINE l == Len(s)
           threshold == max \div 10
           fits(i) == \/ Before(s, i) < threshold
                      \/ Before(s, i) = threshold /\ i = l /\ s[i] <= max % 10
<1>1. decodeDigits(max, s) = IF \A i \in 1 .. l : fits(i)
                             THEN [double |-> FALSE, value |-> Value[s]] ELSE [double |-> TRUE, value |-> 0]
  BY DEF decodeDigits
<1>2. /\ l \in Nat \ {0} /\ Value[s] = n /\ s[l] = n % 10 /\ Before(s, l) = n \div 10
      /\ l > 1 => n >= 10
      /\ \A i \in 1 .. l - 1 : Before(s, i) \in Nat /\ 10 * Before(s, i) <= n \div 10
  BY DEF Shows
<1>3. /\ n \div 10 \in Nat /\ n % 10 \in 0 .. 9 /\ n = 10 * (n \div 10) + (n % 10)
      /\ threshold \in Nat /\ max % 10 \in 0 .. 9 /\ max = 10 * threshold + (max % 10)
      /\ n >= 10 => n \div 10 >= 1
  BY DigitTakenOff
<1> DEFINE a == n \div 10
           b == n % 10
           c == max % 10
<1>4. fits(l) <=> n <= max
  <2>1. fits(l) <=> a < threshold \/ (a = threshold /\ b <= c)
    BY <1>2
  <2> HIDE DEF a, b, c, threshold, fits
  <2>2. a \in Nat /\ b \in 0 .. 9 /\ n = 10 * a + b /\ threshold \in Nat /\ c \in 0 .. 9 /\ max = 10 * threshold + c
    BY <1>3 DEF a, b, c
  <2> QED
    BY <2>1, <2>2
<1>5. ASSUME n <= max, NEW i \in 1 .. l - 1 PROVE fits(i)
  <2>1. Before(s, i) \in Nat /\ 10 * Before(s, i) <= a /\ a >= 1
    BY <1>2, <1>3, <1>5
  <2>2. a <= threshold
    <3> HIDE DEF a, threshold
    <3> QED
      BY <1>3, <1>5 DEF a
  <2>3. Before(s, i) < threshold
    <3> HIDE DEF a, threshold
    <3> QED
      BY <1>3, <2>1, <2>2 DEF a
  <2> QED
    BY <2>3
<1> HIDE DEF fits
<1>6. (\A i \in 1 .. l : fits(i)) <=> n <= max
  BY <1>2, <1>4, <1>5
<1> QED
  BY <1>1, <1>2, <1>6

-----------------------------------------------------------------------------
(* The powers of two.                                                      *)

DoubleOf(v, n) == 2 * v

LEMMA Twos == Two[0] = 1 /\ \A n \in Nat : Two[n + 1] = 2 * Two[n]
<1>1. NatInductiveDefHypothesis(Two, 1, DoubleOf)
  BY DEF NatInductiveDefHypothesis, Two, DoubleOf
<1>2. NatInductiveDefConclusion(Two, 1, DoubleOf)
  BY <1>1, NatInductiveDef
<1>3. Two = [n \in Nat |-> IF n = 0 THEN 1 ELSE 2 * Two[n - 1]]
  BY <1>2 DEF NatInductiveDefConclusion, DoubleOf
<1> QED
  BY <1>3

LEMMA TwoIsPositive == \A n \in Nat : Two[n] \in Nat \ {0}
<1> DEFINE S == {n \in Nat : Two[n] \in Nat \ {0}}
<1>1. 0 \in S /\ \A n \in Nat : n \in S => n + 1 \in S
  BY Twos
<1>2. \A n \in Nat : n \in S
  <2> HIDE DEF S
  <2> QED
    BY <1>1, Induction
<1> QED
  BY <1>2

\* Two[m + n] is a multiple of Two[m], so Two never falls.
LEMMA TwosMultiply == \A m, n \in Nat : Two[m + n] = Two[m] * Two[n]
<1> TAKE m \in Nat
<1> DEFINE S == {n \in Nat : Two[m + n] = Two[m] * Two[n]}
<1>1. 0 \in S
  BY Twos, TwoIsPositive
<1>2. ASSUME NEW n \in Nat, n \in S PROVE n + 1 \in S
  <2>1. Two[m + (n + 1)] = 2 * Two[m + n] /\ Two[n + 1] = 2 * Two[n]
    <3>1. m + n \in Nat /\ m + (n + 1) = (m + n) + 1
      OBVIOUS
    <3> QED
      BY <3>1, Twos
  <2>2. ASSUME NEW a \in Nat, NEW b \in Nat PROVE 2 * (a * b) = a * (2 * b)
    OBVIOUS
  <2>3. 2 * (Two[m] * Two[n]) = Two[m] * (2 * Two[n])
    BY <2>2, TwoIsPositive
  <2> QED
    BY <1>2, <2>1, <2>3
<1>3. \A n \in Nat : n \in S
  <2> HIDE DEF S
  <2> QED
    BY <1>1, <1>2, Induction
<1> QED
  BY <1>3

LEMMA TwoGrows ==
  ASSUME NEW m \in Nat, NEW n \in Nat, m <= n
  PROVE  Two[m] <= Two[n]
<1> DEFINE k == n - m
<1>1. k \in Nat /\ m + k = n
  OBVIOUS
<1> HIDE DEF k
<1>2. Two[n] = Two[m] * Two[k] /\ Two[m] \in Nat \ {0} /\ Two[k] \in Nat \ {0}
  BY <1>1, TwosMultiply, TwoIsPositive
<1>3. ASSUME NEW a \in Nat \ {0}, NEW b \in Nat \ {0} PROVE a <= a * b
  <2>1. a * 1 <= a * b
    OBVIOUS
  <2> QED
    BY <2>1
<1> QED
  BY <1>2, <1>3

\* The limits of the types: those of the narrow ones, of p and 2p values, and
\* those of the wide ones, of r and 2r values.
Limits(p, r) ==
  /\ p \in Nat \ {0} /\ r \in Nat \ {0} /\ 2 * p <= r
  /\ MinInt(Narrow) = -p /\ MaxInt(Narrow) = p - 1 /\ MaxUInt(Narrow) = 2 * p - 1
  /\ MinInt(Wide) = -r /\ MaxInt(Wide) = r - 1 /\ MaxUInt(Wide) = 2 * r - 1
  /\ Two[Wide - 1] = r /\ Two[Narrow - 1] = p /\ Two[Wide] = 2 * r /\ Two[Narrow] = 2 * p

LEMMA TheLimits == Limits(Two[Narrow - 1], Two[Wide - 1])
<1> DEFINE p == Two[Narrow - 1]
           r == Two[Wide - 1]
<1>1. /\ Narrow \in Nat /\ Wide \in Nat /\ Narrow - 1 \in Nat /\ Wide - 1 \in Nat
      /\ Narrow = (Narrow - 1) + 1 /\ Wide = (Wide - 1) + 1 /\ Narrow <= Wide - 1
  BY WidthAssumption
<1>2. Two[Narrow] = 2 * p /\ Two[Wide] = 2 * r /\ p \in Nat \ {0} /\ r \in Nat \ {0}
  BY <1>1, Twos, TwoIsPositive
<1>3. 2 * p <= r
  BY <1>1, <1>2, TwoGrows
<1> QED
  BY <1>2, <1>3 DEF Limits, MinInt, MaxInt, MaxUInt

-----------------------------------------------------------------------------
(* Integers read back.                                                     *)

\* A cast leaves a number of the type as it is.
LEMMA CastKeeps ==
  ASSUME NEW min \in Int, NEW max \in Int, NEW n \in min .. max
  PROVE  Cast(n, min, max) = n
<1> DEFINE m == max - min + 1
           x == n - min
<1>1. m \in Nat \ {0} /\ x \in Nat /\ x < m /\ x + min = n
  OBVIOUS
<1> HIDE DEF m, x
<1>2. x % m = x
  BY <1>1
<1>3. (x % m) + min = n
  BY <1>1, <1>2
<1> QED
  BY <1>3 DEF Cast, m, x

\* An integer is converted to the type from min to max where it fits, and is
\* refused otherwise.
LEMMA IntegerConverts ==
  ASSUME NEW v, v.type \in {"int", "uint"}, NEW min \in Int, NEW max \in Int, v.n \in Int
  PROVE  Convert(v, v.n \in min .. max, min, max) = IF v.n \in min .. max THEN {v.n} ELSE Throws
<1>1. CASE v.n \in min .. max
  BY <1>1, CastKeeps DEF Convert
<1>2. CASE ~(v.n \in min .. max)
  BY <1>2 DEF Convert
<1> QED
  BY <1>1, <1>2

\* A cast adds or takes away one turn of the type.
LEMMA CastTurns ==
  ASSUME NEW min \in Int, NEW max \in Int, NEW n \in Int, min <= max
  PROVE  /\ n > max /\ n - (max - min + 1) <= max => Cast(n, min, max) = n - (max - min + 1)
         /\ n < min /\ n + (max - min + 1) >= min => Cast(n, min, max) = n + (max - min + 1)
<1> DEFINE m == max - min + 1
           x == n - min
<1>1. m \in Nat \ {0} /\ x \in Int
  OBVIOUS
<1>2. ASSUME NEW y \in Int, NEW l \in Nat \ {0}, y >= l, y < 2 * l PROVE y % l = y - l
  BY <1>2
<1>3. ASSUME NEW y \in Int, NEW l \in Nat \ {0}, y < 0, y + l >= 0 PROVE y % l = y + l
  BY <1>3
<1>4. n > max /\ n - m <= max => x >= m /\ x < 2 * m
  OBVIOUS
<1>5. n < min /\ n + m >= min => x < 0 /\ x + m >= 0
  OBVIOUS
<1>6. /\ x >= m /\ x < 2 * m => x % m = x - m
      /\ x < 0 /\ x + m >= 0 => x % m = x + m
  <2> HIDE DEF x, m
  <2> QED
    BY <1>1, <1>2, <1>3
<1>7. (x % m) + min = Cast(n, min, max)
  BY DEF Cast
<1> QED
  BY <1>4, <1>5, <1>6, <1>7

\* The limit of the digits of a negative number, and a number that meets it.
LEMMA NegatedIs ==
  ASSUME NEW p, NEW r, Limits(p, r)
  PROVE  /\ Cast(Negated(MinInt(Wide)), 0, MaxUInt(Wide)) = r
         /\ \A a \in 0 .. r : Negated(Cast(a, MinInt(Wide), MaxInt(Wide))) = -a
<1>1. r \in Nat \ {0} /\ MinInt(Wide) = -r /\ MaxInt(Wide) = r - 1 /\ MaxUInt(Wide) = 2 * r - 1
  BY DEF Limits
<1> DEFINE S(n) == Cast(n, -r, r - 1)
<1>2. S(r) = -r
  <2>1. (r - 1) - (-r) + 1 = 2 * r /\ r > r - 1 /\ r - 2 * r <= r - 1 /\ r - 2 * r = -r
        /\ -r <= r - 1 /\ r \in Int /\ -r \in Int /\ r - 1 \in Int
    BY <1>1
  <2> QED
    BY <2>1, CastTurns
<1>3. ASSUME NEW n \in -r .. r - 1 PROVE S(n) = n
  BY <1>1, <1>3, CastKeeps
<1>4. Cast(-r, 0, 2 * r - 1) = r
  <2>1. (2 * r - 1) - 0 + 1 = 2 * r /\ -r < 0 /\ -r + 2 * r >= 0 /\ -r + 2 * r = r
        /\ 0 <= 2 * r - 1 /\ -r \in Int /\ 2 * r - 1 \in Int /\ 0 \in Int
    BY <1>1
  <2> QED
    BY <2>1, CastTurns
<1>5. \A n : Negated(n) = S(-n)
  BY <1>1 DEF Negated
<1> HIDE DEF S
<1>6. Negated(-r) = -r /\ S(-r) = -r
  <2>1. -(-r) = r /\ -r \in -r .. r - 1
    BY <1>1
  <2> QED
    BY <1>2, <1>3, <1>5, <2>1
<1>7. ASSUME NEW a \in 0 .. r PROVE Negated(S(a)) = -a
  <2>1. CASE a = r
    BY <1>2, <1>6, <2>1
  <2>2. CASE a # r
    <3>1. a \in -r .. r - 1 /\ -a \in -r .. r - 1
      BY <1>1, <2>2
    <3> QED
      BY <1>3, <1>5, <3>1
  <2> QED
    BY <2>1, <2>2
<1> QED
  BY <1>1, <1>4, <1>6, <1>7 DEF S

\* What decodeNumber makes of the digits of n.
LEMMA Decoded ==
  ASSUME NEW n \in Int
  PROVE  LET v == decodeNumber(valueToString(n))
         IN  IF n \in MinInt(Wide) .. MaxUInt(Wide)
             THEN v = [type |-> IF n <= MaxInt(Narrow) THEN "int" ELSE "uint", n |-> n]
             ELSE v = [type |-> "real", n |-> Double(2 * n)]
<1> DEFINE a == IF n < 0 THEN -n ELSE n
           text == valueToString(n)
           max == IF n < 0 THEN Two[Wide - 1] ELSE MaxUInt(Wide)
           d == decodeDigits(max, text.digits)
<1>1. a \in Nat /\ (n < 0 => -a = n) /\ (~(n < 0) => a = n)
  OBVIOUS
<1>2. text.neg = (n < 0) /\ text.digits = uintToString[a]
  BY DEF valueToString
<1>3. PICK p, r : Limits(p, r)
  BY TheLimits
<1>4. max \in Nat
  BY <1>3 DEF Limits
<1>5. Shows(text.digits, a)
  BY <1>1, <1>2, DigitsShow
<1>6. Value[text.digits] = a
  BY <1>5 DEF Shows
<1>7. d = IF a <= max THEN [double |-> FALSE, value |-> a] ELSE [double |-> TRUE, value |-> 0]
  BY <1>1, <1>4, <1>5, DigitsAreDecoded
<1>8. decodeNumber(text) =
        IF d.double THEN [type |-> "real", n |-> Double(2 * n)]
        ELSE [type |-> IF n < 0 \/ d.value <= MaxInt(Narrow) THEN "int" ELSE "uint",
              n |-> IF n < 0 THEN -d.value ELSE d.value]
  <2>1. n < 0 => Cast(Negated(MinInt(Wide)), 0, MaxUInt(Wide)) = max
    BY <1>3, NegatedIs DEF Limits
  <2>2. n < 0 /\ ~d.double => Negated(Cast(d.value, MinInt(Wide), MaxInt(Wide))) = -d.value
    <3>1. n < 0 /\ ~d.double => d.value \in 0 .. r
      BY <1>1, <1>3, <1>7 DEF Limits
    <3> QED
      BY <1>3, <3>1, NegatedIs
  <2> HIDE DEF text, a
  <2>3. CASE n < 0
    BY <1>1, <1>2, <1>6, <2>1, <2>2, <2>3 DEF decodeNumber
  <2>4. CASE ~(n < 0)
    BY <1>1, <1>2, <1>6, <2>4 DEF decodeNumber
  <2> QED
    BY <2>3, <2>4
<1>9. (a <= max) <=> n \in MinInt(Wide) .. MaxUInt(Wide)
  BY <1>3 DEF Limits
<1>10. n < 0 => n <= MaxInt(Narrow)
  BY <1>3 DEF Limits
<1> HIDE DEF text, max, a, d
<1>11. CASE a <= max
  <2>1. d.double = FALSE /\ d.value = a
    BY <1>7, <1>11
  <2>2. decodeNumber(text) = [type |-> IF n <= MaxInt(Narrow) THEN "int" ELSE "uint", n |-> n]
    BY <1>1, <1>8, <1>10, <2>1
  <2> QED
    BY <1>9, <1>11, <2>2 DEF text
<1>12. CASE ~(a <= max)
  <2>1. d.double = TRUE
    BY <1>7, <1>12
  <2> QED
    BY <1>8, <1>9, <1>12, <2>1 DEF text
<1> QED
  BY <1>11, <1>12

\* The four conversions of an integer of either wide type: each gives it where it
\* fits, and isInt and its like say so.
LEMMA IntegersConvert ==
  ASSUME NEW v, \/ v.type = "int" /\ v.n \in MinInt(Wide) .. MaxInt(Wide)
                \/ v.type = "uint" /\ v.n \in 0 .. MaxUInt(Wide)
  PROVE  LET n == v.n
             int == n \in MinInt(Narrow) .. MaxInt(Narrow)
             uint == n \in 0 .. MaxUInt(Narrow)
             int64 == n \in MinInt(Wide) .. MaxInt(Wide)
             uint64 == n \in 0 .. MaxUInt(Wide)
         IN  /\ Or(asInt(v), n, int) /\ (isInt(v) <=> int)
             /\ Or(asUInt(v), n, uint) /\ (isUInt(v) <=> uint)
             /\ Or(asInt64(v), n, int64) /\ (isInt64(v) <=> int64)
             /\ Or(asUInt64(v), n, uint64) /\ (isUInt64(v) <=> uint64)
<1>1. PICK p, r : Limits(p, r)
  BY TheLimits
<1> DEFINE n == v.n
<1>2. /\ MinInt(Narrow) \in Int /\ MaxInt(Narrow) \in Int /\ MaxUInt(Narrow) \in Int
      /\ MinInt(Wide) \in Int /\ MaxInt(Wide) \in Int /\ MaxUInt(Wide) \in Int
      /\ 0 <= MaxInt(Narrow) /\ MaxInt(Narrow) <= MaxInt(Wide) /\ MaxInt(Wide) <= MaxUInt(Wide)
      /\ MinInt(Narrow) <= 0 /\ MinInt(Wide) <= 0
  BY <1>1 DEF Limits
<1>3. v.type \in {"int", "uint"} /\ n \in Int
  BY <1>2
<1>4. /\ v.type = "int" => n \in MinInt(Wide) .. MaxInt(Wide)
      /\ v.type = "uint" => n \in 0 .. MaxUInt(Wide)
  OBVIOUS
<1> DEFINE int   == n \in MinInt(Narrow) .. MaxInt(Narrow)
           uint  == n \in 0 .. MaxUInt(Narrow)
           int64 == n \in MinInt(Wide) .. MaxInt(Wide)
           uint64 == n \in 0 .. MaxUInt(Wide)
<1>5. isInt(v) <=> int
  <2>1. v.type = "int" => (isInt(v) <=> n \in MinInt(Narrow) .. MaxInt(Narrow))
    BY DEF isInt
  <2>2. v.type = "uint" => (isInt(v) <=> n <= MaxInt(Narrow))
    BY DEF isInt
  <2> HIDE DEF n
  <2> QED
    BY <1>2, <1>3, <1>4, <2>1, <2>2
<1>6. isUInt(v) <=> uint
  <2>1. v.type = "int" => (isUInt(v) <=> n >= 0 /\ n <= MaxUInt(Narrow))
    BY DEF isUInt
  <2>2. v.type = "uint" => (isUInt(v) <=> n <= MaxUInt(Narrow))
    BY DEF isUInt
  <2> HIDE DEF n
  <2> QED
    BY <1>2, <1>3, <1>4, <2>1, <2>2
<1>7. (isInt64(v) <=> int64) /\ (v.type = "int" \/ isInt64(v) <=> int64)
  <2>1. v.type = "int" => isInt64(v)
    BY DEF isInt64
  <2>2. v.type = "uint" => (isInt64(v) <=> n <= MaxInt(Wide))
    BY DEF isInt64
  <2> HIDE DEF n
  <2>3. CASE v.type = "int"
    BY <1>2, <1>3, <1>4, <2>1, <2>3
  <2>4. CASE v.type = "uint"
    BY <1>2, <1>3, <1>4, <2>2, <2>4
  <2> QED
    BY <1>3, <2>3, <2>4
<1>8. (isUInt64(v) <=> uint64) /\ (v.type = "uint" \/ isUInt64(v) <=> uint64)
  <2>1. v.type = "int" => (isUInt64(v) <=> n >= 0)
    BY DEF isUInt64
  <2>2. v.type = "uint" => isUInt64(v)
    BY DEF isUInt64
  <2> HIDE DEF n
  <2>3. CASE v.type = "int"
    BY <1>2, <1>3, <1>4, <2>1, <2>3
  <2>4. CASE v.type = "uint"
    BY <1>2, <1>3, <1>4, <2>2, <2>4
  <2> QED
    BY <1>3, <2>3, <2>4
<1> HIDE DEF int, uint, int64, uint64
<1>9. asInt(v) = Convert(v, int, MinInt(Narrow), MaxInt(Narrow))
  BY <1>5 DEF asInt, Convert
<1>10. asUInt(v) = Convert(v, uint, 0, MaxUInt(Narrow))
  BY <1>6 DEF asUInt, Convert
<1>11. asInt64(v) = Convert(v, int64, MinInt(Wide), MaxInt(Wide))
  BY <1>7 DEF asInt64, Convert
<1>12. asUInt64(v) = Convert(v, uint64, 0, MaxUInt(Wide))
  BY <1>8 DEF asUInt64, Convert
<1> DEFINE Converts(min, max) == Convert(v, n \in min .. max, min, max) = IF n \in min .. max THEN {n} ELSE Throws
<1>13. \A min, max \in Int : Converts(min, max)
  BY <1>3, IntegerConverts
<1>14. asInt(v) = IF int THEN {n} ELSE Throws
  BY <1>2, <1>3, <1>9, <1>13 DEF int
<1>15. asUInt(v) = IF uint THEN {n} ELSE Throws
  BY <1>2, <1>3, <1>10, <1>13 DEF uint
<1>16. asInt64(v) = IF int64 THEN {n} ELSE Throws
  BY <1>2, <1>3, <1>11, <1>13 DEF int64
<1>17. asUInt64(v) = IF uint64 THEN {n} ELSE Throws
  BY <1>2, <1>3, <1>12, <1>13 DEF uint64
<1> QED
  BY <1>5, <1>6, <1>7, <1>8, <1>14, <1>15, <1>16, <1>17 DEF Or, int, uint, int64, uint64

-----------------------------------------------------------------------------
(* What becomes of a double.                                               *)

LEMMA FractionIsDropped ==
  ASSUME NEW x \in Int
  PROVE  /\ Truncated(x) \in Int /\ x - 1 <= 2 * Truncated(x) /\ 2 * Truncated(x) <= x + 1
         /\ x >= 0 => Truncated(x) >= 0 /\ 2 * Truncated(x) <= x
         /\ x <= 0 => Truncated(x) <= 0 /\ x <= 2 * Truncated(x)
         /\ IsIntegral(x) => x = 2 * Truncated(x)
<1>1. CASE x >= 0
  <2> DEFINE h == x \div 2
  <2>1. h \in Nat /\ x = 2 * h + (x % 2) /\ x % 2 \in 0 .. 1 /\ Truncated(x) = h
    BY <1>1 DEF Truncated
  <2> HIDE DEF h
  <2> QED
    BY <1>1, <2>1 DEF IsIntegral
<1>2. CASE x < 0
  <2> DEFINE y == -x
             h == y \div 2
  <2>1. y \in Nat /\ x = -y
    BY <1>2
  <2>2. Truncated(x) = -h
    BY <1>2 DEF Truncated
  <2> HIDE DEF y
  <2>3. h \in Nat /\ y = 2 * h + (y % 2) /\ y % 2 \in 0 .. 1
    BY <2>1
  <2>4. x % 2 = 0 => y % 2 = 0
    BY <2>1
  <2> HIDE DEF h
  <2> QED
    BY <1>2, <2>1, <2>2, <2>3, <2>4 DEF IsIntegral
<1> QED
  BY <1>1, <1>2

\* Rounding keeps a multiple, and does not pass one.
LEMMA MultipleStays ==
  ASSUME NEW s \in Nat \ {0}, NEW q \in Nat
  PROVE  RoundTo(s * q, s) = s * q
<1> DEFINE x == s * q
<1>1. x \in Nat /\ x \div s = q /\ x % s = 0
  BY OneQuotient
<1> HIDE DEF x
<1>2. RoundTo(x, s) = s * q
  <2>1. 2 * (x % s) = 0 /\ ~(0 > s) /\ ~(0 = s)
    BY <1>1
  <2> QED
    BY <1>1, <2>1 DEF RoundTo
<1> QED
  BY <1>2 DEF x

LEMMA RoundedBetween ==
  ASSUME NEW s \in Nat \ {0}, NEW u \in Nat, NEW t \in Nat, NEW x \in Nat,
         s * u <= x, x < s * t
  PROVE  RoundTo(x, s) \in Nat /\ s * u <= RoundTo(x, s) /\ RoundTo(x, s) <= s * t
<1> DEFINE q == x \div s
           r == x % s
<1>1. q \in Nat /\ r \in 0 .. s - 1 /\ x = s * q + r
  OBVIOUS
<1>2. RoundTo(x, s) = s * q \/ RoundTo(x, s) = s * (q + 1)
  BY <1>1 DEF RoundTo
<1> HIDE DEF q, r
<1>3. u <= q
  <2>1. ASSUME q + 1 <= u PROVE FALSE
    <3>1. s * (q + 1) <= s * u
      BY <1>1, <2>1
    <3>2. s * (q + 1) = s * q + s
      BY <1>1
    <3> QED
      BY <1>1, <3>1, <3>2
  <2> QED
    BY <1>1, <2>1
<1>4. q + 1 <= t
  <2>1. ASSUME t <= q PROVE FALSE
    <3>1. s * t <= s * q
      BY <1>1, <2>1
    <3> QED
      BY <1>1, <3>1
  <2> QED
    BY <1>1, <2>1
<1>5. s * u <= s * q /\ s * (q + 1) <= s * t /\ s * (q + 1) = s * q + s /\ s * q \in Nat /\ s * t \in Nat
  BY <1>1, <1>3, <1>4
<1> QED
  BY <1>2, <1>5

\* The step from one double to the next, at a.
StepAt(a, k) ==
  /\ k \in 0 .. 2 * Wide
  /\ \A j \in 0 .. k - 1 : a >= Two[Mantissa + j]
  /\ a < Two[Mantissa + k]

LEMMA DoubleIsRounded ==
  ASSUME NEW a \in Nat, a < Two[Mantissa + 2 * Wide]
  PROVE  \E k : /\ StepAt(a, k) /\ Double(a) = RoundTo(a, Two[k])
                /\ a > 0 => Double(-a) = -RoundTo(a, Two[k])
<1> DEFINE T == {k \in Nat : a < Two[Mantissa + k]}
           chosen == CHOOSE k \in 0 .. 2 * Wide : /\ \A j \in 0 .. k - 1 : a >= Two[Mantissa + j]
                                                  /\ a < Two[Mantissa + k]
<1>1. Wide \in Nat /\ Mantissa \in Nat /\ 2 * Wide \in T
  BY WidthAssumption
<1>2. PICK k \in T : \A j \in T : ~(j < k)
  <2>1. T \subseteq Nat
    OBVIOUS
  <2> HIDE DEF T
  <2> QED
    BY <1>1, <2>1, LeastNatural
<1>3. k \in 0 .. 2 * Wide
  BY <1>1, <1>2
<1>4. ASSUME NEW j \in 0 .. k - 1 PROVE a >= Two[Mantissa + j]
  <2>1. j \in Nat /\ j < k /\ Mantissa + j \in Nat
    BY <1>1, <1>3
  <2>2. Two[Mantissa + j] \in Nat
    BY <2>1, TwoIsPositive
  <2>3. ~(a < Two[Mantissa + j])
    BY <1>2, <2>1
  <2> QED
    BY <2>2, <2>3
<1>5. StepAt(a, chosen)
  BY <1>2, <1>3, <1>4 DEF StepAt
<1>6. Double(a) = RoundTo(a, Two[chosen])
  <2>1. ~(a < 0)
    OBVIOUS
  <2> QED
    BY <2>1 DEF Double
<1>7. ASSUME a > 0 PROVE Double(-a) = -RoundTo(a, Two[chosen])
  <2>1. -a < 0 /\ -(-a) = a
    BY <1>7
  <2> QED
    BY <2>1 DEF Double
<1> QED
  BY <1>5, <1>6, <1>7

\* Powers of two are in the order of their exponents.
LEMMA ExponentsInOrder ==
  ASSUME NEW m \in Nat, NEW n \in Nat, Two[m] < Two[n]
  PROVE  m < n
<1>1. n <= m => Two[n] <= Two[m]
  BY TwoGrows
<1> QED
  BY <1>1, TwoIsPositive

\* A double keeps the small numbers, of the next ones the even, and all powers
\* of two, and it does not round past one.
LEMMA DoubleKeeps ==
  ASSUME NEW a \in Nat, a < 2 * Two[Mantissa], a % 2 = 0
  PROVE  Double(a) = a /\ (a > 0 => Double(-a) = -a)
<1>1. /\ Mantissa \in Nat /\ Wide \in Nat /\ 1 <= 2 * Wide
      /\ Mantissa + 1 \in Nat /\ Mantissa + 2 * Wide \in Nat /\ Mantissa + 1 <= Mantissa + 2 * Wide
  BY WidthAssumption
<1>2. /\ Two[Mantissa + 1] = 2 * Two[Mantissa] /\ Two[0] = 1 /\ Two[1] = 2
      /\ Two[Mantissa + 1] <= Two[Mantissa + 2 * Wide]
      /\ Two[Mantissa + 2 * Wide] \in Nat /\ Two[Mantissa + 1] \in Nat
  <2>1. Two[0 + 1] = 2 * Two[0] /\ 0 + 1 = 1
    BY Twos
  <2> QED
    BY <1>1, <2>1, Twos, TwoGrows, TwoIsPositive
<1>3. PICK k : /\ StepAt(a, k) /\ Double(a) = RoundTo(a, Two[k])
               /\ a > 0 => Double(-a) = -RoundTo(a, Two[k])
  <2>1. a < Two[Mantissa + 2 * Wide]
    BY <1>2
  <2> QED
    BY <2>1, DoubleIsRounded
<1>4. k = 0 \/ k = 1
  <2>1. k \in Nat
    BY <1>1, <1>3 DEF StepAt
  <2>2. ASSUME k >= 2 PROVE FALSE
    <3>1. 1 \in 0 .. k - 1
      BY <2>1, <2>2
    <3>2. a >= Two[Mantissa + 1]
      BY <1>3, <3>1 DEF StepAt
    <3> QED
      BY <1>2, <3>2
  <2> QED
    BY <2>1, <2>2
<1>5. RoundTo(a, Two[k]) = a
  <2>1. RoundTo(1 * a, 1) = 1 * a
    BY MultipleStays
  <2>2. RoundTo(2 * (a \div 2), 2) = 2 * (a \div 2) /\ 2 * (a \div 2) = a
    BY MultipleStays
  <2> QED
    BY <1>2, <1>4, <2>1, <2>2
<1> QED
  BY <1>3, <1>5

LEMMA DoubleOfLarge ==
  ASSUME NEW w \in Nat, w < Mantissa + 2 * Wide, NEW a \in Nat, Two[w] <= a, a < Two[w + 1]
  PROVE  /\ Double(a) \in Nat /\ Two[w] <= Double(a) /\ Double(a) <= Two[w + 1]
         /\ a = Two[w] => Double(-a) = -a
<1>1. /\ Mantissa \in Nat /\ Mantissa >= 1 /\ Wide \in Nat
      /\ w + 1 \in Nat /\ Mantissa + 2 * Wide \in Nat /\ w + 1 <= Mantissa + 2 * Wide
  BY WidthAssumption
<1>2. /\ Two[w + 1] <= Two[Mantissa + 2 * Wide] /\ Two[w] \in Nat \ {0}
      /\ Two[w + 1] \in Nat /\ Two[Mantissa + 2 * Wide] \in Nat /\ Two[0] = 1
  BY <1>1, TwoGrows, TwoIsPositive, Twos
<1>3. PICK k : /\ StepAt(a, k) /\ Double(a) = RoundTo(a, Two[k])
               /\ a > 0 => Double(-a) = -RoundTo(a, Two[k])
  <2>1. a < Two[Mantissa + 2 * Wide]
    BY <1>2
  <2> QED
    BY <2>1, DoubleIsRounded
<1>4. k \in Nat /\ a > 0
  BY <1>1, <1>2, <1>3 DEF StepAt
<1>5. CASE k = 0
  <2>1. RoundTo(1 * a, 1) = 1 * a
    BY MultipleStays
  <2> QED
    BY <1>2, <1>3, <1>4, <1>5, <2>1
<1>6. CASE k >= 1
  <2>1. k <= w
    <3>1. k - 1 \in 0 .. k - 1 /\ Mantissa + (k - 1) \in Nat
      BY <1>1, <1>4, <1>6
    <3>2. Two[Mantissa + (k - 1)] <= a
      BY <1>3, <3>1 DEF StepAt
    <3>3. Two[Mantissa + (k - 1)] < Two[w + 1] 
      BY <1>2, <3>1, <3>2, TwoIsPositive
    <3>4. Mantissa + (k - 1) < w + 1
      BY <1>1, <3>1, <3>3, ExponentsInOrder
    <3> QED
      BY <1>1, <1>4, <3>4
  <2> DEFINE s == Two[k]
             u == Two[w - k]
             t == Two[(w + 1) - k]
  <2>2. Two[w] = s * u /\ Two[w + 1] = s * t /\ s \in Nat \ {0} /\ u \in Nat /\ t \in Nat
    <3>1. w - k \in Nat /\ (w + 1) - k \in Nat /\ k + (w - k) = w /\ k + ((w + 1) - k) = w + 1
      BY <1>4, <2>1
    <3>2. \A j \in Nat : Two[k + j] = s * Two[j]
      BY <1>4, TwosMultiply
    <3>3. Two[k + (w - k)] = s * u /\ Two[k + ((w + 1) - k)] = s * t
      BY <3>1, <3>2
    <3>4. s \in Nat \ {0} /\ u \in Nat /\ t \in Nat
      BY <1>4, <3>1, TwoIsPositive
    <3> QED
      BY <3>1, <3>3, <3>4
  <2>3. Double(a) = RoundTo(a, s) /\ Double(-a) = -RoundTo(a, s)
    BY <1>3, <1>4
  <2> HIDE DEF s, u, t
  <2>4. RoundTo(a, s) \in Nat /\ s * u <= RoundTo(a, s) /\ RoundTo(a, s) <= s * t
    BY <2>2, RoundedBetween
  <2>5. a = Two[w] => RoundTo(a, s) = a
    BY <2>2, MultipleStays
  <2> QED
    BY <2>2, <2>3, <2>4, <2>5
<1> QED
  BY <1>4, <1>5, <1>6

\* The limits as doubles: those of the narrow types exactly, and d and e for the
\* largest of the wide ones, which may be rounded up.
DoubleLimits(p, r, d, e) ==
  /\ Limits(p, r)
  /\ Double(2 * MinInt(Narrow)) = -(2 * p) /\ Double(2 * MaxInt(Narrow)) = 2 * p - 2
  /\ Double(2 * 0) = 0 /\ Double(2 * MaxUInt(Narrow)) = 4 * p - 2
  /\ Double(2 * MinInt(Wide)) = -(2 * r)
  /\ d = Double(2 * MaxInt(Wide)) /\ d \in r .. 2 * r
  /\ e = Double(2 * MaxUInt(Wide)) /\ e \in 2 * r .. 4 * r

LEMMA TheDoubleLimits == \E p, r, d, e : DoubleLimits(p, r, d, e)
<1> DEFINE p == Two[Narrow - 1]
           r == Two[Wide - 1]
           d == Double(2 * MaxInt(Wide))
           e == Double(2 * MaxUInt(Wide))
<1>1. Limits(p, r)
  BY TheLimits
<1>2. /\ Wide \in Nat /\ Wide >= 1 /\ Mantissa \in Nat /\ Narrow \in Nat /\ Narrow <= Mantissa
      /\ Wide - 1 \in Nat /\ (Wide - 1) + 1 = Wide /\ Wide + 1 \in Nat
      /\ Wide - 1 < Mantissa + 2 * Wide /\ Wide < Mantissa + 2 * Wide
  BY WidthAssumption
<1>3. /\ p \in Nat \ {0} /\ r \in Nat \ {0} /\ 2 * p <= r
      /\ Two[Narrow] = 2 * p /\ Two[Wide] = 2 * r /\ Two[Wide + 1] = 4 * r /\ Two[Wide - 1] = r
  <2>1. Two[Wide + 1] = 2 * Two[Wide]
    BY <1>2, Twos
  <2> QED
    BY <1>1, <2>1 DEF Limits
<1>4. Two[Mantissa] \in Nat /\ 2 * p <= Two[Mantissa]
  BY <1>2, <1>3, TwoGrows, TwoIsPositive
<1>5. /\ 2 * MinInt(Narrow) = -(2 * p) /\ 2 * MaxInt(Narrow) = 2 * p - 2
      /\ 2 * MaxUInt(Narrow) = 4 * p - 2 /\ 2 * MinInt(Wide) = -(2 * r)
      /\ 2 * MaxInt(Wide) = 2 * r - 2 /\ 2 * MaxUInt(Wide) = 4 * r - 2
  BY <1>1 DEF Limits
<1> HIDE DEF p, r
<1>6. ASSUME NEW a \in Nat PROVE (2 * a) % 2 = 0
  OBVIOUS
<1>7. Double(2 * p) = 2 * p /\ Double(-(2 * p)) = -(2 * p)
  <2>1. 2 * p \in Nat /\ 2 * p < 2 * Two[Mantissa] /\ (2 * p) % 2 = 0 /\ 2 * p > 0
    BY <1>3, <1>4, <1>6
  <2> QED
    BY <2>1, DoubleKeeps
<1>8. Double(2 * p - 2) = 2 * p - 2
  <2>1. 2 * p - 2 \in Nat /\ 2 * p - 2 < 2 * Two[Mantissa]
    BY <1>3, <1>4
  <2>2. (2 * (p - 1)) % 2 = 0 /\ 2 * (p - 1) = 2 * p - 2
    BY <1>3, <1>6
  <2> QED
    BY <2>1, <2>2, DoubleKeeps
<1>9. Double(4 * p - 2) = 4 * p - 2
  <2>1. 4 * p - 2 \in Nat /\ 4 * p - 2 < 2 * Two[Mantissa]
    BY <1>3, <1>4
  <2>2. (2 * (2 * p - 1)) % 2 = 0 /\ 2 * (2 * p - 1) = 4 * p - 2
    BY <1>3, <1>6
  <2> QED
    BY <2>1, <2>2, DoubleKeeps
<1>10. Double(2 * 0) = 0
  <2>1. 0 \in Nat /\ 0 < 2 * Two[Mantissa] /\ 0 % 2 = 0 /\ 2 * 0 = 0
    BY <1>3, <1>4
  <2> QED
    BY <2>1, DoubleKeeps
<1>11. Double(-(2 * r)) = -(2 * r)
  <2>1. Two[Wide] <= 2 * r /\ 2 * r < Two[Wide + 1] /\ 2 * r \in Nat
    BY <1>3
  <2> QED
    BY <1>2, <1>3, <2>1, DoubleOfLarge
<1>12. r <= Double(2 * r - 2) /\ Double(2 * r - 2) <= 2 * r /\ Double(2 * r - 2) \in Nat
  <2>1. Two[Wide - 1] <= 2 * r - 2 /\ 2 * r - 2 < Two[Wide] /\ 2 * r - 2 \in Nat
    BY <1>3
  <2> QED
    BY <1>2, <1>3, <2>1, DoubleOfLarge
<1>13. 2 * r <= Double(4 * r - 2) /\ Double(4 * r - 2) <= 4 * r /\ Double(4 * r - 2) \in Nat
  <2>1. Two[Wide] <= 4 * r - 2 /\ 4 * r - 2 < Two[Wide + 1] /\ 4 * r - 2 \in Nat
    BY <1>3
  <2> QED
    BY <1>2, <1>3, <2>1, DoubleOfLarge
<1>14. d \in r .. 2 * r /\ e \in 2 * r .. 4 * r
  BY <1>3, <1>5, <1>12, <1>13
<1>15. DoubleLimits(p, r, d, e)
  BY <1>1, <1>5, <1>7, <1>8, <1>9, <1>10, <1>11, <1>14 DEF DoubleLimits
<1> QED
  BY <1>15

-----------------------------------------------------------------------------
(* The conversions of each type of Value.                                  *)

\* What is x's number is kept, and its fraction is dropped.
LEMMA RealCast ==
  ASSUME NEW x \in Int, NEW min \in Int, NEW max \in Int,
         2 * min <= x, x <= 2 * max + 1, min <= 0, max >= 0
  PROVE  Truncated(x) \in min .. max /\ CastReal(x, min, max) = {Truncated(x)}
<1>1. Truncated(x) \in min .. max
  BY FractionIsDropped
<1> QED
  BY <1>1 DEF CastReal

LEMMA RealConverts ==
  ASSUME NEW p, NEW r, NEW d, NEW e, DoubleLimits(p, r, d, e),
         NEW v, v.type = "real", v.n \in Int
  PROVE  LET x == v.n  t == Truncated(v.n)  even == IsIntegral(v.n)
         IN  /\ isInt(v) <=> -(2 * p) <= x /\ x <= 2 * p - 2 /\ even
             /\ isUInt(v) <=> 0 <= x /\ x <= 4 * p - 2 /\ even
             /\ isInt64(v) <=> -(2 * r) <= x /\ x < d /\ even
             /\ isUInt64(v) <=> 0 <= x /\ x < e /\ even
             /\ isIntegral(v) <=> -(2 * r) <= x /\ x < e /\ even
             /\ InRange(x, MinInt(Narrow), MaxInt(Narrow)) <=> -(2 * p) <= x /\ x <= 2 * p - 2
             /\ InRange(x, 0, MaxUInt(Narrow)) <=> 0 <= x /\ x <= 4 * p - 2
             /\ asInt(v) = IF -(2 * p) <= x /\ x <= 2 * p - 2 THEN {t} ELSE Throws
             /\ asUInt(v) = IF 0 <= x /\ x <= 4 * p - 2 THEN {t} ELSE Throws
             /\ x # d => asInt64(v) = IF -(2 * r) <= x /\ x < d THEN {t} ELSE Throws
             /\ x # e => asUInt64(v) = IF 0 <= x /\ x < e THEN {t} ELSE Throws
<1> DEFINE x == v.n
           t == Truncated(x)
<1>1. /\ p \in Nat \ {0} /\ r \in Nat \ {0} /\ d \in r .. 2 * r /\ e \in 2 * r .. 4 * r
      /\ MinInt(Narrow) = -p /\ MaxInt(Narrow) = p - 1 /\ MaxUInt(Narrow) = 2 * p - 1
      /\ MinInt(Wide) = -r /\ MaxInt(Wide) = r - 1 /\ MaxUInt(Wide) = 2 * r - 1
  BY DEF DoubleLimits, Limits
<1>2. /\ InRange(x, MinInt(Narrow), MaxInt(Narrow)) <=> -(2 * p) <= x /\ x <= 2 * p - 2
      /\ InRange(x, 0, MaxUInt(Narrow)) <=> 0 <= x /\ x <= 4 * p - 2
      /\ InRange(x, MinInt(Wide), MaxInt(Wide)) <=> -(2 * r) <= x /\ x <= d
      /\ InRange(x, 0, MaxUInt(Wide)) <=> 0 <= x /\ x <= e
  BY DEF DoubleLimits, InRange
<1>3. /\ isInt(v) <=> InRange(x, MinInt(Narrow), MaxInt(Narrow)) /\ IsIntegral(x)
      /\ isUInt(v) <=> InRange(x, 0, MaxUInt(Narrow)) /\ IsIntegral(x)
  BY DEF isInt, isUInt
<1>4. /\ isInt64(v) <=> -(2 * r) <= x /\ x < d /\ IsIntegral(x)
      /\ isUInt64(v) <=> 0 <= x /\ x < e /\ IsIntegral(x)
      /\ isIntegral(v) <=> -(2 * r) <= x /\ x < e /\ IsIntegral(x)
  BY DEF isInt64, isUInt64, isIntegral, DoubleLimits
<1> DEFINE Real(min, max) == IF InRange(x, min, max) THEN CastReal(x, min, max) ELSE Throws
<1>5. \A f, min, max : Convert(v, f, min, max) = Real(min, max)
  BY DEF Convert
<1>6. /\ asInt(v) = Real(MinInt(Narrow), MaxInt(Narrow)) /\ asUInt(v) = Real(0, MaxUInt(Narrow))
      /\ asInt64(v) = Real(MinInt(Wide), MaxInt(Wide)) /\ asUInt64(v) = Real(0, MaxUInt(Wide))
  BY <1>5 DEF asInt, asUInt, asInt64, asUInt64
<1> HIDE DEF x
<1>7. x \in Int
  BY DEF x
<1> DEFINE Casts(min, max) == CastReal(x, min, max) = {t}
<1>8. \A min, max \in Int : 2 * min <= x /\ x <= 2 * max + 1 /\ min <= 0 /\ max >= 0 => Casts(min, max)
  BY <1>7, RealCast
<1> HIDE DEF t, Casts
<1>9. -(2 * p) <= x /\ x <= 2 * p - 2 => Casts(MinInt(Narrow), MaxInt(Narrow))
  BY <1>1, <1>7, <1>8
<1>10. 0 <= x /\ x <= 4 * p - 2 => Casts(0, MaxUInt(Narrow))
  BY <1>1, <1>7, <1>8
<1>11. -(2 * r) <= x /\ x < d => Casts(MinInt(Wide), MaxInt(Wide))
  BY <1>1, <1>7, <1>8
<1>12. 0 <= x /\ x < e => Casts(0, MaxUInt(Wide))
  BY <1>1, <1>7, <1>8
<1>13. /\ asInt(v) = IF -(2 * p) <= x /\ x <= 2 * p - 2 THEN {t} ELSE Throws
       /\ asUInt(v) = IF 0 <= x /\ x <= 4 * p - 2 THEN {t} ELSE Throws
  BY <1>2, <1>6, <1>9, <1>10 DEF Casts
<1>14. /\ x # d => asInt64(v) = IF -(2 * r) <= x /\ x < d THEN {t} ELSE Throws
       /\ x # e => asUInt64(v) = IF 0 <= x /\ x < e THEN {t} ELSE Throws
  <2>1. (x # d => (x <= d <=> x < d)) /\ (x # e => (x <= e <=> x < e))
    BY <1>1, <1>7
  <2> QED
    BY <1>2, <1>6, <1>11, <1>12, <2>1 DEF Casts
<1> QED
  BY <1>2, <1>3, <1>4, <1>13, <1>14 DEF x, t

\* What ConvertsExactly says of one Value.
ExactValue(v) == IF v.type = "real" THEN Truncated(v.n) ELSE v.n

ExactOf(v) ==
  LET Holds(is, results) == is => results = {ExactValue(v)} /\ (v.type = "real" => v.n = 2 * ExactValue(v))
      Exactly(results) == results \in {Throws, {ExactValue(v)}}
  IN  /\ Holds(isInt(v), asInt(v)) /\ Holds(isUInt(v), asUInt(v))
      /\ Holds(isInt64(v), asInt64(v)) /\ Holds(isUInt64(v), asUInt64(v))
      /\ Exactly(asInt(v)) /\ Exactly(asUInt(v))
      /\ AtLimit(v) \/ (Exactly(asInt64(v)) /\ Exactly(asUInt64(v)))

TestsAgree(v) ==
  /\ isIntegral(v) <=> (isInt64(v) \/ isUInt64(v))
  /\ isInt(v) => isInt64(v)
  /\ isUInt(v) => isUInt64(v)

PromisesKept(v) ==
  /\ isConvertibleTo(v, "int") <=> asInt(v) # Throws
  /\ isConvertibleTo(v, "uint") <=> asUInt(v) # Throws
  /\ isConvertibleTo(v, "real") <=> asDouble(v) # Throws
  /\ isConvertibleTo(v, "boolean") <=> asBool(v) # Throws
  /\ isConvertibleTo(v, "string") <=> asString(v) # Throws
  /\ (isConvertibleTo(v, "null") /\ asBool(v) # Throws) => asBool(v) = {FALSE}

Right(v) == ExactOf(v) /\ TestsAgree(v) /\ PromisesKept(v)

\* A double of what is at least a power of two is at least that.
LEMMA DoubleAtLeast ==
  ASSUME NEW w \in Nat, NEW a \in Nat, Two[w] <= a, a < Two[Mantissa + 2 * Wide]
  PROVE  /\ Double(a) \in Nat /\ Two[w] <= Double(a)
         /\ Double(-a) \in Int /\ Double(-a) <= -Two[w]
<1>1. Mantissa \in Nat /\ Mantissa >= 1 /\ Wide \in Nat /\ Two[w] \in Nat \ {0}
  BY WidthAssumption, TwoIsPositive
<1>2. PICK k : /\ StepAt(a, k) /\ Double(a) = RoundTo(a, Two[k])
               /\ a > 0 => Double(-a) = -RoundTo(a, Two[k])
  BY DoubleIsRounded
<1>3. k \in Nat /\ a > 0
  BY <1>1, <1>2 DEF StepAt
<1> DEFINE s == Two[k]
           t == (a \div s) + 1
<1>4. s \in Nat \ {0}
  BY <1>3, TwoIsPositive
<1>5. t \in Nat /\ a < s * t
  <2> HIDE DEF s
  <2> DEFINE q == a \div s
  <2>1. q \in Nat /\ a = s * q + (a % s) /\ a % s \in 0 .. s - 1
    BY <1>4
  <2> HIDE DEF q
  <2>2. s * (q + 1) = s * q + s
    BY <1>4, <2>1
  <2>3. q + 1 \in Nat /\ a < s * (q + 1)
    BY <1>4, <2>1, <2>2
  <2> QED
    BY <2>3 DEF q
<1> HIDE DEF t
<1>6. \E u \in Nat : s * u <= a /\ Two[w] <= s * u
  <2>1. CASE k <= w
    <3>1. w - k \in Nat /\ k + (w - k) = w
      BY <1>3, <2>1
    <3>2. Two[k + (w - k)] = s * Two[w - k] /\ Two[w - k] \in Nat
      BY <1>3, <3>1, TwosMultiply, TwoIsPositive
    <3> QED
      BY <1>1, <3>1, <3>2
  <2>2. CASE k > w
    <3>1. /\ k - 1 \in 0 .. k - 1 /\ Mantissa - 1 \in Nat /\ k + (Mantissa - 1) = Mantissa + (k - 1)
          /\ k + (Mantissa - 1) \in Nat /\ w <= k + (Mantissa - 1)
      BY <1>1, <1>3, <2>2
    <3>2. Two[Mantissa + (k - 1)] <= a
      BY <1>2, <3>1 DEF StepAt
    <3>3. Two[k + (Mantissa - 1)] = s * Two[Mantissa - 1] /\ Two[Mantissa - 1] \in Nat
      BY <1>3, <3>1, TwosMultiply, TwoIsPositive
    <3>4. Two[w] <= Two[k + (Mantissa - 1)]
      BY <3>1, TwoGrows
    <3> QED
      BY <3>1, <3>2, <3>3, <3>4
  <2> QED
    BY <1>3, <2>1, <2>2
<1>7. RoundTo(a, s) \in Nat /\ Two[w] <= RoundTo(a, s)
  <2> HIDE DEF s
  <2>1. PICK u \in Nat : s * u <= a /\ Two[w] <= s * u
    BY <1>6
  <2>2. RoundTo(a, s) \in Nat /\ s * u <= RoundTo(a, s)
    BY <1>4, <1>5, <2>1, RoundedBetween
  <2> QED
    BY <1>1, <1>4, <2>1, <2>2
<1> QED
  BY <1>1, <1>2, <1>3, <1>7

\* An integer beyond the widest type, read as a double, is refused, unless the
\* double is that of the least Int64 or of the largest UInt64.
LEMMA BeyondIsRefused ==
  ASSUME NEW n \in Int, -Two[2 * Wide] < n, n < Two[2 * Wide],
         ~(n \in MinInt(Wide) .. MaxUInt(Wide)),
         NEW v, v.type = "real", v.n = Double(2 * n)
  PROVE  /\ asInt(v) = Throws /\ asUInt(v) = Throws
         /\ Or(asInt64(v), MinInt(Wide), v.n = Double(2 * MinInt(Wide)))
         /\ v.n # Double(2 * MaxUInt(Wide)) => asUInt64(v) = Throws
<1>1. PICK p, r, d, e : DoubleLimits(p, r, d, e)
  BY TheDoubleLimits
<1>2. /\ p \in Nat \ {0} /\ r \in Nat \ {0} /\ 2 * p <= r /\ d \in r .. 2 * r /\ e \in 2 * r .. 4 * r
      /\ MinInt(Wide) = -r /\ MaxUInt(Wide) = 2 * r - 1 /\ Two[Wide] = 2 * r
      /\ Double(2 * MinInt(Wide)) = -(2 * r) /\ e = Double(2 * MaxUInt(Wide))
  BY <1>1 DEF DoubleLimits, Limits
<1>3. /\ Wide \in Nat /\ Mantissa \in Nat /\ Mantissa >= 1 /\ Wide + 1 \in Nat
      /\ Two[Wide + 1] = 4 * r
  BY <1>2, WidthAssumption, Twos
<1>4. 2 * Two[2 * Wide] <= Two[Mantissa + 2 * Wide] /\ Two[2 * Wide] \in Nat
      /\ Two[Mantissa + 2 * Wide] \in Nat
  <2>1. 2 * Wide \in Nat /\ 2 * Wide + 1 \in Nat /\ Mantissa + 2 * Wide \in Nat
        /\ 2 * Wide + 1 <= Mantissa + 2 * Wide
    BY <1>3
  <2>2. Two[2 * Wide + 1] = 2 * Two[2 * Wide] /\ Two[2 * Wide + 1] <= Two[Mantissa + 2 * Wide]
    BY <2>1, Twos, TwoGrows
  <2> QED
    BY <2>1, <2>2, TwoIsPositive
<1> DEFINE x == Double(2 * n)
<1>5. \/ x \in Int /\ x <= -(2 * r)
      \/ x \in Int /\ x >= 4 * r
  <2>1. CASE n < 0
    <3> DEFINE a == -(2 * n)
    <3>1. a \in Nat /\ Two[Wide] <= a /\ a < Two[Mantissa + 2 * Wide] /\ -a = 2 * n
      BY <1>2, <1>4, <2>1
    <3> HIDE DEF a
    <3>2. Double(-a) \in Int /\ Double(-a) <= -Two[Wide]
      BY <1>3, <3>1, DoubleAtLeast
    <3> QED
      BY <1>2, <3>1, <3>2
  <2>2. CASE ~(n < 0)
    <3> DEFINE a == 2 * n
    <3>1. a \in Nat /\ Two[Wide + 1] <= a /\ a < Two[Mantissa + 2 * Wide]
      BY <1>2, <1>3, <1>4, <2>2
    <3> HIDE DEF a
    <3>2. Double(a) \in Nat /\ Two[Wide + 1] <= Double(a)
      BY <1>3, <3>1, DoubleAtLeast
    <3> QED
      BY <1>3, <3>2 DEF a
  <2> QED
    BY <2>1, <2>2
<1>6. v.type = "real" /\ v.n = x
  OBVIOUS
<1> HIDE DEF x
<1>7. v.n \in Int
  BY <1>5, <1>6
<1> DEFINE t == Truncated(v.n)
<1>8. /\ asInt(v) = IF -(2 * p) <= v.n /\ v.n <= 2 * p - 2 THEN {t} ELSE Throws
      /\ asUInt(v) = IF 0 <= v.n /\ v.n <= 4 * p - 2 THEN {t} ELSE Throws
      /\ v.n # d => asInt64(v) = IF -(2 * r) <= v.n /\ v.n < d THEN {t} ELSE Throws
      /\ v.n # e => asUInt64(v) = IF 0 <= v.n /\ v.n < e THEN {t} ELSE Throws
  BY <1>1, <1>6, <1>7, RealConverts
<1>9. x = -(2 * r) => t = -r
  <2>1. ASSUME x = -(2 * r) PROVE t = -r
    <3>1. v.n \in Int /\ v.n <= 0 /\ IsIntegral(v.n)
      BY <1>2, <1>6, <1>7, <2>1 DEF IsIntegral
    <3>2. t \in Int /\ v.n = 2 * t
      BY <3>1, FractionIsDropped
    <3> HIDE DEF t
    <3> QED
      BY <1>2, <1>6, <2>1, <3>2
  <2> QED
    BY <2>1
<1> HIDE DEF t
<1>10. ~(-(2 * p) <= x /\ x <= 2 * p - 2) /\ ~(0 <= x /\ x <= 4 * p - 2) /\ x # d
       /\ (-(2 * r) <= x /\ x < d <=> x = -(2 * r)) /\ (x # e => ~(0 <= x /\ x < e))
  BY <1>2, <1>5
<1> QED
  BY <1>2, <1>6, <1>8, <1>9, <1>10 DEF Or

\* For every width of the types and every integer: its digits are read back as
\* it, in each type that it fits, and it is refused in the others; beyond the
\* widest type they are read as a double, which is refused but at the limits.
THEOREM NumbersAreReadBack == NumberSpec => []NumberReadsBack
<1>1. CallInit => NumberReadsBack
  BY DEF CallInit, NumberReadsBack, NoCall
<1>2. NumberReadsBack /\ [NumberNext]_call => NumberReadsBack'
  <2> SUFFICES ASSUME NumberReadsBack, [NumberNext]_call PROVE NumberReadsBack'
    OBVIOUS
  <2>1. CASE Number
    <3>1. PICK n \in Numbers : call' = [f |-> "number", n |-> n, v |-> decodeNumber(valueToString(n))]
      BY <2>1 DEF Number
    <3> DEFINE v == decodeNumber(valueToString(n))
    <3>2. n \in Int
      BY NumberCallsAssumption
    <3>3. PICK p, r : Limits(p, r)
      BY TheLimits
    <3>4. n \in MinInt(Wide) .. MaxUInt(Wide)
            <=> n \in MinInt(Wide) .. MaxInt(Wide) \/ n \in 0 .. MaxUInt(Wide)
      BY <3>2, <3>3 DEF Limits
    <3>5. CASE n \in MinInt(Wide) .. MaxUInt(Wide)
      <4>1. v = [type |-> IF n <= MaxInt(Narrow) THEN "int" ELSE "uint", n |-> n]
        BY <3>2, <3>5, Decoded
      <4>2. /\ Or(asInt(v), n, n \in MinInt(Narrow) .. MaxInt(Narrow))
            /\ Or(asUInt(v), n, n \in 0 .. MaxUInt(Narrow))
            /\ Or(asInt64(v), n, n \in MinInt(Wide) .. MaxInt(Wide))
            /\ Or(asUInt64(v), n, n \in 0 .. MaxUInt(Wide))
        <5>1. \/ v.type = "int" /\ v.n \in MinInt(Wide) .. MaxInt(Wide)
              \/ v.type = "uint" /\ v.n \in 0 .. MaxUInt(Wide)
          BY <3>2, <3>3, <3>5, <4>1 DEF Limits
        <5>2. v.n = n
          BY <4>1
        <5> HIDE DEF v
        <5> QED
          BY <5>1, <5>2, IntegersConvert
      <4> QED
        BY <3>1, <3>4, <3>5, <4>2 DEF NumberReadsBack
    <3>6. CASE ~(n \in MinInt(Wide) .. MaxUInt(Wide))
      <4>1. v = [type |-> "real", n |-> Double(2 * n)]
        BY <3>2, <3>6, Decoded
      <4>2. /\ asInt(v) = Throws /\ asUInt(v) = Throws
            /\ Or(asInt64(v), MinInt(Wide), v.n = Double(2 * MinInt(Wide)))
            /\ v.n # Double(2 * MaxUInt(Wide)) => asUInt64(v) = Throws
        <5>1. v.type = "real" /\ v.n = Double(2 * n)
          BY <4>1
        <5> HIDE DEF v
        <5> QED
          BY <3>2, <3>6, <5>1, BeyondIsRefused, NumberCallsAssumption
      <4> QED
        BY <3>1, <3>4, <3>6, <4>1, <4>2 DEF NumberReadsBack
    <3> QED
      BY <3>5, <3>6
  <2>2. CASE Conversion
    BY <2>2 DEF Conversion, NumberReadsBack
  <2>3. CASE UNCHANGED call
    BY <2>3 DEF NumberReadsBack
  <2> QED
    BY <2>1, <2>2, <2>3 DEF NumberNext
<1> QED
  BY <1>1, <1>2, PTL DEF NumberSpec

LEMMA IntegerIsRight ==
  ASSUME NEW v, v.n \in Int, \/ v.type = "int" /\ v.n \in MinInt(Wide) .. MaxInt(Wide)
                             \/ v.type = "uint" /\ v.n \in 0 .. MaxUInt(Wide)
  PROVE  Right(v)
<1>1. PICK p, r : Limits(p, r)
  BY TheLimits
<1> DEFINE n == v.n
           int == n \in MinInt(Narrow) .. MaxInt(Narrow)
           uint == n \in 0 .. MaxUInt(Narrow)
           int64 == n \in MinInt(Wide) .. MaxInt(Wide)
           uint64 == n \in 0 .. MaxUInt(Wide)
<1>2. /\ Or(asInt(v), n, int) /\ (isInt(v) <=> int)
      /\ Or(asUInt(v), n, uint) /\ (isUInt(v) <=> uint)
      /\ Or(asInt64(v), n, int64) /\ (isInt64(v) <=> int64)
      /\ Or(asUInt64(v), n, uint64) /\ (isUInt64(v) <=> uint64)
  BY IntegersConvert
<1>3. (int => int64) /\ (uint => uint64) /\ (int64 \/ uint64)
  BY <1>1 DEF Limits
<1>4. ExactValue(v) = n /\ v.type # "real" /\ v.type \in {"int", "uint"}
  BY DEF ExactValue
<1> HIDE DEF n, int, uint, int64, uint64
<1>5. ExactOf(v)
  BY <1>2, <1>4 DEF ExactOf, Or, Throws
<1>6. TestsAgree(v)
  BY <1>2, <1>3, <1>4 DEF TestsAgree, isIntegral
<1>7. /\ isConvertibleTo(v, "int") <=> isInt(v)
      /\ isConvertibleTo(v, "uint") <=> isUInt(v)
      /\ isConvertibleTo(v, "real") /\ isConvertibleTo(v, "boolean") /\ isConvertibleTo(v, "string")
      /\ isConvertibleTo(v, "null") <=> v.n = 0
  BY <1>4 DEF isConvertibleTo, isNumeric
<1>8. asDouble(v) = {Double(2 * v.n)} /\ asBool(v) = {v.n # 0} /\ asString(v) = {v}
  BY <1>4 DEF asDouble, asBool, asString, isNumeric
<1>9. PromisesKept(v)
  BY <1>2, <1>7, <1>8 DEF PromisesKept, Or, Throws
<1> QED
  BY <1>5, <1>6, <1>9 DEF Right

LEMMA RealIsRight ==
  ASSUME NEW v, v.type = "real", v.n \in Int
  PROVE  Right(v)
<1>1. PICK p, r, d, e : DoubleLimits(p, r, d, e)
  BY TheDoubleLimits
<1> DEFINE x == v.n
           t == Truncated(x)
           even == IsIntegral(x)
           int == -(2 * p) <= x /\ x <= 2 * p - 2
           uint == 0 <= x /\ x <= 4 * p - 2
           int64 == -(2 * r) <= x /\ x < d
           uint64 == 0 <= x /\ x < e
<1>2. /\ isInt(v) <=> int /\ even
      /\ isUInt(v) <=> uint /\ even
      /\ isInt64(v) <=> int64 /\ even
      /\ isUInt64(v) <=> uint64 /\ even
      /\ isIntegral(v) <=> -(2 * r) <= x /\ x < e /\ even
      /\ InRange(x, MinInt(Narrow), MaxInt(Narrow)) <=> int
      /\ InRange(x, 0, MaxUInt(Narrow)) <=> uint
      /\ asInt(v) = IF int THEN {t} ELSE Throws
      /\ asUInt(v) = IF uint THEN {t} ELSE Throws
      /\ x # d => asInt64(v) = IF int64 THEN {t} ELSE Throws
      /\ x # e => asUInt64(v) = IF uint64 THEN {t} ELSE Throws
  BY <1>1, RealConverts
<1>3. AtLimit(v) <=> x = d \/ x = e
  BY <1>1 DEF AtLimit, DoubleLimits
<1>4. /\ p \in Nat \ {0} /\ r \in Nat \ {0} /\ 2 * p <= r /\ d \in r .. 2 * r /\ e \in 2 * r .. 4 * r
  BY <1>1 DEF DoubleLimits, Limits
<1>5. (even => x = 2 * t) /\ ExactValue(v) = t
  BY FractionIsDropped DEF ExactValue
<1>6. /\ x = d => ~int64
      /\ x = e => ~uint64
      /\ int => int64
      /\ uint => uint64
      /\ -(2 * r) <= x /\ x < e <=> int64 \/ uint64
  <2> HIDE DEF x
  <2> QED
    BY <1>4 DEF x
<1> HIDE DEF x, t, even, int, uint, int64, uint64
<1>7. ExactOf(v)
  BY <1>2, <1>3, <1>5, <1>6 DEF ExactOf, Throws, x
<1>8. TestsAgree(v)
  BY <1>2, <1>6 DEF TestsAgree
<1>9. /\ isConvertibleTo(v, "int") <=> isInt(v) \/ InRange(x, MinInt(Narrow), MaxInt(Narrow))
      /\ isConvertibleTo(v, "uint") <=> isUInt(v) \/ InRange(x, 0, MaxUInt(Narrow))
      /\ isConvertibleTo(v, "real") /\ isConvertibleTo(v, "boolean") /\ isConvertibleTo(v, "string")
      /\ isConvertibleTo(v, "null") <=> v.n = 0
  BY DEF isConvertibleTo, isNumeric, x
<1>10. asDouble(v) = {v.n} /\ asBool(v) = {v.n # 0} /\ asString(v) = {v}
  BY DEF asDouble, asBool, asString, isNumeric
<1>11. PromisesKept(v)
  BY <1>2, <1>9, <1>10 DEF PromisesKept, Throws
<1> QED
  BY <1>7, <1>8, <1>11 DEF Right

LEMMA OtherIsRight ==
  ASSUME NEW v, \/ v.type = "null" /\ v.n = 0
                \/ v.type = "boolean" /\ v.n \in {0, 1}
                \/ v.type \in {"string", "array", "object"}
  PROVE  Right(v)
<1>1. /\ ~isInt(v) /\ ~isUInt(v) /\ ~isInt64(v) /\ ~isUInt64(v) /\ ~isIntegral(v)
      /\ ExactValue(v) = v.n /\ v.type \notin {"int", "uint", "real"}
  BY DEF isInt, isUInt, isInt64, isUInt64, isIntegral, ExactValue
<1> DEFINE kept == v.type \in {"null", "boolean"}
<1>2. \A f, min, max : Convert(v, f, min, max) = IF kept THEN {v.n} ELSE Throws
  BY DEF Convert
<1>3. /\ asInt(v) = IF kept THEN {v.n} ELSE Throws
      /\ asUInt(v) = IF kept THEN {v.n} ELSE Throws
      /\ asInt64(v) = IF kept THEN {v.n} ELSE Throws
      /\ asUInt64(v) = IF kept THEN {v.n} ELSE Throws
  BY <1>2 DEF asInt, asUInt, asInt64, asUInt64
<1>4. ExactOf(v)
  BY <1>1, <1>3 DEF ExactOf, Throws
<1>5. TestsAgree(v)
  BY <1>1 DEF TestsAgree
<1>6. /\ isConvertibleTo(v, "int") <=> kept
      /\ isConvertibleTo(v, "uint") <=> kept
      /\ isConvertibleTo(v, "real") <=> kept
      /\ isConvertibleTo(v, "boolean") <=> kept
      /\ isConvertibleTo(v, "string") <=> kept \/ v.type = "string"
      /\ isConvertibleTo(v, "null") <=> v.n = 0
  BY <1>1 DEF isConvertibleTo, isNumeric
<1>7. /\ asDouble(v) = IF kept THEN {2 * v.n} ELSE Throws
      /\ asBool(v) = IF kept THEN {v.n # 0} ELSE Throws
      /\ asString(v) = IF v.type \in {"array", "object"} THEN Throws ELSE {v}
  BY <1>1 DEF asDouble, asBool, asString, isNumeric
<1>8. PromisesKept(v)
  BY <1>3, <1>6, <1>7 DEF PromisesKept, Throws
<1> QED
  BY <1>4, <1>5, <1>8 DEF Right

\* Every Value that is no array and no object, of whatever number, for every
\* width of the types: isInt and its like promise a conversion that gives the
\* value itself, and no conversion gives anything but the value or its whole part.
THEOREM ConversionsAreExact == NumberSpec => []ConvertsExactly
<1>1. CallInit => ConvertsExactly
  BY DEF CallInit, ConvertsExactly, NoCall
<1>2. ConvertsExactly /\ [NumberNext]_call => ConvertsExactly'
  <2> SUFFICES ASSUME ConvertsExactly, [NumberNext]_call PROVE ConvertsExactly'
    OBVIOUS
  <2>1. CASE Number
    BY <2>1 DEF Number, ConvertsExactly
  <2>2. CASE Conversion
    <3>1. PICK v \in Scalars1 : call' = [f |-> "convert", v |-> v]
      BY <2>2 DEF Conversion
    <3>2. ScalarOf(v)
      BY NumberCallsAssumption
    <3>3. Right(v)
      <4>1. CASE v.type \in {"int", "uint"}
        BY <3>2, <4>1, IntegerIsRight DEF ScalarOf
      <4>2. CASE v.type = "real"
        BY <3>2, <4>2, RealIsRight DEF ScalarOf
      <4>3. CASE v.type \notin {"int", "uint", "real"}
        BY <3>2, <4>3, OtherIsRight DEF ScalarOf
      <4> QED
        BY <4>1, <4>2, <4>3
    <3> QED
      BY <3>1, <3>3 DEF ConvertsExactly, Right, ExactOf, ExactValue, TestsAgree, PromisesKept
  <2>3. CASE UNCHANGED call
    BY <2>3 DEF ConvertsExactly
  <2> QED
    BY <2>1, <2>2, <2>3 DEF NumberNext
<1> QED
  BY <1>1, <1>2, PTL DEF NumberSpec

-----------------------------------------------------------------------------
(* Functions that are defined by recursion over what is left of a text.    *)

Texts == Seq(Byte)
Lengths(S) == [s \in Seq(S) |-> Len(s)]
Shorter(S) == Smaller(Lengths(S), Seq(S))

LEMMA TextsBecomeShorter ==
  ASSUME NEW S
  PROVE  IsWellFoundedOn(Shorter(S), Seq(S))
<1>1. Lengths(S) \in [Seq(S) -> Nat]
  BY DEF Lengths
<1> QED
  BY <1>1, MeasureIsWellFounded DEF Shorter

\* What is left of a text behind its first bytes.
LEMMA TheRest ==
  ASSUME NEW S, NEW s \in Seq(S), s # <<>>
  PROVE  /\ Tail(s) \in SetLessThan(s, Shorter(S), Seq(S))
         /\ \A n \in Nat : n >= 2 => SubSeq(s, n, Len(s)) \in SetLessThan(s, Shorter(S), Seq(S))
<1>1. Tail(s) \in Seq(S) /\ Len(Tail(s)) < Len(s)
  OBVIOUS
<1>2. ASSUME NEW n \in Nat, n >= 2
      PROVE  SubSeq(s, n, Len(s)) \in Seq(S) /\ Len(SubSeq(s, n, Len(s))) < Len(s)
  BY <1>2
<1> QED
  BY <1>1, <1>2 DEF SetLessThan, Shorter, Smaller, Lengths

EncodeStep(g, str) == IF str = <<>> THEN <<>> ELSE UrlEncoded(str[1]) \o g[Tail(str)]

LEMMA UrlEncodeIs == UrlEncode = [str \in Texts |-> EncodeStep(UrlEncode, str)]
<1>1. WFDefOn(Shorter(Byte), Texts, EncodeStep)
  BY TheRest DEF WFDefOn, EncodeStep, Texts
<1>2. OpDefinesFcn(UrlEncode, Texts, EncodeStep)
  BY DEF OpDefinesFcn, UrlEncode, EncodeStep, Texts, Byte
<1>3. WFInductiveDefines(UrlEncode, Texts, EncodeStep)
  BY <1>1, <1>2, TextsBecomeShorter, WFInductiveDef DEF Texts
<1> QED
  BY <1>3 DEF WFInductiveDefines

DecodeStep(g, t) ==
  CASE t = <<>>               -> <<>>
    [] t # <<>> /\ t[1] = 43 -> <<32>> \o g[Tail(t)]
    [] t # <<>> /\ t[1] = 37 -> <<Pair(t[2], t[3])>> \o g[SubSeq(t, 4, Len(t))]
    [] OTHER                  -> <<t[1]>> \o g[Tail(t)]

LEMMA DecodedUrlIs == DecodedUrl = [t \in Texts |-> DecodeStep(DecodedUrl, t)]
<1>1. WFDefOn(Shorter(Byte), Texts, DecodeStep)
  <2> SUFFICES ASSUME NEW g, NEW h, NEW t \in Texts,
                      \A y \in SetLessThan(t, Shorter(Byte), Texts) : g[y] = h[y]
               PROVE  DecodeStep(g, t) = DecodeStep(h, t)
    BY DEF WFDefOn
  <2>1. t # <<>> => g[Tail(t)] = h[Tail(t)] /\ g[SubSeq(t, 4, Len(t))] = h[SubSeq(t, 4, Len(t))]
    BY TheRest DEF Texts
  <2> QED
    BY <2>1 DEF DecodeStep
<1>2. OpDefinesFcn(DecodedUrl, Texts, DecodeStep)
  BY DEF OpDefinesFcn, DecodedUrl, DecodeStep, Texts
<1>3. WFInductiveDefines(DecodedUrl, Texts, DecodeStep)
  BY <1>1, <1>2, TextsBecomeShorter, WFInductiveDef DEF Texts
<1> QED
  BY <1>3 DEF WFInductiveDefines

HexStep(g, bytes) ==
  IF bytes = <<>> THEN <<>>
  ELSE <<HexCode(bytes[1] \div 16), HexCode(bytes[1] % 16)>> \o g[Tail(bytes)]

LEMMA HexIs == b2a_hex = [bytes \in Texts |-> HexStep(b2a_hex, bytes)]
<1>1. WFDefOn(Shorter(Byte), Texts, HexStep)
  BY TheRest DEF WFDefOn, HexStep, Texts
<1>2. OpDefinesFcn(b2a_hex, Texts, HexStep)
  BY DEF OpDefinesFcn, b2a_hex, HexStep, Texts, Byte
<1>3. WFInductiveDefines(b2a_hex, Texts, HexStep)
  BY <1>1, <1>2, TextsBecomeShorter, WFInductiveDef DEF Texts
<1> QED
  BY <1>3 DEF WFInductiveDefines

FromHexStep(g, t) == IF t = <<>> THEN <<>> ELSE <<Pair(t[1], t[2])>> \o g[SubSeq(t, 3, Len(t))]

LEMMA DecodedHexIs == DecodedHex = [t \in Texts |-> FromHexStep(DecodedHex, t)]
<1>1. WFDefOn(Shorter(Byte), Texts, FromHexStep)
  BY TheRest DEF WFDefOn, FromHexStep, Texts
<1>2. OpDefinesFcn(DecodedHex, Texts, FromHexStep)
  BY DEF OpDefinesFcn, DecodedHex, FromHexStep, Texts
<1>3. WFInductiveDefines(DecodedHex, Texts, FromHexStep)
  BY <1>1, <1>2, TextsBecomeShorter, WFInductiveDef DEF Texts
<1> QED
  BY <1>3 DEF WFInductiveDefines

\* One quantum of base64.
Quantum(bytes) ==
  LET n == Len(bytes)
      byte(i) == IF i <= n THEN bytes[i] ELSE 0
      groups == Groups(byte(1), byte(2), byte(3))
  IN  [k \in 1 .. 4 |-> IF k <= n + 1 THEN base64_chars[groups[k]] ELSE 61]

Base64Step(g, bytes) ==
  LET n == Len(bytes)
  IN  IF n = 0 THEN <<>>
      ELSE Quantum(bytes) \o (IF n > 3 THEN g[SubSeq(bytes, 4, n)] ELSE <<>>)

LEMMA Base64Is == base64_encode = [bytes \in Texts |-> Base64Step(base64_encode, bytes)]
<1>1. WFDefOn(Shorter(Byte), Texts, Base64Step)
  <2> SUFFICES ASSUME NEW g, NEW h, NEW bytes \in Texts,
                      \A y \in SetLessThan(bytes, Shorter(Byte), Texts) : g[y] = h[y]
               PROVE  Base64Step(g, bytes) = Base64Step(h, bytes)
    BY DEF WFDefOn
  <2>1. bytes # <<>> => g[SubSeq(bytes, 4, Len(bytes))] = h[SubSeq(bytes, 4, Len(bytes))]
    BY TheRest DEF Texts
  <2> QED
    BY <2>1 DEF Base64Step
<1>2. OpDefinesFcn(base64_encode, Texts, Base64Step)
  BY DEF OpDefinesFcn, base64_encode, Base64Step, Quantum, Texts, Byte
<1>3. WFInductiveDefines(base64_encode, Texts, Base64Step)
  BY <1>1, <1>2, TextsBecomeShorter, WFInductiveDef DEF Texts
<1> QED
  BY <1>3 DEF WFInductiveDefines

\* The bytes of one quantum.
FromQuantum(t) ==
  LET V(k)   == Value64(t[k])
      first  == V(1) * 4 + V(2) \div 16
      second == (V(2) % 16) * 16 + V(3) \div 4
      third  == (V(3) % 4) * 64 + V(4)
  IN  IF t[3] = 61 THEN <<first>> ELSE IF t[4] = 61 THEN <<first, second>>
      ELSE <<first, second, third>>

From64Step(g, t) == IF t = <<>> THEN <<>> ELSE FromQuantum(t) \o g[SubSeq(t, 5, Len(t))]

LEMMA Decoded64Is == Decoded64 = [t \in Texts |-> From64Step(Decoded64, t)]
<1>1. WFDefOn(Shorter(Byte), Texts, From64Step)
  BY TheRest DEF WFDefOn, From64Step, Texts
<1>2. OpDefinesFcn(Decoded64, Texts, From64Step)
  BY DEF OpDefinesFcn, Decoded64, From64Step, FromQuantum, Texts
<1>3. WFInductiveDefines(Decoded64, Texts, From64Step)
  BY <1>1, <1>2, TextsBecomeShorter, WFInductiveDef DEF Texts
<1> QED
  BY <1>3 DEF WFInductiveDefines

\* Induction over texts: what holds of a text when it holds of the shorter ones
\* holds of all.
LEMMA TextInduction ==
  ASSUME NEW S, NEW T,
         \A s \in Seq(S) : (\A r \in SetLessThan(s, Shorter(S), Seq(S)) : r \in T) => s \in T
  PROVE  \A s \in Seq(S) : s \in T
<1> DEFINE Out == Seq(S) \ T
<1> SUFFICES ASSUME Out # {} PROVE FALSE
  OBVIOUS
<1>1. PICK s \in Out : \A r \in Out : ~(<<r, s>> \in Shorter(S))
  <2>1. Out \subseteq Seq(S)
    OBVIOUS
  <2> HIDE DEF Out
  <2> QED
    BY <2>1, TextsBecomeShorter, WFMin
<1>2. \A r \in SetLessThan(s, Shorter(S), Seq(S)) : r \in T
  BY <1>1 DEF SetLessThan
<1> QED
  BY <1>1, <1>2

\* The first bytes of a text and what is left.
LEMMA OneBefore ==
  ASSUME NEW S, NEW r \in Seq(S), NEW a \in S
  PROVE  LET t == <<a>> \o r
         IN  t \in Seq(S) /\ t # <<>> /\ t[1] = a /\ Tail(t) = r /\ Len(t) = Len(r) + 1
             /\ SubSeq(t, 2, Len(t)) = r
  OBVIOUS

LEMMA TwoBefore ==
  ASSUME NEW S, NEW r \in Seq(S), NEW a \in S, NEW b \in S
  PROVE  LET t == <<a, b>> \o r
         IN  t \in Seq(S) /\ t # <<>> /\ t[1] = a /\ t[2] = b /\ SubSeq(t, 3, Len(t)) = r
  OBVIOUS

LEMMA ThreeBefore ==
  ASSUME NEW S, NEW r \in Seq(S), NEW a \in S, NEW b \in S, NEW c \in S
  PROVE  LET t == <<a, b, c>> \o r
         IN  t \in Seq(S) /\ t # <<>> /\ t[1] = a /\ t[2] = b /\ t[3] = c /\ SubSeq(t, 4, Len(t)) = r
  OBVIOUS

LEMMA FourBefore ==
  ASSUME NEW S, NEW r \in Seq(S), NEW a \in S, NEW b \in S, NEW c \in S, NEW d \in S
  PROVE  LET t == <<a, b, c, d>> \o r
         IN  t \in Seq(S) /\ t # <<>> /\ t[1] = a /\ t[2] = b /\ t[3] = c /\ t[4] = d
             /\ SubSeq(t, 5, Len(t)) = r
  OBVIOUS

LEMMA FirstAndRest ==
  ASSUME NEW S, NEW s \in Seq(S), s # <<>>
  PROVE  s[1] \in S /\ Tail(s) \in Seq(S) /\ <<s[1]>> \o Tail(s) = s
  OBVIOUS

\* Two digits of sixteen.
LEMMA HexDigitsRead ==
  ASSUME NEW c \in Byte
  PROVE  /\ ToHex(c \div 16) \in Byte /\ ToHex(c % 16) \in Byte
         /\ HexCode(c \div 16) \in Byte /\ HexCode(c % 16) \in Byte
         /\ Pair(ToHex(c \div 16), ToHex(c % 16)) = c
         /\ Pair(HexCode(c \div 16), HexCode(c % 16)) = c
<1>1. /\ c \div 16 \in 0 .. 15 /\ c % 16 \in 0 .. 15 /\ c = (c \div 16) * 16 + (c % 16)
  BY DEF Byte
<1>2. \A d \in 0 .. 15 : /\ HexValue(ToHex(d)) = d /\ HexValue(HexCode(d)) = d
                         /\ ToHex(d) \in Byte /\ HexCode(d) \in Byte
  BY DEF HexValue, ToHex, HexCode, Byte
<1> QED
  BY <1>1, <1>2 DEF Pair

LEMMA UrlIsRead == \A s \in Texts : UrlEncode[s] \in Texts /\ DecodedUrl[UrlEncode[s]] = s
<1> DEFINE T == {s \in Texts : UrlEncode[s] \in Texts /\ DecodedUrl[UrlEncode[s]] = s}
<1>1. ASSUME NEW s \in Texts, \A r \in SetLessThan(s, Shorter(Byte), Texts) : r \in T PROVE s \in T
  <2>1. CASE s = <<>>
    <3>1. UrlEncode[s] = <<>> /\ <<>> \in Texts
      BY <2>1, UrlEncodeIs DEF EncodeStep, Texts
    <3>2. DecodedUrl[<<>>] = <<>>
      BY <3>1, DecodedUrlIs DEF DecodeStep
    <3> QED
      BY <2>1, <3>1, <3>2
  <2>2. CASE s # <<>>
    <3> DEFINE c == s[1]
               r == UrlEncode[Tail(s)]
               t == UrlEncode[s]
    <3>1. c \in Byte /\ <<c>> \o Tail(s) = s /\ Tail(s) \in T
      BY <1>1, <2>2, FirstAndRest, TheRest DEF Texts
    <3>2. r \in Texts /\ DecodedUrl[r] = Tail(s)
      BY <3>1
    <3>3. t = UrlEncoded(c) \o r
      BY <2>2, UrlEncodeIs DEF EncodeStep
    <3> HIDE DEF c, r, t
    <3>4. CASE UrlEncoded(c) = <<c>> /\ c # 43 /\ c # 37
      <4>1. t \in Texts /\ t # <<>> /\ t[1] = c /\ Tail(t) = r
        BY <3>1, <3>2, <3>3, <3>4, OneBefore DEF Texts
      <4>2. DecodedUrl[t] = <<c>> \o DecodedUrl[r]
        BY <3>4, <4>1, DecodedUrlIs DEF DecodeStep
      <4> QED
        BY <3>1, <3>2, <4>1, <4>2 DEF t
    <3>5. CASE UrlEncoded(c) = <<43>> /\ c = 32
      <4>1. t \in Texts /\ t # <<>> /\ t[1] = 43 /\ Tail(t) = r
        <5>1. 43 \in Byte
          BY DEF Byte
        <5> QED
          BY <3>2, <3>3, <3>5, <5>1, OneBefore DEF Texts
      <4>2. DecodedUrl[t] = <<32>> \o DecodedUrl[r]
        <5>1. DecodedUrl[t] = DecodeStep(DecodedUrl, t)
          BY <4>1, DecodedUrlIs
        <5>2. ~(t = <<>>) /\ ~(t[1] = 37)
          BY <4>1
        <5> QED
          BY <4>1, <5>1, <5>2 DEF DecodeStep
      <4> QED
        BY <3>1, <3>2, <3>5, <4>1, <4>2 DEF t
    <3>6. CASE UrlEncoded(c) = <<37, ToHex(c \div 16), ToHex(c % 16)>>
      <4>1. ToHex(c \div 16) \in Byte /\ ToHex(c % 16) \in Byte /\ 37 \in Byte
            /\ Pair(ToHex(c \div 16), ToHex(c % 16)) = c
        <5>1. 37 \in Byte
          BY DEF Byte
        <5> QED
          BY <3>1, <5>1, HexDigitsRead
      <4>2. /\ t \in Texts /\ t # <<>> /\ t[1] = 37 /\ t[2] = ToHex(c \div 16) /\ t[3] = ToHex(c % 16)
            /\ SubSeq(t, 4, Len(t)) = r
        BY <3>2, <3>3, <3>6, <4>1, ThreeBefore DEF Texts
      <4>3. DecodedUrl[t] = <<Pair(t[2], t[3])>> \o DecodedUrl[r]
        <5>1. DecodedUrl[t] = DecodeStep(DecodedUrl, t)
          BY <4>2, DecodedUrlIs
        <5>2. ~(t = <<>>) /\ ~(t[1] = 43)
          BY <4>2
        <5> QED
          BY <4>2, <5>1, <5>2 DEF DecodeStep
      <4> QED
        BY <3>1, <3>2, <4>1, <4>2, <4>3 DEF t
    <3>7. \/ UrlEncoded(c) = <<c>> /\ c # 43 /\ c # 37
          \/ UrlEncoded(c) = <<43>> /\ c = 32
          \/ UrlEncoded(c) = <<37, ToHex(c \div 16), ToHex(c % 16)>>
      <4> DEFINE Stays == Upper \cup Lower \cup Digit \cup {45, 95, 46, 126}
      <4>1. c \in Stays => UrlEncoded(c) = <<c>>
        BY DEF UrlEncoded, Upper, Lower, Digit
      <4>2. c \in Stays => c # 43 /\ c # 37
        BY DEF Upper, Lower, Digit
      <4>3. c \notin Stays /\ c = 32 => UrlEncoded(c) = <<43>>
        BY DEF UrlEncoded
      <4>4. c \notin Stays /\ c # 32 => UrlEncoded(c) = <<37, ToHex(c \div 16), ToHex(c % 16)>>
        BY DEF UrlEncoded
      <4> HIDE DEF Stays
      <4> QED
        BY <4>1, <4>2, <4>3, <4>4
    <3> QED
      BY <3>4, <3>5, <3>6, <3>7
  <2> QED
    BY <2>1, <2>2
<1>2. \A s \in Texts : s \in T
  <2> HIDE DEF T
  <2> QED
    BY <1>1, TextInduction DEF Texts
<1> QED
  BY <1>2

LEMMA HexIsRead == \A s \in Texts : b2a_hex[s] \in Texts /\ DecodedHex[b2a_hex[s]] = s
<1> DEFINE T == {s \in Texts : b2a_hex[s] \in Texts /\ DecodedHex[b2a_hex[s]] = s}
<1>1. ASSUME NEW s \in Texts, \A r \in SetLessThan(s, Shorter(Byte), Texts) : r \in T PROVE s \in T
  <2>1. CASE s = <<>>
    <3>1. b2a_hex[s] = <<>> /\ <<>> \in Texts
      BY <2>1, HexIs DEF HexStep, Texts
    <3>2. DecodedHex[<<>>] = <<>>
      BY <3>1, DecodedHexIs DEF FromHexStep
    <3> QED
      BY <2>1, <3>1, <3>2
  <2>2. CASE s # <<>>
    <3> DEFINE c == s[1]
               r == b2a_hex[Tail(s)]
               t == b2a_hex[s]
               a == HexCode(c \div 16)
               b == HexCode(c % 16)
    <3>1. c \in Byte /\ <<c>> \o Tail(s) = s /\ Tail(s) \in T
      BY <1>1, <2>2, FirstAndRest, TheRest DEF Texts
    <3>2. r \in Texts /\ DecodedHex[r] = Tail(s)
      BY <3>1
    <3>3. t = <<a, b>> \o r
      BY <2>2, HexIs DEF HexStep
    <3>4. a \in Byte /\ b \in Byte /\ Pair(a, b) = c
      BY <3>1, HexDigitsRead
    <3> HIDE DEF c, r, t, a, b
    <3>5. t \in Texts /\ t # <<>> /\ t[1] = a /\ t[2] = b /\ SubSeq(t, 3, Len(t)) = r
      BY <3>2, <3>3, <3>4, TwoBefore DEF Texts
    <3>6. DecodedHex[t] = <<Pair(t[1], t[2])>> \o DecodedHex[r]
      BY <3>5, DecodedHexIs DEF FromHexStep
    <3> QED
      BY <3>1, <3>2, <3>4, <3>5, <3>6 DEF t
  <2> QED
    BY <2>1, <2>2
<1>2. \A s \in Texts : s \in T
  <2> HIDE DEF T
  <2> QED
    BY <1>1, TextInduction DEF Texts
<1> QED
  BY <1>2

LEMMA Chars64 ==
  ASSUME NEW n \in 0 .. 63
  PROVE  base64_chars[n] \in Byte /\ base64_chars[n] # 61 /\ Value64(base64_chars[n]) = n
<1> DEFINE c(k) == IF k < 26 THEN 65 + k ELSE IF k < 52 THEN 71 + k ELSE IF k < 62 THEN k - 4
                   ELSE IF k = 62 THEN 43 ELSE 47
<1>1. DOMAIN base64_chars = 0 .. 63 /\ \A k \in 0 .. 63 : base64_chars[k] = c(k)
  BY DEF base64_chars
<1>2. \A k \in 0 .. 63 : c(k) \in Byte /\ c(k) # 61 /\ (c(k) = c(n) => k = n)
  BY DEF Byte
<1>3. \A k \in 0 .. 63 : base64_chars[k] = base64_chars[n] => k = n
  BY <1>1, <1>2
<1> HIDE DEF c
<1>4. (CHOOSE k \in Chars : base64_chars[k] = base64_chars[n]) = n
  BY <1>1, <1>3 DEF Chars
<1> QED
  BY <1>1, <1>2, <1>4 DEF Value64

\* Four groups of six bits are three bytes.
LEMMA GroupsHold ==
  ASSUME NEW a \in Byte, NEW b \in Byte, NEW c \in Byte
  PROVE  LET g == Groups(a, b, c)
         IN  /\ \A k \in 1 .. 4 : g[k] \in 0 .. 63
             /\ a = g[1] * 4 + g[2] \div 16
             /\ b = (g[2] % 16) * 16 + g[3] \div 4
             /\ c = (g[3] % 4) * 64 + g[4]
<1>1. a \div 4 \in 0 .. 63 /\ a % 4 \in 0 .. 3 /\ a = (a \div 4) * 4 + (a % 4)
  BY DEF Byte
<1>2. b \div 16 \in 0 .. 15 /\ b % 16 \in 0 .. 15 /\ b = (b \div 16) * 16 + (b % 16)
  BY DEF Byte
<1>3. c \div 64 \in 0 .. 3 /\ c % 64 \in 0 .. 63 /\ c = (c \div 64) * 64 + (c % 64)
  BY DEF Byte
<1>4. ASSUME NEW u \in 0 .. 3, NEW v \in 0 .. 15
      PROVE  (u * 16 + v) \div 16 = u /\ (u * 16 + v) % 16 = v /\ u * 16 + v \in 0 .. 63
  OBVIOUS
<1>5. ASSUME NEW u \in 0 .. 15, NEW v \in 0 .. 3
      PROVE  (u * 4 + v) \div 4 = u /\ (u * 4 + v) % 4 = v /\ u * 4 + v \in 0 .. 63
  OBVIOUS
<1> DEFINE g == Groups(a, b, c)
<1>6. g[1] = a \div 4 /\ g[2] = (a % 4) * 16 + b \div 16 /\ g[3] = (b % 16) * 4 + c \div 64 /\ g[4] = c % 64
  BY DEF Groups
<1> HIDE DEF g
<1>7. g[2] \div 16 = a % 4 /\ g[2] % 16 = b \div 16 /\ g[2] \in 0 .. 63
  BY <1>1, <1>2, <1>4, <1>6
<1>8. g[3] \div 4 = b % 16 /\ g[3] % 4 = c \div 64 /\ g[3] \in 0 .. 63
  BY <1>2, <1>3, <1>5, <1>6
<1>9. \A k \in 1 .. 4 : g[k] \in 0 .. 63
  BY <1>1, <1>3, <1>6, <1>7, <1>8
<1>10. a = g[1] * 4 + g[2] \div 16 /\ b = (g[2] % 16) * 16 + g[3] \div 4 /\ c = (g[3] % 4) * 64 + g[4]
  BY <1>1, <1>2, <1>3, <1>6, <1>7, <1>8
<1> QED
  BY <1>9, <1>10 DEF g

\* A quantum says which bytes it was made of.
LEMMA QuantumIsRead ==
  ASSUME NEW s \in Texts, s # <<>>, NEW r \in Texts
  PROVE  LET q == Quantum(s)  t == Quantum(s) \o r
         IN  /\ q = <<q[1], q[2], q[3], q[4]>> /\ t \in Texts /\ t # <<>> /\ SubSeq(t, 5, Len(t)) = r
             /\ Len(s) >= 3 => FromQuantum(t) = <<s[1], s[2], s[3]>>
             /\ Len(s) = 2 => FromQuantum(t) = <<s[1], s[2]>>
             /\ Len(s) = 1 => FromQuantum(t) = <<s[1]>>
<1> DEFINE n == Len(s)
           byte(i) == IF i <= n THEN s[i] ELSE 0
           a == byte(1)
           b == byte(2)
           c == byte(3)
           g == Groups(a, b, c)
           q == Quantum(s)
           t == q \o r
           V(k) == Value64(t[k])
           x == V(1) * 4 + V(2) \div 16
           y == (V(2) % 16) * 16 + V(3) \div 4
           z == (V(3) % 4) * 64 + V(4)
<1>1. n \in Nat \ {0} /\ (\A i \in 1 .. n : s[i] \in Byte) /\ 0 \in Byte /\ 61 \in Byte
  <2>1. 0 \in Byte /\ 61 \in Byte
    BY DEF Byte
  <2> QED
    BY <2>1 DEF Texts
<1>2. /\ a \in Byte /\ b \in Byte /\ c \in Byte
      /\ a = s[1] /\ (n >= 2 => b = s[2]) /\ (n >= 3 => c = s[3]) /\ (n < 2 => b = 0) /\ (n < 3 => c = 0)
  BY <1>1
<1>3. q = [k \in 1 .. 4 |-> IF k <= n + 1 THEN base64_chars[g[k]] ELSE 61]
  BY DEF Quantum
<1> HIDE DEF n, a, b, c, byte
<1>4. /\ \A k \in 1 .. 4 : g[k] \in 0 .. 63
      /\ a = g[1] * 4 + g[2] \div 16
      /\ b = (g[2] % 16) * 16 + g[3] \div 4
      /\ c = (g[3] % 4) * 64 + g[4]
  BY <1>2, GroupsHold
<1> HIDE DEF g, q
<1>5. \A k \in 1 .. 4 : /\ q[k] \in Byte
                        /\ k <= n + 1 => q[k] # 61 /\ Value64(q[k]) = g[k]
                        /\ k > n + 1 => q[k] = 61 /\ Value64(q[k]) = 0
  <2> TAKE k \in 1 .. 4
  <2>1. base64_chars[g[k]] \in Byte /\ base64_chars[g[k]] # 61 /\ Value64(base64_chars[g[k]]) = g[k]
    BY <1>4, Chars64
  <2>2. Value64(61) = 0
    BY DEF Value64
  <2>3. q[k] = IF k <= n + 1 THEN base64_chars[g[k]] ELSE 61
    BY <1>3
  <2>4. k > n + 1 => ~(k <= n + 1)
    BY <1>1
  <2> QED
    BY <1>1, <2>1, <2>2, <2>3, <2>4
<1>6. q = <<q[1], q[2], q[3], q[4]>>
  BY <1>3
<1>7. t \in Texts /\ t # <<>> /\ t[1] = q[1] /\ t[2] = q[2] /\ t[3] = q[3] /\ t[4] = q[4] /\ SubSeq(t, 5, Len(t)) = r
  <2>1. q[1] \in Byte /\ q[2] \in Byte /\ q[3] \in Byte /\ q[4] \in Byte
    BY <1>5
  <2>2. t = <<q[1], q[2], q[3], q[4]>> \o r
    BY <1>6
  <2> HIDE DEF t
  <2> QED
    BY <2>1, <2>2, FourBefore DEF Texts
<1> HIDE DEF t
<1>8. V(1) = g[1] /\ V(2) = g[2] /\ (n >= 2 => V(3) = g[3]) /\ (n >= 3 => V(4) = g[4])
      /\ (n < 3 => V(4) = 0) /\ (n < 2 => V(3) = 0)
  <2>1. 2 <= n + 1 /\ (n >= 2 => 3 <= n + 1) /\ (n >= 3 => 4 <= n + 1) /\ (n < 3 => 4 > n + 1) /\ (n < 2 => 3 > n + 1)
        /\ 1 <= n + 1
    BY <1>1
  <2> QED
    BY <1>5, <1>7, <2>1
<1>9. FromQuantum(t) = IF t[3] = 61 THEN <<x>> ELSE IF t[4] = 61 THEN <<x, y>> ELSE <<x, y, z>>
  BY DEF FromQuantum
<1>10. n >= 3 => n >= 2
  BY <1>1
<1>11. x = a /\ (n >= 2 => y = b) /\ (n >= 3 => z = c)
  BY <1>4, <1>8, <1>10
<1> HIDE DEF x, y, z, V
<1>12. /\ n >= 3 => t[3] # 61 /\ t[4] # 61
       /\ n = 2 => t[3] # 61 /\ t[4] = 61
       /\ n = 1 => t[3] = 61
  <2>1. (n >= 2 => 3 <= n + 1) /\ (n >= 3 => 4 <= n + 1) /\ (n = 2 => 4 > n + 1) /\ (n = 1 => 3 > n + 1)
        /\ (n >= 3 => n >= 2) /\ (n = 2 => n >= 2)
    BY <1>1
  <2> QED
    BY <1>5, <1>7, <2>1
<1>13. /\ n >= 3 => FromQuantum(t) = <<a, b, c>>
       /\ n = 2 => FromQuantum(t) = <<a, b>>
       /\ n = 1 => FromQuantum(t) = <<a>>
  <2>1. n = 2 => n >= 2
    BY <1>1
  <2> QED
    BY <1>9, <1>10, <1>11, <1>12, <2>1
<1>14. /\ n >= 3 => FromQuantum(t) = <<s[1], s[2], s[3]>>
       /\ n = 2 => FromQuantum(t) = <<s[1], s[2]>>
       /\ n = 1 => FromQuantum(t) = <<s[1]>>
  <2>1. n >= 3 => n >= 2
    BY <1>1
  <2> QED
    BY <1>2, <1>13, <2>1
<1> QED
  BY <1>6, <1>7, <1>14 DEF t, q, n

LEMMA Base64IsRead == \A s \in Texts : base64_encode[s] \in Texts /\ Decoded64[base64_encode[s]] = s
<1> DEFINE T == {s \in Texts : base64_encode[s] \in Texts /\ Decoded64[base64_encode[s]] = s}
<1>1. <<>> \in Texts /\ Decoded64[<<>>] = <<>>
  <2>1. <<>> \in Texts
    BY DEF Texts
  <2> QED
    BY <2>1, Decoded64Is DEF From64Step
<1>2. ASSUME NEW s \in Texts, \A r \in SetLessThan(s, Shorter(Byte), Texts) : r \in T PROVE s \in T
  <2>1. CASE s = <<>>
    <3>1. base64_encode[s] = <<>>
      BY <2>1, Base64Is DEF Base64Step
    <3> QED
      BY <1>1, <2>1, <3>1
  <2>2. CASE s # <<>>
    <3> DEFINE n == Len(s)
               left == SubSeq(s, 4, n)
               r == IF n > 3 THEN base64_encode[left] ELSE <<>>
               t == base64_encode[s]
    <3>1. n \in Nat \ {0}
      BY <2>2 DEF Texts
    <3>2. r \in Texts /\ (n > 3 => Decoded64[r] = left) /\ (n <= 3 => Decoded64[r] = <<>>)
      <4>1. left \in T
        <5>1. left \in SetLessThan(s, Shorter(Byte), Texts)
          BY <2>2, TheRest DEF Texts
        <5> QED
          BY <1>2, <5>1
      <4> QED
        BY <1>1, <4>1, <3>1
    <3>3. t = Quantum(s) \o r
      <4>1. t = Base64Step(base64_encode, s)
        BY Base64Is
      <4> QED
        BY <2>2, <4>1 DEF Base64Step
    <3> HIDE DEF r, t
    <3>4. /\ t \in Texts /\ t # <<>> /\ SubSeq(t, 5, Len(t)) = r
          /\ n >= 3 => FromQuantum(t) = <<s[1], s[2], s[3]>>
          /\ n = 2 => FromQuantum(t) = <<s[1], s[2]>>
          /\ n = 1 => FromQuantum(t) = <<s[1]>>
      BY <2>2, <3>2, <3>3, QuantumIsRead
    <3>5. Decoded64[t] = FromQuantum(t) \o Decoded64[r]
      <4>1. Decoded64[t] = From64Step(Decoded64, t)
        BY <3>4, Decoded64Is
      <4> QED
        BY <3>4, <4>1 DEF From64Step
    <3>6. /\ n > 3 => <<s[1], s[2], s[3]>> \o left = s
          /\ n = 3 => <<s[1], s[2], s[3]>> \o <<>> = s
          /\ n = 2 => <<s[1], s[2]>> \o <<>> = s
          /\ n = 1 => <<s[1]>> \o <<>> = s
      BY DEF Texts
    <3> HIDE DEF left
    <3>7. Decoded64[t] = s
      <4>1. n > 3 => n >= 3 /\ Decoded64[r] = left
        BY <3>1, <3>2
      <4>2. ~(n > 3) => Decoded64[r] = <<>> /\ (n = 3 \/ n = 2 \/ n = 1)
        <5> DEFINE empty == Decoded64[r] = <<>>
        <5>1. n <= 3 => empty
          BY <3>2
        <5> HIDE DEF n, empty
        <5>2. ~(n > 3) => n <= 3 /\ (n = 3 \/ n = 2 \/ n = 1)
          BY <3>1
        <5>3. ~(n > 3) => empty /\ (n = 3 \/ n = 2 \/ n = 1)
          BY <5>1, <5>2
        <5> QED
          BY <5>3 DEF empty
      <4>3. n = 3 => n >= 3
        BY <3>1
      <4> HIDE DEF n
      <4>4. n > 3 => Decoded64[t] = s
        BY <3>4, <3>5, <3>6, <4>1, Zenon
      <4>5. ~(n > 3) => Decoded64[t] = s
        BY <3>4, <3>5, <3>6, <4>2, <4>3, Zenon
      <4> QED
        BY <4>4, <4>5
    <3> QED
      BY <3>4, <3>7 DEF t
  <2> QED
    BY <2>1, <2>2
<1>3. \A s \in Texts : s \in T
  <2> HIDE DEF T
  <2> QED
    BY <1>2, TextInduction DEF Texts
<1> QED
  BY <1>3

\* Every text of bytes, of whatever length, is found again in each of its
\* encodings.
THEOREM EncodingsLoseNothing == TextSpec => []EncodingsReadBack
<1>1. CallInit => EncodingsReadBack
  BY DEF CallInit, EncodingsReadBack, NoCall
<1>2. EncodingsReadBack /\ [TextNext]_call => EncodingsReadBack'
  <2> SUFFICES ASSUME EncodingsReadBack, [TextNext]_call PROVE EncodingsReadBack'
    OBVIOUS
  <2>1. CASE Quoted
    BY <2>1 DEF Quoted, EncodingsReadBack
  <2>2. CASE Encode
    <3>1. PICK s \in SeqOf(Bytes, MaxBytes) :
            call' = [f |-> "encode", s |-> s, base64 |-> base64_encode[s], url |-> UrlEncode[s],
                     hex |-> b2a_hex[s], upper |-> string_toupper(s)]
      BY <2>2 DEF Encode
    <3>2. s \in Texts
      BY TextCallsAssumption DEF SeqOf, Texts
    <3> QED
      BY <3>1, <3>2, Base64IsRead, UrlIsRead, HexIsRead DEF EncodingsReadBack
  <2>3. CASE UNCHANGED call
    BY <2>3 DEF EncodingsReadBack
  <2> QED
    BY <2>1, <2>2, <2>3 DEF TextNext
<1> QED
  BY <1>1, <1>2, PTL DEF TextSpec

-----------------------------------------------------------------------------
(* Texts between quotes.                                                   *)

LEMMA BytesTaken ==
  ASSUME NEW s
  PROVE  utf8ToCodepoint(s).bytes \in 1 .. 4
BY DEF utf8ToCodepoint, Char, Short

EscapeStep(g, s) ==
  IF s = <<>> THEN <<>>
  ELSE IF s[1] \in DOMAIN Escapes
  THEN <<Backslash, Escapes[s[1]]>> \o g[Tail(s)]
  ELSE LET c == utf8ToCodepoint(s) IN Escaped(c.cp) \o g[SubSeq(s, c.bytes + 1, Len(s))]

LEMMA EscapedFromIs == EscapedFrom = [s \in Texts |-> EscapeStep(EscapedFrom, s)]
<1>1. WFDefOn(Shorter(Byte), Texts, EscapeStep)
  <2> SUFFICES ASSUME NEW g, NEW h, NEW s \in Texts,
                      \A y \in SetLessThan(s, Shorter(Byte), Texts) : g[y] = h[y]
               PROVE  EscapeStep(g, s) = EscapeStep(h, s)
    BY DEF WFDefOn
  <2> DEFINE n == utf8ToCodepoint(s).bytes + 1
  <2>1. n \in Nat /\ n >= 2
    BY BytesTaken
  <2>2. s # <<>> => g[Tail(s)] = h[Tail(s)] /\ g[SubSeq(s, n, Len(s))] = h[SubSeq(s, n, Len(s))]
    BY <2>1, TheRest DEF Texts
  <2> QED
    BY <2>2 DEF EscapeStep
<1>2. OpDefinesFcn(EscapedFrom, Texts, EscapeStep)
  BY DEF OpDefinesFcn, EscapedFrom, EscapeStep, Texts
<1>3. WFInductiveDefines(EscapedFrom, Texts, EscapeStep)
  BY <1>1, <1>2, TextsBecomeShorter, WFInductiveDef DEF Texts
<1> QED
  BY <1>3 DEF WFInductiveDefines

ReadStep(g, t) ==
  LET From(n) == g[SubSeq(t, n, Len(t))]
  IN  IF t = <<>> THEN <<>>
      ELSE IF t[1] = Quote THEN <<>>
      ELSE IF t[1] # Backslash THEN Prefixed(<<t[1]>>, From(2))
      ELSE IF Len(t) = 1 THEN Bad
      ELSE IF t[2] \in DOMAIN Letters THEN Prefixed(<<Letters[t[2]]>>, From(3))
      ELSE IF t[2] # U THEN Bad
      ELSE LET c == decodeUnicodeCodePoint(t, 3)
           IN  IF c.cp = -1 THEN Bad ELSE Prefixed(codePointToUTF8(c.cp), From(c.at))

LEMMA TheNextPosition ==
  ASSUME NEW t
  PROVE  decodeUnicodeCodePoint(t, 3).at \in {3, 7, 13}
BY DEF decodeUnicodeCodePoint

LEMMA decodeStringIs == decodeString = [t \in Texts |-> ReadStep(decodeString, t)]
<1>1. WFDefOn(Shorter(Byte), Texts, ReadStep)
  <2> SUFFICES ASSUME NEW g, NEW h, NEW t \in Texts,
                      \A y \in SetLessThan(t, Shorter(Byte), Texts) : g[y] = h[y]
               PROVE  ReadStep(g, t) = ReadStep(h, t)
    BY DEF WFDefOn
  <2> DEFINE Same(n) == g[SubSeq(t, n, Len(t))] = h[SubSeq(t, n, Len(t))]
  <2>1. \A n \in Nat : t # <<>> /\ n >= 2 => Same(n)
    BY TheRest DEF Texts
  <2>2. t # <<>> => Same(2) /\ Same(3) /\ Same(7) /\ Same(13)
    BY <2>1
  <2>3. t # <<>> => Same(decodeUnicodeCodePoint(t, 3).at)
    BY <2>2, TheNextPosition
  <2> QED
    BY <2>2, <2>3 DEF ReadStep
<1>2. OpDefinesFcn(decodeString, Texts, ReadStep)
  BY DEF OpDefinesFcn, decodeString, ReadStep, Texts
<1>3. WFInductiveDefines(decodeString, Texts, ReadStep)
  BY <1>1, <1>2, TextsBecomeShorter, WFInductiveDef DEF Texts
<1> QED
  BY <1>3 DEF WFInductiveDefines

Utf8Step(g, text) == IF text = <<>> THEN <<>> ELSE codePointToUTF8(text[1]) \o g[Tail(text)]

LEMMA Utf8Is == Utf8 = [text \in Seq(Known) |-> Utf8Step(Utf8, text)]
<1>1. WFDefOn(Shorter(Known), Seq(Known), Utf8Step)
  BY TheRest DEF WFDefOn, Utf8Step
<1>2. OpDefinesFcn(Utf8, Seq(Known), Utf8Step)
  BY DEF OpDefinesFcn, Utf8, Utf8Step
<1>3. WFInductiveDefines(Utf8, Seq(Known), Utf8Step)
  BY <1>1, <1>2, TextsBecomeShorter, WFInductiveDef
<1> QED
  BY <1>3 DEF WFInductiveDefines

\* What UTF-8 makes of a code point that the writer knows is read as it was,
\* whatever follows.
PointRead(cp, r) ==
  LET e == codePointToUTF8(cp)
      s == e \o r
      C == utf8ToCodepoint(s)
  IN  /\ e \in Texts /\ s \in Texts /\ s # <<>>
      /\ C.cp = cp
      /\ SubSeq(s, C.bytes + 1, Len(s)) = r
      /\ cp <= 127 => e = <<cp>> /\ s[1] = cp /\ Tail(s) = r
      /\ cp > 127 => s[1] > 127

LEMMA OneByteIsRead ==
  ASSUME NEW cp \in Nat, NEW r \in Texts, cp <= 127
  PROVE  PointRead(cp, r)
<1> DEFINE e == codePointToUTF8(cp)
           s == e \o r
           C == utf8ToCodepoint(s)
<1>1. e = <<cp>> /\ cp \in Byte
  BY DEF codePointToUTF8, Byte
<1> HIDE DEF e
<1>2. s \in Texts /\ s # <<>> /\ s[1] = cp /\ Tail(s) = r /\ SubSeq(s, 2, Len(s)) = r
  BY <1>1, OneBefore DEF Texts
<1> HIDE DEF s
<1>3. C = [cp |-> cp, bytes |-> 1]
  <2>1. cp < 128
    OBVIOUS
  <2>2. utf8ToCodepoint(s) = [cp |-> s[1], bytes |-> 1]
    BY <1>2, <2>1 DEF utf8ToCodepoint
  <2> QED
    BY <1>2, <2>2
<1> HIDE DEF C
<1>4. e \in Texts
  BY <1>1 DEF Texts
<1>5. ~(cp > 127)
  OBVIOUS
<1> QED
  BY <1>1, <1>2, <1>3, <1>4, <1>5 DEF PointRead, e, s, C

SixBits(x) ==
  x = (x \div 64) * 64 + (x % 64) /\ Trail(x) \in 128 .. 191 /\ Trail(x) % 64 = x % 64

LEMMA SixBitsHold ==
  ASSUME NEW x \in Nat
  PROVE  SixBits(x)
BY DEF Trail, SixBits

TwoParts(cp, a, b) ==
  a \in 194 .. 223 /\ b \in 128 .. 191 /\ cp = (a % 32) * 64 + (b % 64)

LEMMA TwoPartsHold ==
  ASSUME NEW cp \in Nat, cp > 127, cp <= 2047
  PROVE  TwoParts(cp, 192 + cp \div 64, Trail(cp))
BY DEF Trail, TwoParts

ThreeBytes(cp, a, b, c) ==
  /\ a \in 224 .. 239 /\ b \in 128 .. 191 /\ c \in 128 .. 191
  /\ cp = (a % 16) * 4096 + (b % 64) * 64 + (c % 64)

LEMMA ThreePartsHold ==
  ASSUME NEW cp \in Nat, cp <= 65535
  PROVE  ThreeBytes(cp, 224 + cp \div 4096, Trail(cp \div 64), Trail(cp))
BY DEF Trail, ThreeBytes

FourParts(cp, a, b, c, d) ==
  /\ a = 240 /\ b \in 128 .. 191 /\ c \in 128 .. 191 /\ d \in 128 .. 191
  /\ cp = (b % 64) * 4096 + (c % 64) * 64 + (d % 64)

FourPartsOf(cp) ==
  FourParts(cp, 240 + cp \div 262144, Trail(cp \div 4096), Trail(cp \div 64), Trail(cp))

LEMMA FourPartsHold ==
  ASSUME NEW cp \in Nat, cp < 262144
  PROVE  FourPartsOf(cp)
<1>1. cp \div 262144 = 0
  BY SMT
<1> DEFINE x == cp \div 64
           y == x \div 64
<1>2. x \in Nat /\ y \in Nat /\ y < 64 /\ y = cp \div 4096
  BY SMT
<1>3. SixBits(cp) /\ SixBits(x) /\ SixBits(y)
  BY <1>2, SixBitsHold, SMT
<1>4. Trail(cp) % 64 = cp % 64 /\ cp = x * 64 + (cp % 64) /\ Trail(cp) \in 128 .. 191
  BY <1>3, SMT DEF SixBits
<1>5. Trail(x) % 64 = x % 64 /\ x = y * 64 + (x % 64) /\ Trail(x) \in 128 .. 191
  BY <1>3, SMT DEF SixBits
<1>6. Trail(y) % 64 = y /\ Trail(y) \in 128 .. 191
  <2>1. Trail(y) % 64 = y % 64 /\ Trail(y) \in 128 .. 191
    BY <1>3, SMT DEF SixBits
  <2> HIDE DEF y
  <2> QED
    BY <1>2, <2>1, SMT
<1>7. Trail(y) = Trail(cp \div 4096)
  BY <1>2, SMT
<1> HIDE DEF x, y
<1>8. cp = (Trail(y) % 64) * 4096 + (Trail(x) % 64) * 64 + (Trail(cp) % 64)
  BY <1>2, <1>4, <1>5, <1>6, SMT
<1> QED
  BY <1>1, <1>4, <1>5, <1>6, <1>7, <1>8, SMT DEF FourPartsOf, FourParts, x

LEMMA TwoBytesAreRead ==
  ASSUME NEW cp \in Nat, NEW r \in Texts, cp > 127, cp <= 2047
  PROVE  PointRead(cp, r)
<1> DEFINE a == 192 + cp \div 64
           b == Trail(cp)
           e == codePointToUTF8(cp)
           s == e \o r
           C == utf8ToCodepoint(s)
<1>1. e = <<a, b>>
  <2>1. ~(cp <= 127) /\ cp <= 2047
    OBVIOUS
  <2> QED
    BY <2>1 DEF codePointToUTF8
<1>2. TwoParts(cp, a, b)
  BY TwoPartsHold
<1> HIDE DEF a, b, e
<1>3. a \in Byte /\ b \in Byte
  BY <1>2 DEF Byte, TwoParts
<1>4. s \in Texts /\ s # <<>> /\ s[1] = a /\ s[2] = b /\ SubSeq(s, 3, Len(s)) = r
  BY <1>1, <1>3, TwoBefore DEF Texts
<1>5. ~(a < 128) /\ a < 224 /\ ~(Len(s) < 2) /\ ~(cp < 128)
  <2>1. Len(s) = Len(r) + 2 /\ Len(r) \in Nat
    BY <1>1 DEF Texts
  <2> HIDE DEF s
  <2> QED
    BY <1>2, <2>1 DEF TwoParts
<1> HIDE DEF s
<1>6. C = [cp |-> cp, bytes |-> 2]
  <2>1. OfTwo(s) = cp
    <3>1. s[1] = a /\ s[2] = b /\ cp = (a % 32) * 64 + (b % 64)
      BY <1>2, <1>4 DEF TwoParts
    <3> QED
      BY <3>1 DEF OfTwo
  <2>2. C = Char(OfTwo(s), 2, 128)
    BY <1>4, <1>5 DEF utf8ToCodepoint
  <2> QED
    BY <1>5, <2>1, <2>2 DEF Char
<1> HIDE DEF C
<1>7. e \in Texts
  BY <1>1, <1>3 DEF Texts
<1>8. ~(cp <= 127) /\ a > 127
  BY <1>2 DEF TwoParts
<1> QED
  BY <1>4, <1>6, <1>7, <1>8 DEF PointRead, e, s, C

LEMMA ThreeBytesAreRead ==
  ASSUME NEW cp \in Nat, NEW r \in Texts, cp > 2047, cp <= 65535, cp < 57343 \/ cp = Replacement
  PROVE  PointRead(cp, r)
<1> DEFINE a == 224 + cp \div 4096
           b == Trail(cp \div 64)
           c == Trail(cp)
           e == codePointToUTF8(cp)
           s == e \o r
           C == utf8ToCodepoint(s)
<1>1. e = <<a, b, c>>
  <2>1. ~(cp <= 127) /\ ~(cp <= 2047) /\ cp <= 65535
    OBVIOUS
  <2> QED
    BY <2>1, SMT DEF codePointToUTF8
<1>2. ThreeBytes(cp, a, b, c)
  BY ThreePartsHold, SMT
<1> HIDE DEF a, b, c, e
<1>3. a \in Byte /\ b \in Byte /\ c \in Byte
  BY <1>2, SMT DEF Byte, ThreeBytes
<1>4. s \in Texts /\ s # <<>> /\ s[1] = a /\ s[2] = b /\ s[3] = c /\ SubSeq(s, 4, Len(s)) = r
  BY <1>1, <1>3, ThreeBefore, SMT DEF Texts
<1>5. ~(a < 128) /\ ~(a < 224) /\ a < 240 /\ ~(Len(s) < 3) /\ ~(cp < 2048)
  <2>1. Len(s) = Len(r) + 3 /\ Len(r) \in Nat
    BY <1>1, SMT DEF Texts
  <2> HIDE DEF s
  <2> QED
    BY <1>2, <2>1, SMT DEF ThreeBytes
<1> HIDE DEF s
<1>6. C = [cp |-> cp, bytes |-> 3]
  <2>1. OfThree(s) = cp
    <3>1. s[1] = a /\ s[2] = b /\ s[3] = c
      BY <1>4, SMT
    <3>2. cp = (a % 16) * 4096 + (b % 64) * 64 + (c % 64)
      BY <1>2, SMT DEF ThreeBytes
    <3> QED
      BY <3>1, <3>2, SMT DEF OfThree
  <2>2. C = IF OfThree(s) >= 57343 THEN [cp |-> Replacement, bytes |-> 3]
            ELSE Char(OfThree(s), 3, 2048)
    BY <1>4, <1>5, SMT DEF utf8ToCodepoint
  <2>3. cp >= 57343 => cp = Replacement
    BY SMT
  <2> QED
    BY <1>5, <2>1, <2>2, <2>3, SMT DEF Char
<1> HIDE DEF C
<1>7. e \in Texts
  BY <1>1, <1>3, SMT DEF Texts
<1>8. ~(cp <= 127) /\ a > 127
  BY <1>2, SMT DEF ThreeBytes
<1> QED
  BY <1>4, <1>6, <1>7, <1>8, SMT DEF PointRead, e, s, C

LEMMA OfFourIs ==
  ASSUME NEW s, NEW b \in Int, NEW c \in Int, NEW d \in Int,
         s[1] = 240, s[2] = b, s[3] = c, s[4] = d
  PROVE  OfFour(s) = (b % 64) * 4096 + (c % 64) * 64 + (d % 64)
BY SMT DEF OfFour

LEMMA FourBytesAreRead ==
  ASSUME NEW cp \in Nat, NEW r \in Texts, cp >= 65536, cp < 262144
  PROVE  PointRead(cp, r)
<1> DEFINE a == 240 + cp \div 262144
           b == Trail(cp \div 4096)
           c == Trail(cp \div 64)
           d == Trail(cp)
           e == codePointToUTF8(cp)
           s == e \o r
           C == utf8ToCodepoint(s)
<1>1. e = <<a, b, c, d>>
  <2>1. ~(cp <= 127) /\ ~(cp <= 2047) /\ ~(cp <= 65535) /\ cp <= 1114111
    BY SMT
  <2> QED
    BY <2>1, SMT DEF codePointToUTF8
<1>2. FourParts(cp, a, b, c, d)
  <2>1. FourPartsOf(cp)
    BY FourPartsHold, SMT
  <2> QED
    BY <2>1, SMT DEF FourPartsOf
<1> HIDE DEF a, b, c, d, e
<1>3. a \in Byte /\ b \in Byte /\ c \in Byte /\ d \in Byte
  BY <1>2, SMT DEF Byte, FourParts
<1>4. /\ s \in Texts /\ s # <<>> /\ s[1] = a /\ s[2] = b /\ s[3] = c /\ s[4] = d
      /\ SubSeq(s, 5, Len(s)) = r
  BY <1>1, <1>3, FourBefore, SMT DEF Texts
<1>5. ~(a < 128) /\ ~(a < 224) /\ ~(a < 240) /\ a < 248 /\ ~(Len(s) < 4) /\ ~(cp < 65536)
  <2>1. Len(s) = Len(r) + 4 /\ Len(r) \in Nat
    BY <1>1, SMT DEF Texts
  <2> HIDE DEF s
  <2> QED
    BY <1>2, <2>1, SMT DEF FourParts
<1> HIDE DEF s
<1>6. C = [cp |-> cp, bytes |-> 4]
  <2>1. OfFour(s) = cp
    <3>1. s[1] = 240 /\ s[2] = b /\ s[3] = c /\ s[4] = d
      BY <1>2, <1>4, SMT DEF FourParts
    <3>2. cp = (b % 64) * 4096 + (c % 64) * 64 + (d % 64)
      BY <1>2, SMT DEF FourParts
    <3> DEFINE sum == (b % 64) * 4096 + (c % 64) * 64 + (d % 64)
    <3>3. OfFour(s) = sum
      <4>1. b \in Int /\ c \in Int /\ d \in Int
        BY <1>2, SMT DEF FourParts
      <4> QED
        BY <3>1, <4>1, OfFourIs, SMT
    <3>4. cp = sum
      BY <3>2
    <3> HIDE DEF sum
    <3> QED
      BY <3>3, <3>4
  <2>2. C = Char(OfFour(s), 4, 65536)
    BY <1>4, <1>5, SMT DEF utf8ToCodepoint
  <2> QED
    BY <1>5, <2>1, <2>2, SMT DEF Char
<1> HIDE DEF C
<1>7. e \in Texts
  BY <1>1, <1>3, SMT DEF Texts
<1>8. ~(cp <= 127) /\ a > 127
  BY <1>2, SMT DEF FourParts
<1> QED
  BY <1>4, <1>6, <1>7, <1>8, SMT DEF PointRead, e, s, C

LEMMA PointIsRead ==
  ASSUME NEW cp \in Known, NEW r \in Texts
  PROVE  PointRead(cp, r)
<1>1. cp \in Nat /\ (cp < 55296 \/ cp = Replacement \/ (65536 <= cp /\ cp < 262144))
  BY SMT DEF Known
<1>2. CASE cp <= 127
  BY <1>1, <1>2, OneByteIsRead, SMT
<1>3. CASE cp > 127 /\ cp <= 2047
  BY <1>1, <1>3, TwoBytesAreRead, SMT
<1>4. CASE cp > 2047 /\ cp <= 65535
  <2>1. cp < 57343 \/ cp = Replacement
    BY <1>1, <1>4, SMT
  <2> QED
    BY <1>1, <1>4, <2>1, ThreeBytesAreRead, SMT
<1>5. CASE cp >= 65536
  <2>1. cp < 262144
    BY <1>1, <1>5, SMT DEF Replacement
  <2> QED
    BY <1>1, <1>5, <2>1, FourBytesAreRead, SMT
<1> QED
  BY <1>1, <1>2, <1>3, <1>4, <1>5, SMT

\* What the writer makes of a code point.
EscapedText(cp) == IF cp \in DOMAIN Escapes THEN <<Backslash, Escapes[cp]>> ELSE Escaped(cp)

LEMMA PointIsWritten ==
  ASSUME NEW cp \in Known, NEW r \in Texts
  PROVE  EscapedFrom[codePointToUTF8(cp) \o r] = EscapedText(cp) \o EscapedFrom[r]
<1> DEFINE e == codePointToUTF8(cp)
           s == e \o r
           C == utf8ToCodepoint(s)
<1>1. /\ s \in Texts /\ s # <<>> /\ C.cp = cp /\ SubSeq(s, C.bytes + 1, Len(s)) = r
      /\ cp <= 127 => s[1] = cp /\ Tail(s) = r
      /\ cp > 127 => s[1] > 127
  <2>1. PointRead(cp, r)
    BY PointIsRead
  <2> QED
    BY <2>1, Zenon DEF PointRead
<1>2. cp \in Nat
  BY SMT DEF Known
<1> HIDE DEF s
<1>3. EscapedFrom[s] = EscapeStep(EscapedFrom, s)
  BY <1>1, EscapedFromIs
<1>4. DOMAIN Escapes = {34, 92, 8, 9, 10, 12, 13}
  BY DEF Escapes, Quote, Backslash
<1>5. cp > 127 => cp \notin DOMAIN Escapes /\ s[1] \notin DOMAIN Escapes
  BY <1>1, <1>2, <1>4, SMT
<1>6. cp <= 127 \/ cp > 127
  BY <1>2, SMT
<1>7. CASE cp \in DOMAIN Escapes
  <2>1. cp <= 127
    BY <1>4, <1>7, SMT
  <2> QED
    BY <1>1, <1>3, <1>7, <2>1, Zenon DEF EscapeStep, EscapedText, s
<1>8. CASE cp \notin DOMAIN Escapes
  <2>1. s[1] \notin DOMAIN Escapes
    BY <1>1, <1>5, <1>6, <1>8, Zenon
  <2> QED
    BY <1>1, <1>3, <1>8, <2>1, Zenon DEF EscapeStep, EscapedText, s
<1> QED
  BY <1>7, <1>8

-----------------------------------------------------------------------------
(* Four digits of sixteen.                                                 *)

LEMMA HexDigitIsRead ==
  ASSUME NEW d \in 0 .. 15
  PROVE  Hex(d) \in HexDigits /\ Hex(d) \in Byte /\ HexValue(Hex(d)) = d
BY DEF Hex, HexDigits, HexValue, Byte

HexRead(x) ==
  \E a, b, c, d \in Byte :
    /\ toHex16Bit(x) = <<a, b, c, d>>
    /\ a \in HexDigits /\ b \in HexDigits /\ c \in HexDigits /\ d \in HexDigits
    /\ HexValue(a) * 4096 + HexValue(b) * 256 + HexValue(c) * 16 + HexValue(d) = x

LEMMA HexIsWhole ==
  ASSUME NEW x \in Nat, x < 65536
  PROVE  HexRead(x)
<1> DEFINE p == (x \div 4096) % 16
           q == (x \div 256) % 16
           m == (x \div 16) % 16
           n == x % 16
<1>1. p \in 0 .. 15 /\ q \in 0 .. 15 /\ m \in 0 .. 15 /\ n \in 0 .. 15
  BY SMT
<1>2. p * 4096 + q * 256 + m * 16 + n = x
  BY SMT
<1>3. toHex16Bit(x) = <<Hex(p), Hex(q), Hex(m), Hex(n)>>
  BY DEF toHex16Bit
<1> HIDE DEF p, q, m, n
<1>4. /\ Hex(p) \in Byte /\ Hex(q) \in Byte /\ Hex(m) \in Byte /\ Hex(n) \in Byte
      /\ Hex(p) \in HexDigits /\ Hex(q) \in HexDigits /\ Hex(m) \in HexDigits /\ Hex(n) \in HexDigits
  BY <1>1, HexDigitIsRead, SMT
<1>5. HexValue(Hex(p)) = p /\ HexValue(Hex(q)) = q /\ HexValue(Hex(m)) = m /\ HexValue(Hex(n)) = n
  BY <1>1, HexDigitIsRead, SMT
<1>6. HexValue(Hex(p)) * 4096 + HexValue(Hex(q)) * 256 + HexValue(Hex(m)) * 16 + HexValue(Hex(n)) = x
  BY <1>2, <1>5, SMT
<1> QED
  BY <1>3, <1>4, <1>6, SMT DEF HexRead

\* Four digits that are somewhere in a text.
LEMMA SequenceIsRead ==
  ASSUME NEW t \in Texts, NEW i \in Nat, i > 0, NEW a \in Byte, NEW b \in Byte, NEW c \in Byte, NEW d \in Byte,
         NEW x \in Nat,
         a \in HexDigits, b \in HexDigits, c \in HexDigits, d \in HexDigits,
         HexValue(a) * 4096 + HexValue(b) * 256 + HexValue(c) * 16 + HexValue(d) = x,
         i + 3 <= Len(t), t[i] = a, t[i + 1] = b, t[i + 2] = c, t[i + 3] = d
  PROVE  decodeUnicodeEscapeSequence(t, i) = x
<1>1. Len(t) \in Nat
  BY DEF Texts
<1>2. \A n \in i .. i + 3 : t[n] \in HexDigits
  <2>1. \A n \in i .. i + 3 : n = i \/ n = i + 1 \/ n = i + 2 \/ n = i + 3
    BY SMT
  <2> QED
    BY <2>1, SMT
<1>3. ~(i + 3 > Len(t) \/ \E n \in i .. i + 3 : t[n] \notin HexDigits)
  BY <1>1, <1>2, SMT
<1>4. decodeUnicodeEscapeSequence(t, i)
      = HexValue(t[i]) * 4096 + HexValue(t[i + 1]) * 256 + HexValue(t[i + 2]) * 16 + HexValue(t[i + 3])
  BY <1>3, SMT DEF decodeUnicodeEscapeSequence
<1> QED
  BY <1>4, SMT

LEMMA SixHere ==
  ASSUME NEW S, NEW u \in S, NEW v \in S, NEW a \in S, NEW b \in S, NEW c \in S, NEW d \in S, NEW x,
         x = <<u, v>> \o <<a, b, c, d>>
  PROVE  /\ x \in Seq(S) /\ Len(x) = 6
         /\ x[1] = u /\ x[2] = v /\ x[3] = a /\ x[4] = b /\ x[5] = c /\ x[6] = d
OBVIOUS

SixFirst(t, x, r, S) ==
  /\ t \in Seq(S) /\ t # <<>> /\ Len(t) = Len(r) + 6 /\ Len(r) \in Nat
  /\ t[1] = x[1] /\ t[2] = x[2] /\ t[3] = x[3] /\ t[4] = x[4] /\ t[5] = x[5] /\ t[6] = x[6]
  /\ \A k \in 1 .. Len(r) : t[k + 6] = r[k]
  /\ SubSeq(t, 7, Len(t)) = r

LEMMA SixBefore ==
  ASSUME NEW S, NEW r \in Seq(S), NEW x \in Seq(S), Len(x) = 6
  PROVE  SixFirst(x \o r, x, r, S)
<1> DEFINE t == x \o r
<1>1. /\ t \in Seq(S) /\ Len(t) = Len(x) + Len(r)
      /\ \A i \in 1 .. Len(x) + Len(r) : t[i] = IF i <= Len(x) THEN x[i] ELSE r[i - Len(x)]
  BY ConcatProperties
<1> HIDE DEF t
<1>2. Len(r) \in Nat /\ Len(t) = Len(r) + 6
  BY <1>1, SMT
<1>3. \A i \in 1 .. Len(r) + 6 : t[i] = IF i <= 6 THEN x[i] ELSE r[i - 6]
  BY <1>1, <1>2, SMT
<1>4. \A k \in 1 .. Len(r) : t[k + 6] = r[k]
  <2> SUFFICES ASSUME NEW k \in 1 .. Len(r) PROVE t[k + 6] = r[k]
    OBVIOUS
  <2>1. k + 6 \in 1 .. Len(r) + 6 /\ ~(k + 6 <= 6) /\ (k + 6) - 6 = k
    BY <1>2, SMT
  <2> QED
    BY <1>3, <2>1, SMT
<1>5. t[1] = x[1] /\ t[2] = x[2] /\ t[3] = x[3] /\ t[4] = x[4] /\ t[5] = x[5] /\ t[6] = x[6]
  BY <1>2, <1>3, SMT
<1>6. t # <<>>
  BY <1>2, SMT
<1>7. SubSeq(t, 7, Len(t)) = r
  <2> DEFINE z == SubSeq(t, 7, Len(t))
  <2>1. \A i \in 7 .. Len(t) : t[i] \in S
    BY <1>1, <1>2, SMT
  <2>2. /\ z \in Seq(S)
        /\ Len(z) = IF 7 <= Len(t) THEN Len(t) - 7 + 1 ELSE 0
        /\ \A i \in 1 .. Len(t) - 7 + 1 : z[i] = t[7 + i - 1]
    BY <1>2, <2>1, SubSeqProperties, SMT
  <2> HIDE DEF z
  <2>3. Len(z) = Len(r)
    BY <1>2, <2>2, SMT
  <2>4. \A i \in 1 .. Len(z) : z[i] = r[i]
    BY <1>2, <1>4, <2>2, <2>3, SMT
  <2>5. z = r
    BY <2>2, <2>3, <2>4, SeqEqual, SMT
  <2> QED
    BY <2>5 DEF z
<1> QED
  BY <1>1, <1>2, <1>4, <1>5, <1>6, <1>7 DEF t, SixFirst

LEMMA TwelveBefore ==
  ASSUME NEW S, NEW t \in Seq(S), NEW u \in Seq(S), Len(t) = Len(u) + 6,
         SubSeq(t, 7, Len(t)) = u, Len(u) >= 6
  PROVE  SubSeq(t, 13, Len(t)) = SubSeq(u, 7, Len(u))
OBVIOUS

\* A text that begins with an escape of four digits.
EscapeRead(x, w, r, t) ==
  /\ w \in Texts /\ t \in Texts /\ t # <<>> /\ Len(t) = Len(r) + 6
  /\ t[1] = Backslash /\ t[2] = U
  /\ decodeUnicodeEscapeSequence(t, 3) = x
  /\ \A k \in 1 .. Len(r) : t[k + 6] = r[k]
  /\ SubSeq(t, 7, Len(t)) = r

LEMMA EscapeIsRead ==
  ASSUME NEW r \in Texts, NEW x \in Nat, x < 65536
  PROVE  EscapeRead(x, Unicode(x), r, Unicode(x) \o r)
<1> DEFINE t == Unicode(x) \o r
<1>1. PICK a \in Byte, b \in Byte, c \in Byte, d \in Byte :
        /\ toHex16Bit(x) = <<a, b, c, d>>
        /\ a \in HexDigits /\ b \in HexDigits /\ c \in HexDigits /\ d \in HexDigits
        /\ HexValue(a) * 4096 + HexValue(b) * 256 + HexValue(c) * 16 + HexValue(d) = x
  <2>1. HexRead(x)
    BY HexIsWhole
  <2> QED
    BY <2>1, SMT DEF HexRead
<1> DEFINE w == Unicode(x)
<1>2. w = <<Backslash, U>> \o <<a, b, c, d>>
  <2>1. toHex16Bit(x) = <<a, b, c, d>>
    BY <1>1
  <2> QED
    <3>1. w = <<Backslash, U>> \o toHex16Bit(x)
      BY DEF Unicode
    <3> HIDE DEF w
    <3> QED
      BY <2>1, <3>1, SMT
<1>3. Backslash \in Byte /\ U \in Byte
  BY DEF Backslash, U, Byte
<1> HIDE DEF w, t
<1>4. /\ w \in Seq(Byte) /\ Len(w) = 6
      /\ w[1] = Backslash /\ w[2] = U /\ w[3] = a /\ w[4] = b /\ w[5] = c /\ w[6] = d
  BY <1>2, <1>3, SixHere
<1>5. r \in Seq(Byte)
  BY DEF Texts
<1>6. t = w \o r
  BY SMT DEF t, w
<1>7. /\ t \in Seq(Byte) /\ t # <<>> /\ Len(t) = Len(r) + 6 /\ Len(r) \in Nat
      /\ t[1] = Backslash /\ t[2] = U /\ t[3] = a /\ t[4] = b /\ t[5] = c /\ t[6] = d
      /\ \A k \in 1 .. Len(r) : t[k + 6] = r[k]
      /\ SubSeq(t, 7, Len(t)) = r
  <2>1. SixFirst(t, w, r, Byte)
    BY <1>4, <1>5, <1>6, SixBefore
  <2> QED
    BY <1>4, <2>1 DEF SixFirst
<1>8. decodeUnicodeEscapeSequence(t, 3) = x
  <2>1. 3 \in Nat /\ 3 > 0 /\ 3 + 3 <= Len(t) /\ t \in Texts
    BY <1>7 DEF Texts
  <2>2. t[3] = a /\ t[3 + 1] = b /\ t[3 + 2] = c /\ t[3 + 3] = d
    BY <1>7
  <2> QED
    BY <1>1, <2>1, <2>2, SequenceIsRead
<1>9. t \in Texts
  BY <1>7 DEF Texts
<1>10. w \in Texts
  BY <1>4 DEF Texts
<1> QED
  BY <1>7, <1>8, <1>9, <1>10, SMT DEF EscapeRead, t, w

LEMMA NoTextIsBad ==
  ASSUME NEW r \in Texts, NEW d
  PROVE  Prefixed(d, r) = d \o r
<1>1. r # Bad
  <2> SUFFICES ASSUME r = Bad PROVE FALSE
    OBVIOUS
  <2>1. Len(r) = 1 /\ r[1] = -1
    BY DEF Bad
  <2>2. r[1] \in Byte
    BY <2>1 DEF Texts
  <2> QED
    BY <2>1, <2>2 DEF Byte
<1> QED
  BY <1>1 DEF Prefixed

WrittenRead(cp, r) ==
  /\ EscapedText(cp) \in Texts
  /\ decodeString[EscapedText(cp) \o r] = codePointToUTF8(cp) \o decodeString[r]

LEMMA OneLetterIsRead ==
  ASSUME NEW cp \in DOMAIN Escapes, NEW r \in Texts, decodeString[r] \in Texts
  PROVE  WrittenRead(cp, r)
<1> DEFINE l == Escapes[cp]
           t == <<Backslash, l>> \o r
<1>1. cp \in {34, 92, 8, 9, 10, 12, 13}
  BY DEF Escapes, Quote, Backslash
<1>2. l \in DOMAIN Letters /\ l \in Byte /\ Letters[l] = cp
  <2>1. DOMAIN Letters = {34, 92, 47, 98, 102, 110, 114, 116}
    BY DEF Letters, Quote, Backslash
  <2>2. CASE cp = 34
    <3>1. l = 34
      BY <2>2, <1>1 DEF Escapes
    <3> QED
      BY <2>1, <2>2, <3>1 DEF Letters, Byte
  <2>3. CASE cp = 92
    <3>1. l = 92
      BY <2>3, <1>1 DEF Escapes
    <3> QED
      BY <2>1, <2>3, <3>1 DEF Letters, Byte
  <2>4. CASE cp = 8
    <3>1. l = 98
      BY <2>4, <1>1 DEF Escapes
    <3> QED
      BY <2>1, <2>4, <3>1 DEF Letters, Byte
  <2>5. CASE cp = 9
    <3>1. l = 116
      BY <2>5, <1>1 DEF Escapes
    <3> QED
      BY <2>1, <2>5, <3>1 DEF Letters, Byte
  <2>6. CASE cp = 10
    <3>1. l = 110
      BY <2>6, <1>1 DEF Escapes
    <3> QED
      BY <2>1, <2>6, <3>1 DEF Letters, Byte
  <2>7. CASE cp = 12
    <3>1. l = 102
      BY <2>7, <1>1 DEF Escapes
    <3> QED
      BY <2>1, <2>7, <3>1 DEF Letters, Byte
  <2>8. CASE cp = 13
    <3>1. l = 114
      BY <2>8, <1>1 DEF Escapes
    <3> QED
      BY <2>1, <2>8, <3>1 DEF Letters, Byte
  <2> QED
    BY <1>1, <2>2, <2>3, <2>4, <2>5, <2>6, <2>7, <2>8
<1>3. codePointToUTF8(cp) = <<cp>>
  <2>1. cp <= 127
    BY <1>1
  <2> QED
    BY <2>1 DEF codePointToUTF8
<1>4. EscapedText(cp) = <<Backslash, l>>
  BY DEF EscapedText
<1> HIDE DEF l
<1>5. Backslash \in Byte
  BY DEF Backslash, Byte
<1>6. t \in Texts /\ t # <<>> /\ t[1] = Backslash /\ t[2] = l /\ SubSeq(t, 3, Len(t)) = r
  BY <1>2, <1>5, TwoBefore DEF Texts
<1>7. Len(t) # 1
  BY DEF Texts
<1>8. EscapedText(cp) \in Texts
  BY <1>2, <1>4, <1>5 DEF Texts
<1> HIDE DEF t
<1>9. decodeString[t] = Prefixed(<<Letters[l]>>, decodeString[r])
  <2>1. decodeString[t] = ReadStep(decodeString, t)
    BY <1>6, decodeStringIs
  <2>2. Backslash # Quote
    BY DEF Backslash, Quote
  <2> QED
    BY <1>2, <1>6, <1>7, <2>1, <2>2, Zenon DEF ReadStep
<1>10. decodeString[t] = <<cp>> \o decodeString[r]
  BY <1>2, <1>9, NoTextIsBad, Zenon
<1> QED
  BY <1>3, <1>4, <1>8, <1>10, Zenon DEF WrittenRead, t

LEMMA ItselfIsRead ==
  ASSUME NEW cp \in 32 .. 127, cp \notin DOMAIN Escapes, NEW r \in Texts, decodeString[r] \in Texts
  PROVE  WrittenRead(cp, r)
<1> DEFINE t == <<cp>> \o r
<1>1. cp # Quote /\ cp # Backslash
  BY DEF Escapes
<1>2. cp \in Byte
  BY DEF Byte
<1>3. codePointToUTF8(cp) = <<cp>>
  <2>1. cp <= 127
    OBVIOUS
  <2> QED
    BY <2>1 DEF codePointToUTF8
<1>4. EscapedText(cp) = <<cp>>
  BY DEF EscapedText, Escaped
<1>5. t \in Texts /\ t # <<>> /\ t[1] = cp /\ SubSeq(t, 2, Len(t)) = r
  BY <1>2, OneBefore DEF Texts
<1>6. EscapedText(cp) \in Texts
  BY <1>2, <1>4 DEF Texts
<1> HIDE DEF t
<1>7. decodeString[t] = Prefixed(<<cp>>, decodeString[r])
  <2>1. decodeString[t] = ReadStep(decodeString, t)
    BY <1>5, decodeStringIs
  <2> QED
    BY <1>1, <1>5, <2>1, Zenon DEF ReadStep
<1>8. decodeString[t] = <<cp>> \o decodeString[r]
  BY <1>7, NoTextIsBad, Zenon
<1> QED
  BY <1>3, <1>4, <1>6, <1>8, Zenon DEF WrittenRead, t

\* A text that begins with an escape of a code point.
PrefixRead(cp, r, t) == decodeString[t] = codePointToUTF8(cp) \o decodeString[r]

LEMMA PrefixIsRead ==
  ASSUME NEW t \in Texts, t # <<>>, Len(t) # 1, t[1] = Backslash, t[2] = U, NEW cp \in Nat,
         NEW at, decodeUnicodeCodePoint(t, 3) = [cp |-> cp, at |-> at], NEW r \in Texts,
         SubSeq(t, at, Len(t)) = r, decodeString[r] \in Texts
  PROVE  PrefixRead(cp, r, t)
<1> DEFINE c == decodeUnicodeCodePoint(t, 3)
<1>1. c.cp = cp /\ c.at = at /\ c.cp # -1
  BY SMT
<1>2. Backslash # Quote /\ U \notin DOMAIN Letters
  BY DEF Backslash, Quote, U, Letters
<1>3. decodeString[t] = ReadStep(decodeString, t)
  BY decodeStringIs
<1> HIDE DEF c
<1>4. ReadStep(decodeString, t) = Prefixed(codePointToUTF8(cp), decodeString[r])
  BY <1>1, <1>2, Zenon DEF ReadStep, c
<1> QED
  BY <1>3, <1>4, NoTextIsBad, Zenon DEF PrefixRead

LEMMA FourDigitsAreRead ==
  ASSUME NEW cp \in Nat, cp < 65536, cp < 55296 \/ cp = Replacement,
         cp \notin DOMAIN Escapes, cp \notin 32 .. 127, NEW r \in Texts, decodeString[r] \in Texts
  PROVE  WrittenRead(cp, r)
<1> DEFINE w == Unicode(cp)
           t == w \o r
<1>1. EscapedText(cp) = w
  BY SMT DEF EscapedText, Escaped
<1>2. /\ w \in Texts /\ t \in Texts /\ t # <<>> /\ Len(t) = Len(r) + 6
      /\ t[1] = Backslash /\ t[2] = U
      /\ decodeUnicodeEscapeSequence(t, 3) = cp
      /\ SubSeq(t, 7, Len(t)) = r
  <2>1. EscapeRead(cp, w, r, t)
    BY EscapeIsRead, SMT
  <2> HIDE DEF w, t
  <2> QED
    BY <2>1 DEF EscapeRead
<1> HIDE DEF w, t
<1>3. decodeUnicodeCodePoint(t, 3) = [cp |-> cp, at |-> 7]
  <2>1. cp < 55296 \/ cp > 56319
    BY SMT DEF Replacement
  <2> QED
    BY <1>2, <2>1, SMT DEF decodeUnicodeCodePoint
<1>4. Len(t) # 1
  BY <1>2, SMT DEF Texts
<1>5. decodeString[t] = codePointToUTF8(cp) \o decodeString[r]
  <2>1. PrefixRead(cp, r, t)
    BY <1>2, <1>3, <1>4, PrefixIsRead, SMT
  <2> QED
    BY <2>1 DEF PrefixRead
<1> QED
  BY <1>1, <1>2, <1>5, SMT DEF WrittenRead, t

\* The two halves of a code point beyond the BMP.
LEMMA Halves ==
  ASSUME NEW cp \in Nat, cp >= 65536, cp < 262144,
         NEW x, x = (cp - 65536) \div 1024 + 55296,
         NEW y, y = ((cp - 65536) % 1024) + 56320
  PROVE  /\ x \in Nat /\ x >= 55296 /\ x <= 56319 /\ y \in Nat /\ y < 65536
         /\ 65536 + (x % 1024) * 1024 + (y % 1024) = cp
<1> DEFINE low == cp - 65536
           h   == low \div 1024
           l   == low % 1024
<1>1. low \in Nat /\ low < 196608
  BY SMT
<1> HIDE DEF low
<1>2. h \in Nat /\ h < 192 /\ l \in Nat /\ l < 1024 /\ low = h * 1024 + l
  BY <1>1, SMT
<1>3. x = h + 55296 /\ y = l + 56320
  BY SMT DEF low
<1> HIDE DEF h, l
<1>4. x % 1024 = h /\ y % 1024 = l
  BY <1>2, <1>3, SMT
<1>5. cp = low + 65536
  BY SMT DEF low
<1> QED
  BY <1>2, <1>3, <1>4, <1>5, SMT

LEMMA TwoEscapesAreRead ==
  ASSUME NEW cp \in Nat, cp >= 65536, cp < 262144, NEW r \in Texts, decodeString[r] \in Texts
  PROVE  WrittenRead(cp, r)
<1> DEFINE x == (cp - 65536) \div 1024 + 55296
           y == ((cp - 65536) % 1024) + 56320
           v == Unicode(y)
           w == Unicode(x)
           u == v \o r
           t == w \o u
<1>1. /\ x \in Nat /\ x >= 55296 /\ x <= 56319 /\ y \in Nat /\ y < 65536
      /\ 65536 + (x % 1024) * 1024 + (y % 1024) = cp
  BY Halves, SMT
<1>2. EscapedText(cp) = w \o v
  <2>1. cp \notin DOMAIN Escapes /\ ~(cp \in 32 .. 127) /\ ~(cp < 65536)
    BY SMT DEF Escapes, Quote, Backslash
  <2> QED
    BY <2>1, SMT DEF EscapedText, Escaped
<1> HIDE DEF x, y
<1>3. /\ v \in Texts /\ u \in Texts /\ u # <<>> /\ Len(u) = Len(r) + 6
      /\ u[1] = Backslash /\ u[2] = U
      /\ decodeUnicodeEscapeSequence(u, 3) = y
      /\ SubSeq(u, 7, Len(u)) = r
  <2>1. EscapeRead(y, v, r, u)
    BY <1>1, EscapeIsRead, SMT
  <2> HIDE DEF v, u
  <2> QED
    BY <2>1 DEF EscapeRead
<1> HIDE DEF v, u
<1>4. /\ w \in Texts /\ t \in Texts /\ t # <<>> /\ Len(t) = Len(u) + 6
      /\ t[1] = Backslash /\ t[2] = U
      /\ decodeUnicodeEscapeSequence(t, 3) = x
      /\ \A k \in 1 .. Len(u) : t[k + 6] = u[k]
      /\ SubSeq(t, 7, Len(t)) = u
  <2>1. x < 65536
    BY <1>1, SMT
  <2>2. EscapeRead(x, w, u, t)
    BY <1>1, <1>3, <2>1, EscapeIsRead, SMT
  <2> HIDE DEF w, t
  <2> QED
    BY <2>2 DEF EscapeRead
<1> HIDE DEF w, t
<1>5. Len(r) \in Nat /\ Len(u) \in Nat /\ Len(t) \in Nat /\ Len(u) >= 6 /\ Len(t) = Len(r) + 12
  BY <1>3, <1>4, SMT DEF Texts
<1>6. t[7] = Backslash /\ t[8] = U /\ \A k \in 3 .. 6 : t[k + 6] = u[k]
  BY <1>3, <1>4, <1>5, SMT
<1>7. decodeUnicodeEscapeSequence(t, 9) = y
  <2>1. decodeUnicodeEscapeSequence(t, 9) = decodeUnicodeEscapeSequence(u, 3)
    <3>1. ~(9 + 3 > Len(t)) /\ ~(3 + 3 > Len(u))
      BY <1>5, SMT
    <3>2. t[9] = u[3] /\ t[9 + 1] = u[3 + 1] /\ t[9 + 2] = u[3 + 2] /\ t[9 + 3] = u[3 + 3]
      BY <1>6, SMT
    <3>3. (\E n \in 9 .. 9 + 3 : t[n] \notin HexDigits) <=> (\E n \in 3 .. 3 + 3 : u[n] \notin HexDigits)
      <4>1. (\E n \in 9 .. 9 + 3 : t[n] \notin HexDigits)
              <=> (t[9] \notin HexDigits \/ t[10] \notin HexDigits \/ t[11] \notin HexDigits \/ t[12] \notin HexDigits)
        BY SMT
      <4>2. (\E n \in 3 .. 3 + 3 : u[n] \notin HexDigits)
              <=> (u[3] \notin HexDigits \/ u[4] \notin HexDigits \/ u[5] \notin HexDigits \/ u[6] \notin HexDigits)
        BY SMT
      <4> QED
        BY <3>2, <4>1, <4>2, SMT
    <3> QED
      BY <3>1, <3>2, <3>3, SMT DEF decodeUnicodeEscapeSequence
  <2> QED
    BY <1>3, <2>1
<1>8. decodeUnicodeCodePoint(t, 3) = [cp |-> cp, at |-> 13]
  <2>1. ~(x < 55296 \/ x > 56319) /\ y # -1 /\ 3 + 9 <= Len(t)
    BY <1>1, <1>5, SMT
  <2>2. 3 + 4 = 7 /\ 3 + 5 = 8 /\ 3 + 6 = 9 /\ 3 + 10 = 13
    BY SMT
  <2>3. decodeUnicodeCodePoint(t, 3) = [cp |-> 65536 + (x % 1024) * 1024 + (y % 1024), at |-> 13]
    BY <1>4, <1>6, <1>7, <2>1, <2>2, SMT DEF decodeUnicodeCodePoint
  <2> QED
    BY <1>1, <2>3, SMT
<1>9. SubSeq(t, 13, Len(t)) = r
  <2>1. SubSeq(t, 13, Len(t)) = SubSeq(u, 7, Len(u))
    BY <1>3, <1>4, <1>5, TwelveBefore DEF Texts
  <2> QED
    BY <1>3, <2>1
<1>10. decodeString[t] = codePointToUTF8(cp) \o decodeString[r]
  <2>1. Len(t) # 1
    BY <1>5, SMT
  <2> QED
    <3>1. PrefixRead(cp, r, t)
      <4>1. t \in Texts /\ t # <<>> /\ t[1] = Backslash /\ t[2] = U
        BY <1>4
      <4> QED
        BY <1>8, <1>9, <2>1, <4>1, PrefixIsRead, SMT
    <3> QED
      BY <3>1 DEF PrefixRead
<1>11. w \o v \in Texts /\ (w \o v) \o r = t
  <2>1. w \in Seq(Byte) /\ v \in Seq(Byte) /\ r \in Seq(Byte)
    BY <1>3, <1>4 DEF Texts
  <2>2. w \o v \in Seq(Byte) /\ (w \o v) \o r = w \o (v \o r)
    BY <2>1, ConcatProperties, ConcatAssociative, SMT
  <2>3. t = w \o (v \o r)
    BY SMT DEF t, u
  <2> QED
    BY <2>2, <2>3 DEF Texts
<1> QED
  BY <1>2, <1>10, <1>11, SMT DEF WrittenRead

LEMMA PointIsReadAgain ==
  ASSUME NEW cp \in Known, NEW r \in Texts, decodeString[r] \in Texts
  PROVE  WrittenRead(cp, r)
<1>1. cp \in Nat /\ (cp < 55296 \/ cp = Replacement \/ (65536 <= cp /\ cp < 262144))
  BY SMT DEF Known
<1>2. CASE cp \in DOMAIN Escapes
  BY <1>2, OneLetterIsRead
<1>3. CASE cp \notin DOMAIN Escapes /\ cp \in 32 .. 127
  BY <1>3, ItselfIsRead
<1>4. CASE cp \notin DOMAIN Escapes /\ cp \notin 32 .. 127 /\ cp < 65536
  <2>1. cp < 55296 \/ cp = Replacement
    BY <1>1, <1>4, SMT
  <2> QED
    BY <1>1, <1>4, <2>1, FourDigitsAreRead
<1>5. CASE cp >= 65536
  <2>1. cp < 262144
    BY <1>1, <1>5, SMT DEF Replacement
  <2> QED
    BY <1>1, <1>5, <2>1, TwoEscapesAreRead
<1> QED
  BY <1>1, <1>2, <1>3, <1>4, <1>5, SMT

TextRead(text) ==
  /\ Utf8[text] \in Texts /\ EscapedFrom[Utf8[text]] \in Texts
  /\ decodeString[EscapedFrom[Utf8[text]]] = Utf8[text]

LEMMA TextIsRead == \A text \in Seq(Known) : TextRead(text)
<1> DEFINE T == {text \in Seq(Known) : TextRead(text)}
<1>1. ASSUME NEW s \in Seq(Known), \A r \in SetLessThan(s, Shorter(Known), Seq(Known)) : r \in T PROVE s \in T
  <2>1. CASE s = <<>>
    <3>1. Utf8[s] = <<>>
      BY <2>1, Utf8Is DEF Utf8Step
    <3>2. <<>> \in Texts
      BY DEF Texts
    <3>3. EscapedFrom[<<>>] = <<>>
      BY <3>2, EscapedFromIs DEF EscapeStep
    <3>4. decodeString[<<>>] = <<>>
      BY <3>2, decodeStringIs DEF ReadStep
    <3>5. TextRead(s)
      BY <3>1, <3>2, <3>3, <3>4, Zenon DEF TextRead
    <3> QED
      BY <3>5
  <2>2. CASE s # <<>>
    <3> DEFINE cp == s[1]
               u  == Utf8[Tail(s)]
               e  == EscapedFrom[u]
    <3>1. cp \in Known /\ Tail(s) \in T
      BY <1>1, <2>2, FirstAndRest, TheRest
    <3>2. u \in Texts /\ e \in Texts /\ decodeString[e] = u
      BY <3>1, Zenon DEF TextRead
    <3>3. Utf8[s] = codePointToUTF8(cp) \o u
      BY <2>2, Utf8Is, Zenon DEF Utf8Step
    <3> HIDE DEF cp, u, e
    <3>4. PointRead(cp, u)
      BY <3>1, <3>2, PointIsRead, Zenon
    <3>5. Utf8[s] \in Texts
      BY <3>3, <3>4, Zenon DEF PointRead
    <3>6. EscapedFrom[Utf8[s]] = EscapedText(cp) \o e
      BY <3>1, <3>2, <3>3, PointIsWritten, Zenon DEF e
    <3>7. WrittenRead(cp, e)
      BY <3>1, <3>2, PointIsReadAgain, Zenon
    <3>8. decodeString[EscapedFrom[Utf8[s]]] = Utf8[s]
      BY <3>2, <3>3, <3>6, <3>7, Zenon DEF WrittenRead
    <3>9. EscapedText(cp) \o e \in Texts
      <4>1. EscapedText(cp) \in Seq(Byte) /\ e \in Seq(Byte)
        BY <3>2, <3>7, Zenon DEF WrittenRead, Texts
      <4> QED
        BY <4>1, ConcatProperties DEF Texts
    <3>10. TextRead(s)
      BY <3>5, <3>6, <3>8, <3>9, Zenon DEF TextRead
    <3> QED
      BY <3>10
  <2> QED
    BY <2>1, <2>2
<1>2. \A s \in Seq(Known) : s \in T
  <2> HIDE DEF T
  <2> QED
    BY <1>1, TextInduction
<1> QED
  BY <1>2

\* Between its quotes a text is as it was.
LEMMA UnquotedIs ==
  ASSUME NEW S, NEW x \in Seq(S), NEW q \in S
  PROVE  Unquoted(<<q>> \o x \o <<q>>) = x
<1> DEFINE y == <<q>> \o x
           t == y \o <<q>>
           z == SubSeq(t, 2, Len(t) - 1)
<1>1. /\ y \in Seq(S) /\ Len(y) = Len(x) + 1 /\ Len(x) \in Nat
      /\ \A i \in 1 .. Len(x) : y[i + 1] = x[i]
  BY SMT
<1> HIDE DEF y
<1>2. <<q>> \in Seq(S) /\ Len(<<q>>) = 1
  BY SMT
<1>3. /\ t \in Seq(S) /\ Len(t) = Len(y) + 1
      /\ \A i \in 1 .. Len(y) + 1 : t[i] = IF i <= Len(y) THEN y[i] ELSE <<q>>[i - Len(y)]
  BY <1>1, <1>2, ConcatProperties, SMT
<1> HIDE DEF t
<1>4. \A i \in 1 .. Len(x) : t[i + 1] = x[i]
  <2> SUFFICES ASSUME NEW i \in 1 .. Len(x) PROVE t[i + 1] = x[i]
    OBVIOUS
  <2>1. i + 1 \in 1 .. Len(y) + 1 /\ i + 1 <= Len(y)
    BY <1>1, SMT
  <2> QED
    BY <1>1, <1>3, <2>1, SMT
<1>5. /\ z \in Seq(S)
      /\ Len(z) = IF 2 <= Len(t) - 1 THEN (Len(t) - 1) - 2 + 1 ELSE 0
      /\ \A i \in 1 .. (Len(t) - 1) - 2 + 1 : z[i] = t[2 + i - 1]
  <2>1. \A i \in 2 .. Len(t) - 1 : t[i] \in S
    BY <1>1, <1>3, SMT
  <2> QED
    <3>1. 2 \in Int /\ Len(t) - 1 \in Int
      BY <1>1, <1>3, SMT
    <3> QED
      BY <2>1, <3>1, SubSeqProperties, SMT
<1> HIDE DEF z
<1>6. Len(z) = Len(x)
  BY <1>1, <1>3, <1>5, SMT
<1>7. \A i \in 1 .. Len(z) : z[i] = x[i]
  <2> SUFFICES ASSUME NEW i \in 1 .. Len(z) PROVE z[i] = x[i]
    OBVIOUS
  <2>1. i \in 1 .. Len(x) /\ i \in 1 .. (Len(t) - 1) - 2 + 1 /\ 2 + i - 1 = i + 1
    BY <1>1, <1>3, <1>6, SMT
  <2> QED
    <3>1. z[i] = t[2 + i - 1]
      BY <1>5, <2>1, SMT
    <3>2. t[2 + i - 1] = t[i + 1]
      BY <2>1, Zenon
    <3> QED
      BY <1>4, <2>1, <3>1, <3>2, Zenon
<1>8. z = x
  BY <1>5, <1>6, <1>7, SeqEqual, SMT
<1> QED
  BY <1>8 DEF Unquoted, z, t, y

\* Every string that the writer knows, of whatever length, is read back from its
\* quotes as it was.
THEOREM QuotesLoseNothing == TextSpec => []QuotedReadsBack
<1>1. CallInit => QuotedReadsBack
  BY DEF CallInit, QuotedReadsBack, NoCall
<1>2. QuotedReadsBack /\ [TextNext]_call => QuotedReadsBack'
  <2> SUFFICES ASSUME QuotedReadsBack, [TextNext]_call PROVE QuotedReadsBack'
    OBVIOUS
  <2>1. CASE Quoted
    <3> DEFINE q(text) == valueToQuotedStringN(Utf8[text])
    <3>1. PICK text \in SeqOf(CodePoints, MaxText) :
            call' = [f |-> "quote", bytes |-> Utf8[text], quoted |-> q(text),
                     read |-> decodeString[Unquoted(q(text))]]
      BY <2>1 DEF Quoted
    <3>2. text \in Seq(Known)
      BY TextCallsAssumption DEF SeqOf
    <3>3. TextRead(text)
      BY <3>2, TextIsRead
    <3>4. Unquoted(q(text)) = EscapedFrom[Utf8[text]]
      <4>1. Quote \in Byte
        BY DEF Quote, Byte
      <4>2. EscapedFrom[Utf8[text]] \in Seq(Byte)
        BY <3>3 DEF TextRead, Texts
      <4> QED
        BY <4>1, <4>2, UnquotedIs, Zenon DEF valueToQuotedStringN
    <3>5. decodeString[Unquoted(q(text))] = Utf8[text]
      BY <3>3, <3>4, Zenon DEF TextRead
    <3> HIDE DEF q
    <3> QED
      BY <3>1, <3>5 DEF QuotedReadsBack
  <2>2. CASE Encode
    BY <2>2 DEF Encode, QuotedReadsBack
  <2>3. CASE UNCHANGED call
    BY <2>3 DEF QuotedReadsBack
  <2> QED
    BY <2>1, <2>2, <2>3 DEF TextNext
<1> QED
  BY <1>1, <1>2, PTL DEF TextSpec

-----------------------------------------------------------------------------
(* Orders.                                                                 *)

\* R is a total order of E, and strict.
StrictOrder(R, E) ==
  /\ \A x, y, z \in E : <<x, y>> \in R /\ <<y, z>> \in R => <<x, z>> \in R
  /\ \A x, y \in E : ~(<<x, y>> \in R /\ <<y, x>> \in R)
  /\ \A x, y \in E : <<x, y>> \in R \/ <<y, x>> \in R \/ x = y

LEMMA MinIs ==
  ASSUME NEW S, S \subseteq Nat, S # {}
  PROVE  Min(S) \in S /\ \A y \in S : Min(S) <= y
<1>1. PICK x \in S : \A y \in S : ~(y < x)
  BY LeastNatural
<1>2. \A y \in S : x <= y
  BY <1>1
<1>3. \E z \in S : \A y \in S : z <= y
  BY <1>2
<1> QED
  BY <1>3 DEF Min

-----------------------------------------------------------------------------
(* The order of texts.                                                     *)

Alike(s, t, n) == \A j \in 1 .. n : s[j] = t[j]

\* What memcmp finds: nothing, or the first difference.
Finds(s, t, n) ==
  \/ memcmp(s, t, n) = 0 /\ Alike(s, t, n)
  \/ \E i \in 1 .. n : Alike(s, t, i - 1) /\ s[i] # t[i] /\ memcmp(s, t, n) = s[i] - t[i]

LEMMA memcmpFinds ==
  ASSUME NEW s \in Seq(Nat), NEW t \in Seq(Nat), NEW n \in Nat, n <= Len(s), n <= Len(t)
  PROVE  Finds(s, t, n)
<1> DEFINE differ == {i \in 1 .. n : s[i] # t[i]}
<1>1. CASE differ = {}
  BY <1>1 DEF Finds, memcmp, Alike
<1>2. CASE differ # {}
  <2> DEFINE i == Min(differ)
  <2>4. differ \subseteq Nat
    OBVIOUS
  <2>2. memcmp(s, t, n) = s[i] - t[i]
    BY <1>2 DEF memcmp
  <2> HIDE DEF differ
  <2>5. Min(differ) \in differ /\ \A y \in differ : Min(differ) <= y
    BY <1>2, <2>4, MinIs
  <2> HIDE DEF i
  <2>6. i \in differ /\ \A y \in differ : i <= y
    BY <2>5 DEF i
  <2>1. i \in 1 .. n /\ s[i] # t[i] /\ \A y \in 1 .. n : s[y] # t[y] => i <= y
    BY <2>6 DEF differ
  <2>3. \A j \in 1 .. i - 1 : s[j] = t[j]
    <3> TAKE j \in 1 .. i - 1
    <3>1. j \in 1 .. n /\ ~(i <= j)
      BY <2>1
    <3> QED
      BY <2>1, <3>1
  <2> QED
    BY <2>1, <2>2, <2>3 DEF Finds, Alike
<1> QED
  BY <1>1, <1>2

\* s comes before t for what is at i: s ends there, or has less.
LessAt(s, t, i) ==
  /\ i \in Nat \ {0} /\ i <= Len(t) /\ i <= Len(s) + 1 /\ Alike(s, t, i - 1)
  /\ i <= Len(s) => s[i] < t[i]

LEMMA ShorterLength ==
  ASSUME NEW s \in Seq(Nat), NEW t \in Seq(Nat)
  PROVE  LET m == Min({Len(s), Len(t)})
         IN  m \in Nat /\ m <= Len(s) /\ m <= Len(t) /\ (m = Len(s) \/ m = Len(t))
<1>1. {Len(s), Len(t)} \subseteq Nat /\ {Len(s), Len(t)} # {}
  OBVIOUS
<1> QED
  BY <1>1, MinIs

LEMMA BytesLessIs ==
  ASSUME NEW s \in Seq(Nat), NEW t \in Seq(Nat)
  PROVE  BytesLess(s, t) <=> \E i \in Nat : LessAt(s, t, i)
<1> DEFINE m == Min({Len(s), Len(t)})
           comp == memcmp(s, t, m)
<1>1. m \in Nat /\ m <= Len(s) /\ m <= Len(t) /\ (m = Len(s) \/ m = Len(t))
  BY ShorterLength
<1>2. BytesLess(s, t) <=> comp < 0 \/ (comp = 0 /\ Len(s) < Len(t))
  BY DEF BytesLess
<1>7. Len(s) \in Nat /\ Len(t) \in Nat /\ \A i \in 1 .. m : s[i] \in Nat /\ t[i] \in Nat
  BY <1>1
<1>8. Finds(s, t, m)
  BY <1>1, memcmpFinds
<1> HIDE DEF m
<1>3. \/ comp = 0 /\ Alike(s, t, m)
      \/ \E i \in 1 .. m : Alike(s, t, i - 1) /\ s[i] # t[i] /\ comp = s[i] - t[i]
  BY <1>8 DEF Finds
<1> HIDE DEF comp
<1>4. CASE comp = 0 /\ Alike(s, t, m)
  <2>1. ASSUME Len(s) < Len(t) PROVE LessAt(s, t, Len(s) + 1)
    BY <1>1, <1>4, <1>7, <2>1 DEF LessAt, Alike
  <2>2. ASSUME NEW i \in Nat, LessAt(s, t, i) PROVE Len(s) < Len(t)
    BY <1>1, <1>4, <1>7, <2>2 DEF LessAt, Alike
  <2> QED
    BY <1>2, <1>4, <1>7, <2>1, <2>2
<1>5. ASSUME NEW i \in 1 .. m, Alike(s, t, i - 1), s[i] # t[i], comp = s[i] - t[i]
      PROVE  BytesLess(s, t) <=> \E k \in Nat : LessAt(s, t, k)
  <2>1. s[i] \in Nat /\ t[i] \in Nat /\ i \in Nat \ {0} /\ i <= Len(s) /\ i <= Len(t)
    BY <1>1, <1>7
  <2>2. BytesLess(s, t) <=> s[i] < t[i]
    BY <1>2, <1>5, <2>1
  <2>3. s[i] < t[i] => LessAt(s, t, i)
    BY <1>5, <1>7, <2>1 DEF LessAt
  <2>4. ASSUME NEW k \in Nat, LessAt(s, t, k) PROVE s[i] < t[i]
    <3>1. k = i
      BY <1>5, <1>7, <2>1, <2>4 DEF LessAt, Alike
    <3> QED
      BY <2>1, <2>4, <3>1 DEF LessAt
  <2> QED
    BY <2>1, <2>2, <2>3, <2>4
<1> QED
  BY <1>3, <1>4, <1>5

TextOrder == {p \in Seq(Nat) \X Seq(Nat) : BytesLess(p[1], p[2])}

LEMMA TextsAreOrdered == StrictOrder(TextOrder, Seq(Nat))
<1>1. ASSUME NEW s \in Seq(Nat), NEW t \in Seq(Nat), NEW u \in Seq(Nat),
             BytesLess(s, t), BytesLess(t, u)
      PROVE  BytesLess(s, u)
  <2>1. PICK i \in Nat : LessAt(s, t, i)
    BY <1>1, BytesLessIs
  <2>2. PICK j \in Nat : LessAt(t, u, j)
    BY <1>1, BytesLessIs
  <2>3. /\ Len(s) \in Nat /\ Len(t) \in Nat /\ Len(u) \in Nat
        /\ \A k \in 1 .. Len(s) : s[k] \in Nat
        /\ \A k \in 1 .. Len(t) : t[k] \in Nat
        /\ \A k \in 1 .. Len(u) : u[k] \in Nat
    OBVIOUS
  <2>6. /\ i \in Nat \ {0} /\ i <= Len(t) /\ i <= Len(s) + 1 /\ \A k \in 1 .. i - 1 : s[k] = t[k]
        /\ i <= Len(s) => s[i] < t[i]
    BY <2>1 DEF LessAt, Alike
  <2>7. /\ j \in Nat \ {0} /\ j <= Len(u) /\ j <= Len(t) + 1 /\ \A k \in 1 .. j - 1 : t[k] = u[k]
        /\ j <= Len(t) => t[j] < u[j]
    BY <2>2 DEF LessAt, Alike
  <2>4. CASE i <= j
    <3>2. /\ i \in Nat \ {0} /\ i <= Len(t) /\ i <= Len(u) /\ i <= Len(s) + 1
          /\ \A k \in 1 .. i - 1 : s[k] = t[k] /\ t[k] = u[k]
      <4>1. i <= Len(u)
        BY <2>3, <2>4, <2>7
      <4>2. ASSUME NEW k \in 1 .. i - 1 PROVE t[k] = u[k]
        <5>1. k \in 1 .. j - 1
          BY <2>4
        <5> QED
          BY <2>7, <5>1
      <4> QED
        BY <2>6, <4>1, <4>2
    <3>3. i <= Len(s) => s[i] < t[i] /\ t[i] <= u[i]
      <4>1. ASSUME i = j PROVE t[i] < u[i]
        <5>1. j <= Len(t)
          BY <3>2, <4>1
        <5>2. t[j] < u[j]
          BY <2>7, <5>1
        <5> QED
          BY <4>1, <5>2, Zenon
      <4>2. i < j => t[i] = u[i]
        <5>1. i < j => i \in 1 .. j - 1
          BY <2>6, <2>7
        <5> QED
          BY <2>7, <5>1
      <4>3. t[i] \in Nat /\ u[i] \in Nat
        BY <2>3, <3>2
      <4> QED
        BY <2>4, <2>6, <4>1, <4>2, <4>3
    <3>4. i <= Len(s) => s[i] < u[i]
      BY <2>3, <3>2, <3>3
    <3>1. LessAt(s, u, i)
      BY <3>2, <3>4 DEF LessAt, Alike
    <3> QED
      BY <3>1, BytesLessIs
  <2>5. CASE j < i
    <3>2. j \in 1 .. i - 1 /\ j <= Len(s) /\ j <= Len(t)
      BY <2>3, <2>5, <2>6, <2>7
    <3>3. s[j] = t[j] /\ t[j] < u[j]
      BY <2>6, <2>7, <3>2
    <3>4. \A k \in 1 .. j - 1 : s[k] = u[k]
      <4> TAKE k \in 1 .. j - 1
      <4>1. k \in 1 .. i - 1
        BY <2>5, <2>6, <2>7
      <4> QED
        BY <2>6, <2>7, <4>1
    <3>1. LessAt(s, u, j)
      BY <2>3, <2>7, <3>2, <3>3, <3>4 DEF LessAt, Alike
    <3> QED
      BY <3>1, BytesLessIs
  <2> QED
    BY <2>4, <2>5
<1>2. ASSUME NEW s \in Seq(Nat), NEW t \in Seq(Nat), BytesLess(s, t), BytesLess(t, s)
      PROVE  FALSE
  <2>1. PICK i \in Nat : LessAt(s, t, i)
    BY <1>2, BytesLessIs
  <2>2. PICK j \in Nat : LessAt(t, s, j)
    BY <1>2, BytesLessIs
  <2>3. /\ Len(s) \in Nat /\ Len(t) \in Nat
        /\ \A k \in 1 .. Len(s) : s[k] \in Nat
        /\ \A k \in 1 .. Len(t) : t[k] \in Nat
    OBVIOUS
  <2>4. /\ i \in Nat \ {0} /\ i <= Len(t) /\ i <= Len(s) + 1 /\ \A k \in 1 .. i - 1 : s[k] = t[k]
        /\ i <= Len(s) => s[i] < t[i]
    BY <2>1 DEF LessAt, Alike
  <2>5. /\ j \in Nat \ {0} /\ j <= Len(s) /\ j <= Len(t) + 1 /\ \A k \in 1 .. j - 1 : t[k] = s[k]
        /\ j <= Len(t) => t[j] < s[j]
    BY <2>2 DEF LessAt, Alike
  <2>6. CASE i = j
    <3>1. s[i] \in Nat /\ t[i] \in Nat
      BY <2>3, <2>4, <2>5, <2>6
    <3> QED
      BY <2>4, <2>5, <2>6, <3>1
  <2>7. CASE i < j
    <3>1. i \in 1 .. j - 1 /\ i <= Len(s) /\ s[i] \in Nat /\ t[i] \in Nat
      BY <2>3, <2>4, <2>5, <2>7
    <3> QED
      BY <2>4, <2>5, <3>1
  <2>8. CASE j < i
    <3>1. j \in 1 .. i - 1 /\ j <= Len(t) /\ s[j] \in Nat /\ t[j] \in Nat
      BY <2>3, <2>4, <2>5, <2>8
    <3> QED
      BY <2>4, <2>5, <3>1
  <2> QED
    BY <2>4, <2>5, <2>6, <2>7, <2>8
<1>3. ASSUME NEW s \in Seq(Nat), NEW t \in Seq(Nat), ~BytesLess(s, t), ~BytesLess(t, s)
      PROVE  s = t
  <2>3. /\ Len(s) \in Nat /\ Len(t) \in Nat
        /\ \A k \in 1 .. Len(s) : s[k] \in Nat
        /\ \A k \in 1 .. Len(t) : t[k] \in Nat
    OBVIOUS
  <2> DEFINE T == {i \in Nat \ {0} : ~(i <= Len(s) /\ i <= Len(t) /\ s[i] = t[i])}
  <2>1. Len(s) + 1 \in T /\ T \subseteq Nat
    BY <2>3
  <2>2. PICK i \in T : \A j \in T : ~(j < i)
    BY <2>1, LeastNatural
  <2>4. /\ i \in Nat \ {0} /\ ~(i <= Len(s) /\ i <= Len(t) /\ s[i] = t[i])
        /\ \A j \in 1 .. i - 1 : j <= Len(s) /\ j <= Len(t) /\ s[j] = t[j]
    <3>1. \A j \in 1 .. i - 1 : j \in Nat \ {0} /\ j < i
      OBVIOUS
    <3> QED
      BY <2>2, <3>1
  <2> HIDE DEF T
  <2>5. i <= Len(s) + 1 /\ i <= Len(t) + 1 /\ Alike(s, t, i - 1) /\ Alike(t, s, i - 1)
    <3>1. i # 1 => i - 1 \in 1 .. i - 1
      BY <2>4
    <3> QED
      BY <2>3, <2>4, <3>1 DEF Alike
  <2>6. ~LessAt(s, t, i) /\ ~LessAt(t, s, i)
    BY <1>3, <2>4, BytesLessIs
  <2>7. i = Len(s) + 1 /\ i = Len(t) + 1
    BY <2>3, <2>4, <2>5, <2>6 DEF LessAt
  <2>8. Len(s) = Len(t) /\ \A j \in 1 .. Len(s) : s[j] = t[j]
    BY <2>3, <2>4, <2>7
  <2> QED
    BY <2>8, SeqEqual
<1> QED
  BY <1>1, <1>2, <1>3 DEF StrictOrder, TextOrder

LEMMA BytesEqualIs ==
  ASSUME NEW s \in Seq(Nat), NEW t \in Seq(Nat)
  PROVE  BytesEqual(s, t) <=> s = t
<1>1. CASE Len(s) = Len(t)
  <2> DEFINE n == Len(s)
  <2>1. n \in Nat /\ Finds(s, t, n) /\ \A i \in 1 .. n : s[i] \in Nat /\ t[i] \in Nat
    BY <1>1, memcmpFinds
  <2> HIDE DEF n
  <2>2. memcmp(s, t, n) = 0 <=> \A i \in 1 .. n : s[i] = t[i]
    BY <2>1 DEF Finds, Alike
  <2>3. (\A i \in 1 .. n : s[i] = t[i]) <=> s = t
    BY <1>1, SeqEqual DEF n
  <2> QED
    BY <1>1, <2>2, <2>3 DEF BytesEqual, n
<1>2. CASE Len(s) # Len(t)
  BY <1>2 DEF BytesEqual
<1> QED
  BY <1>1, <1>2

-----------------------------------------------------------------------------
(* The order of lists of equal length.                                     *)

LexLess(R, a, b, n) ==
  \E i \in 1 .. n : <<a[i], b[i]>> \in R /\ \A j \in 1 .. i - 1 : <<b[j], a[j]>> \notin R

\* At i, and the same before.
FirstAt(R, a, b, n, i) ==
  i \in 1 .. n /\ <<a[i], b[i]>> \in R /\ \A j \in 1 .. i - 1 : a[j] = b[j]

LEMMA LexIs ==
  ASSUME NEW E, NEW R, StrictOrder(R, E), NEW n \in Nat, NEW a \in [1 .. n -> E], NEW b \in [1 .. n -> E]
  PROVE  LexLess(R, a, b, n) <=> \E i \in Nat : FirstAt(R, a, b, n, i)
<1>1. ASSUME NEW i \in Nat, FirstAt(R, a, b, n, i) PROVE LexLess(R, a, b, n)
  <2>1. \A j \in 1 .. i - 1 : j \in 1 .. n
    BY <1>1 DEF FirstAt
  <2>2. \A x \in E : <<x, x>> \notin R
    BY DEF StrictOrder
  <2>3. \A j \in 1 .. i - 1 : <<b[j], a[j]>> \notin R
    BY <1>1, <2>1, <2>2 DEF FirstAt
  <2> QED
    BY <1>1, <2>3 DEF FirstAt, LexLess
<1>2. ASSUME LexLess(R, a, b, n) PROVE \E i \in Nat : FirstAt(R, a, b, n, i)
  <2>1. PICK i \in 1 .. n : <<a[i], b[i]>> \in R /\ \A j \in 1 .. i - 1 : <<b[j], a[j]>> \notin R
    BY <1>2 DEF LexLess
  <2> DEFINE T == {k \in 1 .. n : <<a[k], b[k]>> \in R}
  <2>2. T \subseteq Nat /\ i \in T
    BY <2>1
  <2>3. PICK k \in T : \A j \in T : ~(j < k)
    BY <2>2, LeastNatural
  <2>4. k \in 1 .. n /\ <<a[k], b[k]>> \in R /\ k <= i
    BY <2>2, <2>3
  <2>5. \A j \in 1 .. k - 1 : j \in 1 .. n /\ j \in 1 .. i - 1 /\ <<a[j], b[j]>> \notin R
    BY <2>3, <2>4
  <2>6. \A j \in 1 .. k - 1 : a[j] = b[j]
    BY <2>1, <2>5 DEF StrictOrder
  <2>7. FirstAt(R, a, b, n, k) /\ k \in Nat
    BY <2>4, <2>6 DEF FirstAt
  <2> QED
    BY <2>7
<1> QED
  BY <1>1, <1>2

LexOrder(R, E, n) ==
  {p \in [1 .. n -> E] \X [1 .. n -> E] : LexLess(R, p[1], p[2], n)}

LEMMA ListsAreOrdered ==
  ASSUME NEW E, NEW R, StrictOrder(R, E), NEW n \in Nat
  PROVE  StrictOrder(LexOrder(R, E, n), [1 .. n -> E])
<1> DEFINE L == [1 .. n -> E]
<1>1. ASSUME NEW a \in L, NEW b \in L, NEW c \in L, LexLess(R, a, b, n), LexLess(R, b, c, n)
      PROVE  LexLess(R, a, c, n)
  <2>1. PICK i \in Nat : FirstAt(R, a, b, n, i)
    BY <1>1, LexIs
  <2>2. PICK j \in Nat : FirstAt(R, b, c, n, j)
    BY <1>1, LexIs
  <2>3. CASE i <= j
    <3>1. i \in 1 .. n /\ <<a[i], b[i]>> \in R /\ (b[i] = c[i] \/ <<b[i], c[i]>> \in R)
      <4>1. CASE i = j
        BY <2>1, <2>2, <4>1 DEF FirstAt
      <4>2. CASE i < j
        BY <2>1, <2>2, <4>2 DEF FirstAt
      <4> QED
        BY <2>3, <4>1, <4>2
    <3>2. <<a[i], c[i]>> \in R
      BY <3>1 DEF StrictOrder
    <3>3. FirstAt(R, a, c, n, i)
      BY <2>1, <2>2, <2>3, <3>2 DEF FirstAt
    <3> QED
      BY <3>3, LexIs
  <2>4. CASE j < i
    <3>1. j \in 1 .. n /\ a[j] = b[j] /\ <<b[j], c[j]>> \in R
      BY <2>1, <2>2, <2>4 DEF FirstAt
    <3>3. FirstAt(R, a, c, n, j)
      BY <2>1, <2>2, <2>4, <3>1 DEF FirstAt
    <3> QED
      BY <3>3, LexIs
  <2> QED
    BY <2>3, <2>4
<1>2. ASSUME NEW a \in L, NEW b \in L, LexLess(R, a, b, n), LexLess(R, b, a, n) PROVE FALSE
  <2>1. PICK i \in Nat : FirstAt(R, a, b, n, i)
    BY <1>2, LexIs
  <2>2. PICK j \in Nat : FirstAt(R, b, a, n, j)
    BY <1>2, LexIs
  <2>3. \A x, y \in E : ~(<<x, y>> \in R /\ <<y, x>> \in R)
    BY DEF StrictOrder
  <2>4. \A k \in 1 .. n : a[k] \in E /\ b[k] \in E
    OBVIOUS
  <2>5. CASE i = j
    BY <2>1, <2>2, <2>3, <2>4, <2>5 DEF FirstAt
  <2>6. CASE i < j
    BY <2>1, <2>2, <2>3, <2>4, <2>6 DEF FirstAt
  <2>7. CASE j < i
    BY <2>1, <2>2, <2>3, <2>4, <2>7 DEF FirstAt
  <2> QED
    BY <2>5, <2>6, <2>7
<1>3. ASSUME NEW a \in L, NEW b \in L, ~LexLess(R, a, b, n), ~LexLess(R, b, a, n) PROVE a = b
  <2> SUFFICES ASSUME NEW k \in 1 .. n, a[k] # b[k] PROVE FALSE
    OBVIOUS
  <2> DEFINE T == {j \in 1 .. n : a[j] # b[j]}
  <2>1. T \subseteq Nat /\ k \in T
    OBVIOUS
  <2>2. PICK i \in T : \A j \in T : ~(j < i)
    BY <2>1, LeastNatural
  <2>3. i \in 1 .. n /\ a[i] # b[i] /\ \A j \in 1 .. i - 1 : a[j] = b[j]
    BY <2>2
  <2>4. <<a[i], b[i]>> \in R \/ <<b[i], a[i]>> \in R
    BY <2>3 DEF StrictOrder
  <2>5. FirstAt(R, a, b, n, i) \/ FirstAt(R, b, a, n, i)
    BY <2>3, <2>4 DEF FirstAt
  <2>6. i \in Nat
    BY <2>3
  <2> HIDE DEF T
  <2>7. CASE FirstAt(R, a, b, n, i)
    BY <1>3, <2>6, <2>7, LexIs
  <2>8. CASE FirstAt(R, b, a, n, i)
    BY <1>3, <2>6, <2>8, LexIs
  <2> QED
    BY <2>5, <2>7, <2>8
<1> HIDE DEF L
<1> QED
  BY <1>1, <1>2, <1>3 DEF StrictOrder, LexOrder, L

-----------------------------------------------------------------------------
(* What is finite can be put in order.                                     *)

\* A list of the elements of S, none of them less than one before it.
Lists(s, S, R) ==
  LET n == Cardinality(S)
  IN  /\ s \in [1 .. n -> S] /\ {s[i] : i \in 1 .. n} = S
      /\ \A i, j \in 1 .. n : i < j => <<s[j], s[i]>> \notin R

\* No element is greater.
GreatestOf(x, S, R) == x \in S /\ \A y \in S : <<x, y>> \notin R

LEMMA SomeGreatest ==
  ASSUME NEW K, NEW R, StrictOrder(R, K)
  PROVE  \A S \in SUBSET K : IsFiniteSet(S) /\ S # {} => \E x \in K : GreatestOf(x, S, R)
<1> DEFINE N == {n \in Nat : \A S \in SUBSET K :
                   IsFiniteSet(S) /\ S # {} /\ Cardinality(S) = n => \E x \in K : GreatestOf(x, S, R)}
<1>1. 0 \in N
  BY FS_EmptySet
<1>2. ASSUME NEW n \in Nat, n \in N PROVE n + 1 \in N
  <2> SUFFICES ASSUME NEW S \in SUBSET K, IsFiniteSet(S), S # {}, Cardinality(S) = n + 1
               PROVE  \E x \in K : GreatestOf(x, S, R)
    OBVIOUS
  <2>1. PICK z \in S : TRUE
    OBVIOUS
  <2> DEFINE Q == S \ {z}
  <2>2. Q \in SUBSET K /\ IsFiniteSet(Q) /\ Cardinality(Q) = n
    <3>1. IsFiniteSet(S \ {z}) /\ Cardinality(S \ {z}) = Cardinality(S) - 1
      BY <2>1, FS_RemoveElement, Zenon
    <3>2. Q \in SUBSET K
      OBVIOUS
    <3> QED
      BY <3>1, <3>2
  <2>3. S = Q \cup {z} /\ z \in K
    BY <2>1
  <2>4. Q # {} => \E x \in K : GreatestOf(x, Q, R)
    BY <1>2, <2>2
  <2> HIDE DEF Q
  <2>5. CASE Q = {}
    <3>1. GreatestOf(z, S, R)
      BY <2>3, <2>5 DEF GreatestOf, StrictOrder
    <3> QED
      BY <2>3, <3>1
  <2>6. CASE Q # {}
    <3>1. PICK x \in K : GreatestOf(x, Q, R)
      BY <2>4, <2>6
    <3>2. CASE <<x, z>> \in R
      <4>1. \A y \in S : <<z, y>> \notin R
        BY <2>2, <2>3, <3>1, <3>2 DEF GreatestOf, StrictOrder
      <4> QED
        BY <2>3, <4>1 DEF GreatestOf
    <3>3. CASE <<x, z>> \notin R
      BY <2>3, <3>1, <3>3 DEF GreatestOf
    <3> QED
      BY <3>2, <3>3
  <2> QED
    BY <2>5, <2>6
<1> HIDE DEF N
<1>3. \A n \in Nat : n \in N
  BY <1>1, <1>2, Induction
<1> QED
  BY <1>3, FS_CardinalityType DEF N

LEMMA SomeList ==
  ASSUME NEW K, NEW R, StrictOrder(R, K)
  PROVE  \A S \in SUBSET K : IsFiniteSet(S) => \E s : Lists(s, S, R)
<1> DEFINE N == {n \in Nat : \A S \in SUBSET K :
                   IsFiniteSet(S) /\ Cardinality(S) = n => \E s : Lists(s, S, R)}
<1>1. 0 \in N
  <2> SUFFICES ASSUME NEW S \in SUBSET K, IsFiniteSet(S), Cardinality(S) = 0
               PROVE  \E s : Lists(s, S, R)
    OBVIOUS
  <2>1. S = {}
    BY FS_EmptySet
  <2>2. Lists([i \in 1 .. 0 |-> i], S, R)
    BY <2>1 DEF Lists
  <2> QED
    BY <2>2
<1>2. ASSUME NEW n \in Nat, n \in N PROVE n + 1 \in N
  <2> SUFFICES ASSUME NEW S \in SUBSET K, IsFiniteSet(S), Cardinality(S) = n + 1
               PROVE  \E s : Lists(s, S, R)
    OBVIOUS
  <2>1. S # {}
    BY FS_EmptySet
  <2>2. PICK z \in K : GreatestOf(z, S, R)
    BY <2>1, SomeGreatest
  <2> DEFINE Q == S \ {z}
  <2>3. z \in S
    BY <2>2 DEF GreatestOf
  <2>4. Q \in SUBSET K /\ IsFiniteSet(Q) /\ Cardinality(Q) = n
    <3>1. IsFiniteSet(S \ {z}) /\ Cardinality(S \ {z}) = Cardinality(S) - 1
      BY <2>3, FS_RemoveElement, Zenon
    <3>2. Q \in SUBSET K
      OBVIOUS
    <3> QED
      BY <3>1, <3>2
  <2>5. PICK q : Lists(q, Q, R)
    BY <1>2, <2>4
  <2>6. S = Q \cup {z}
    BY <2>3
  <2> HIDE DEF Q
  <2>7. /\ q \in [1 .. n -> Q] /\ {q[i] : i \in 1 .. n} = Q
        /\ \A i, j \in 1 .. n : i < j => <<q[j], q[i]>> \notin R
    BY <2>4, <2>5 DEF Lists
  <2> DEFINE s == [i \in 1 .. n + 1 |-> IF i = n + 1 THEN z ELSE q[i]]
  <2>8. s \in [1 .. n + 1 -> S]
    BY <2>6, <2>7
  <2>9. {s[i] : i \in 1 .. n + 1} = S
    <3>1. \A x \in S : \E i \in 1 .. n + 1 : s[i] = x
      <4> SUFFICES ASSUME NEW x \in S PROVE \E i \in 1 .. n + 1 : s[i] = x
        OBVIOUS
      <4>1. CASE x = z
        <5>1. n + 1 \in 1 .. n + 1 /\ s[n + 1] = x
          BY <4>1
        <5> QED
          BY <5>1
      <4>2. CASE x \in Q
        <5>1. PICK i \in 1 .. n : q[i] = x
          BY <2>7, <4>2
        <5>2. i \in 1 .. n + 1 /\ s[i] = x
          BY <5>1
        <5> QED
          BY <5>2
      <4> QED
        BY <2>6, <4>1, <4>2
    <3> HIDE DEF s
    <3> QED
      BY <2>8, <3>1
  <2>10. ASSUME NEW i \in 1 .. n + 1, NEW j \in 1 .. n + 1, i < j PROVE <<s[j], s[i]>> \notin R
    <3>1. i \in 1 .. n /\ s[i] = q[i] /\ q[i] \in S
      BY <2>6, <2>7, <2>10
    <3>2. CASE j = n + 1
      BY <2>2, <3>1, <3>2 DEF GreatestOf
    <3>3. CASE j # n + 1
      BY <2>7, <2>10, <3>1, <3>3
    <3> QED
      BY <3>2, <3>3
  <2> HIDE DEF s
  <2>11. Lists(s, S, R)
    BY <2>8, <2>9, <2>10 DEF Lists
  <2> QED
    BY <2>11
<1> HIDE DEF N
<1>3. \A n \in Nat : n \in N
  BY <1>1, <1>2, Induction
<1> QED
  BY <1>3, FS_CardinalityType DEF N

-----------------------------------------------------------------------------
(* The entries of arrays and objects.                                      *)

KeysOf(type) == IF type = "array" THEN Nat ELSE Seq(Nat)
KeyOrder(type) == {p \in KeysOf(type) \X KeysOf(type) : KeyLess(type, p[1], p[2])}

LEMMA KeysAreOrdered ==
  ASSUME NEW type
  PROVE  StrictOrder(KeyOrder(type), KeysOf(type))
<1>1. CASE type = "array"
  BY <1>1 DEF StrictOrder, KeyOrder, KeysOf, KeyLess
<1>2. CASE type # "array"
  BY <1>2, TextsAreOrdered DEF StrictOrder, TextOrder, KeyOrder, KeysOf, KeyLess
<1> QED
  BY <1>1, <1>2

\* The Values that are less deep.
Within(m) == {v \in Comparables : Nesting[v] < m}
EntriesOf(type, m) == [key : KeysOf(type), value : Within(m)]

\* What a container holds.
HoldsMap(v) ==
  /\ FiniteMap(Content(v), KeysOf(v.type))
  /\ \A k \in DOMAIN Content(v) : Content(v)[k] \in Within(Nesting[v])
  /\ v = IF v.type = "array" THEN Array(Content(v)) ELSE Object(Content(v))

LEMMA ContainersHold ==
  ASSUME NEW v \in Comparables, IsContainer(v)
  PROVE  HoldsMap(v)
<1>1. ComparableOf(v) /\ \A k \in DOMAIN Content(v) : Content(v)[k] \in Within(Nesting[v])
  BY OrderAssumption DEF Within
<1>2. CASE v.type = "array"
  BY <1>1, <1>2 DEF HoldsMap, KeysOf, Content, ComparableOf
<1>3. CASE v.type = "object"
  BY <1>1, <1>3 DEF HoldsMap, KeysOf, Content, ComparableOf
<1> QED
  BY <1>2, <1>3 DEF IsContainer

\* Its entries are all that it holds.
Listed(v) ==
  LET n == Len(Entries(v))
  IN  /\ n \in Nat /\ Entries(v) \in [1 .. n -> EntriesOf(v.type, Nesting[v])]
      /\ {Entries(v)[i].key : i \in 1 .. n} = DOMAIN Content(v)
      /\ \A i \in 1 .. n : Entries(v)[i].value = Content(v)[Entries(v)[i].key]

LEMMA EntriesAre ==
  ASSUME NEW v \in Comparables, IsContainer(v)
  PROVE  Listed(v)
<1> DEFINE map == Content(v)
           D == DOMAIN map
           n == Cardinality(D)
           K == KeysOf(v.type)
           R == KeyOrder(v.type)
           InOrder(s) == /\ {s[i] : i \in 1 .. n} = D
                         /\ \A i, j \in 1 .. n : i < j => ~KeyLess(v.type, s[j], s[i])
           keys == CHOOSE s \in [1 .. n -> D] : InOrder(s)
<1>1. D \in SUBSET K /\ IsFiniteSet(D) /\ \A k \in D : map[k] \in Within(Nesting[v])
  BY ContainersHold DEF HoldsMap, FiniteMap
<1>2. n \in Nat
  BY <1>1, FS_CardinalityType
<1>3. \E s \in [1 .. n -> D] : InOrder(s)
  <2>1. PICK s : Lists(s, D, R)
    BY <1>1, KeysAreOrdered, SomeList
  <2>2. /\ s \in [1 .. n -> D] /\ {s[i] : i \in 1 .. n} = D
        /\ \A i, j \in 1 .. n : i < j => <<s[j], s[i]>> \notin R
    BY <2>1 DEF Lists
  <2>3. \A k, l \in D : <<k, l>> \in R <=> KeyLess(v.type, k, l)
    BY <1>1 DEF KeyOrder
  <2> HIDE DEF R, n, D
  <2>4. \A i, j \in 1 .. n : i < j => ~KeyLess(v.type, s[j], s[i])
    BY <2>2, <2>3
  <2> QED
    BY <2>2, <2>4
<1>4. keys \in [1 .. n -> D] /\ {keys[i] : i \in 1 .. n} = D
  BY <1>3
<1>5. Entries(v) = [i \in 1 .. n |-> [key |-> keys[i], value |-> map[keys[i]]]]
  BY DEF Entries
<1> HIDE DEF keys, n, K, D, R, InOrder
<1>6. \A i \in 1 .. n : /\ keys[i] \in K /\ map[keys[i]] \in Within(Nesting[v])
                        /\ Entries(v)[i] = [key |-> keys[i], value |-> map[keys[i]]]
                        /\ Entries(v)[i].key = keys[i]
  BY <1>1, <1>4, <1>5
<1> HIDE DEF map
<1>7. Entries(v) \in [1 .. n -> EntriesOf(v.type, Nesting[v])]
  BY <1>5, <1>6 DEF EntriesOf, K
<1>8. Len(Entries(v)) = n
  BY <1>2, <1>7
<1>9. {Entries(v)[i].key : i \in 1 .. n} = D
  <2>1. \A i \in 1 .. n : Entries(v)[i].key = keys[i]
    BY <1>6
  <2> QED
    BY <1>4, <2>1
<1> QED
  BY <1>2, <1>6, <1>7, <1>8, <1>9 DEF Listed, D, map

LEMMA EntriesTell ==
  ASSUME NEW v \in Comparables, NEW w \in Comparables, IsContainer(v), v.type = w.type,
         Entries(v) = Entries(w)
  PROVE  v = w
<1>1. Listed(v) /\ Listed(w) /\ HoldsMap(v) /\ HoldsMap(w)
  BY EntriesAre, ContainersHold DEF IsContainer
<1> DEFINE e == Entries(v)
           n == Len(e)
<1>2. /\ {e[i].key : i \in 1 .. n} = DOMAIN Content(v)
      /\ {e[i].key : i \in 1 .. n} = DOMAIN Content(w)
      /\ \A i \in 1 .. n : e[i].value = Content(v)[e[i].key] /\ e[i].value = Content(w)[e[i].key]
  BY <1>1 DEF Listed
<1> HIDE DEF e, n
<1>3. DOMAIN Content(v) = DOMAIN Content(w)
  BY <1>2
<1>4. \A k \in DOMAIN Content(v) : Content(v)[k] = Content(w)[k]
  <2> TAKE k \in DOMAIN Content(v)
  <2>1. PICK i \in 1 .. n : k = e[i].key
    BY <1>2
  <2> QED
    BY <1>2, <2>1
<1>5. Content(v) = Content(w)
  BY <1>1, <1>3, <1>4 DEF HoldsMap, FiniteMap
<1> QED
  BY <1>1, <1>5 DEF HoldsMap

-----------------------------------------------------------------------------
(* operator< and operator== as equations.                                  *)

Both == Comparables \X Comparables
Depths == [p \in Both |-> Nesting[p[1]] + Nesting[p[2]]]

LessStep(g, p) ==
  LET v == p[1]
      w == p[2]
      a == Entries(v)
      b == Entries(w)
      Sooner(x, y) == \/ KeyLess(v.type, x.key, y.key)
                      \/ ~KeyLess(v.type, y.key, x.key) /\ g[<<x.value, y.value>>]
  IN  CASE v.type # w.type -> Rank(v) < Rank(w)
        [] v.type = w.type /\ v.type = "null" -> FALSE
        [] v.type = w.type /\ v.type = "string" -> BytesLess(v.text, w.text)
        [] v.type = w.type /\ IsContainer(v) ->
             IF Len(a) # Len(b) THEN Len(a) < Len(b)
             ELSE \E i \in 1 .. Len(a) :
                    Sooner(a[i], b[i]) /\ \A j \in 1 .. i - 1 : ~Sooner(b[j], a[j])
        [] OTHER -> v.n < w.n

EqualStep(g, p) ==
  LET v == p[1]
      w == p[2]
      a == Entries(v)
      b == Entries(w)
      Same(x, y) == KeyEqual(v.type, x.key, y.key) /\ g[<<x.value, y.value>>]
  IN  CASE v.type # w.type -> FALSE
        [] v.type = w.type /\ v.type = "null" -> TRUE
        [] v.type = w.type /\ v.type = "string" -> BytesEqual(v.text, w.text)
        [] v.type = w.type /\ IsContainer(v) ->
             Len(a) = Len(b) /\ \A i \in 1 .. Len(a) : Same(a[i], b[i])
        [] OTHER -> v.n = w.n

\* The Values in two containers are less deep together.
LEMMA PartsAreLess ==
  ASSUME NEW v \in Comparables, NEW w \in Comparables, IsContainer(v), IsContainer(w)
  PROVE  \A i \in 1 .. Len(Entries(v)), j \in 1 .. Len(Entries(w)) :
           LET x == Entries(v)[i].value
               y == Entries(w)[j].value
           IN  /\ <<x, y>> \in SetLessThan(<<v, w>>, Smaller(Depths, Both), Both)
               /\ <<y, x>> \in SetLessThan(<<v, w>>, Smaller(Depths, Both), Both)
<1> TAKE i \in 1 .. Len(Entries(v)), j \in 1 .. Len(Entries(w))
<1> DEFINE x == Entries(v)[i].value
           y == Entries(w)[j].value
<1>1. x \in Within(Nesting[v]) /\ y \in Within(Nesting[w])
  BY EntriesAre DEF Listed, EntriesOf
<1> HIDE DEF x, y
<1>2. /\ x \in Comparables /\ y \in Comparables /\ Nesting[x] < Nesting[v] /\ Nesting[y] < Nesting[w]
      /\ \A z \in {v, w, x, y} : Nesting[z] \in Nat
  BY <1>1, OrderAssumption DEF Within
<1>3. Nesting[x] + Nesting[y] < Nesting[v] + Nesting[w] /\ Nesting[y] + Nesting[x] < Nesting[v] + Nesting[w]
  BY <1>2
<1>4. /\ <<x, y>> \in SetLessThan(<<v, w>>, Smaller(Depths, Both), Both)
      /\ <<y, x>> \in SetLessThan(<<v, w>>, Smaller(Depths, Both), Both)
  BY <1>2, <1>3 DEF SetLessThan, Smaller, Depths, Both
<1> QED
  BY <1>4 DEF x, y

LEMMA LessIs == Less = [p \in Both |-> LessStep(Less, p)]
<1>1. Depths \in [Both -> Nat]
  BY OrderAssumption DEF Depths, Both
<1>2. IsWellFoundedOn(Smaller(Depths, Both), Both)
  BY <1>1, MeasureIsWellFounded
<1>3. WFDefOn(Smaller(Depths, Both), Both, LessStep)
  <2> SUFFICES ASSUME NEW g, NEW h, NEW p \in Both,
                      \A y \in SetLessThan(p, Smaller(Depths, Both), Both) : g[y] = h[y]
               PROVE  LessStep(g, p) = LessStep(h, p)
    BY DEF WFDefOn
  <2>3. PICK v \in Comparables, w \in Comparables : p = <<v, w>>
    BY DEF Both
  <2>1. ASSUME v.type = w.type, IsContainer(v) PROVE LessStep(g, <<v, w>>) = LessStep(h, <<v, w>>)
    <3> DEFINE a == Entries(v)
               b == Entries(w)
               Got(f, x, y) == f[<<x.value, y.value>>]
    <3>1. \A i \in 1 .. Len(a), j \in 1 .. Len(b) : Got(g, a[i], b[j]) = Got(h, a[i], b[j])
                                                 /\ Got(g, b[j], a[i]) = Got(h, b[j], a[i])
      BY <2>1, <2>3, PartsAreLess DEF IsContainer
    <3>2. Len(a) \in Nat /\ Len(b) \in Nat
      BY <2>1, EntriesAre DEF Listed, IsContainer
    <3> HIDE DEF a, b
    <3> QED
      BY <2>1, <3>1, <3>2 DEF LessStep, IsContainer, a, b
  <2>2. ASSUME ~(v.type = w.type /\ IsContainer(v)) PROVE LessStep(g, <<v, w>>) = LessStep(h, <<v, w>>)
    BY <2>2 DEF LessStep
  <2> QED
    BY <2>1, <2>2, <2>3
<1>4. OpDefinesFcn(Less, Both, LessStep)
  BY DEF OpDefinesFcn, Less, LessStep, Both
<1>5. WFInductiveDefines(Less, Both, LessStep)
  BY <1>2, <1>3, <1>4, WFInductiveDef
<1> QED
  BY <1>5 DEF WFInductiveDefines

LEMMA EqualIs == Equal = [p \in Both |-> EqualStep(Equal, p)]
<1>1. Depths \in [Both -> Nat]
  BY OrderAssumption DEF Depths, Both
<1>2. IsWellFoundedOn(Smaller(Depths, Both), Both)
  BY <1>1, MeasureIsWellFounded
<1>3. WFDefOn(Smaller(Depths, Both), Both, EqualStep)
  <2> SUFFICES ASSUME NEW g, NEW h, NEW p \in Both,
                      \A y \in SetLessThan(p, Smaller(Depths, Both), Both) : g[y] = h[y]
               PROVE  EqualStep(g, p) = EqualStep(h, p)
    BY DEF WFDefOn
  <2>3. PICK v \in Comparables, w \in Comparables : p = <<v, w>>
    BY DEF Both
  <2>1. ASSUME v.type = w.type, IsContainer(v) PROVE EqualStep(g, <<v, w>>) = EqualStep(h, <<v, w>>)
    <3> DEFINE a == Entries(v)
               b == Entries(w)
               Got(f, x, y) == f[<<x.value, y.value>>]
    <3>1. \A i \in 1 .. Len(a), j \in 1 .. Len(b) : Got(g, a[i], b[j]) = Got(h, a[i], b[j])
      BY <2>1, <2>3, PartsAreLess DEF IsContainer
    <3>2. Len(a) \in Nat /\ Len(b) \in Nat
      BY <2>1, EntriesAre DEF Listed, IsContainer
    <3> HIDE DEF a, b
    <3> QED
      BY <2>1, <3>1, <3>2 DEF EqualStep, IsContainer, a, b
  <2>2. ASSUME ~(v.type = w.type /\ IsContainer(v)) PROVE EqualStep(g, <<v, w>>) = EqualStep(h, <<v, w>>)
    BY <2>2 DEF EqualStep
  <2> QED
    BY <2>1, <2>2, <2>3
<1>4. OpDefinesFcn(Equal, Both, EqualStep)
  BY DEF OpDefinesFcn, Equal, EqualStep, Both
<1>5. WFInductiveDefines(Equal, Both, EqualStep)
  BY <1>2, <1>3, <1>4, WFInductiveDef
<1> QED
  BY <1>5 DEF WFInductiveDefines

-----------------------------------------------------------------------------
(* Values that are less deep are ordered, and so their containers.         *)

ValueOrder(m) == {p \in Within(m) \X Within(m) : Less[p]}

EntryLess(type, x, y) ==
  \/ KeyLess(type, x.key, y.key)
  \/ ~KeyLess(type, y.key, x.key) /\ Less[<<x.value, y.value>>]

EntryOrder(type, m) ==
  {p \in EntriesOf(type, m) \X EntriesOf(type, m) : EntryLess(type, p[1], p[2])}

LEMMA EntriesAreOrdered ==
  ASSUME NEW m \in Nat, NEW type, StrictOrder(ValueOrder(m), Within(m))
  PROVE  StrictOrder(EntryOrder(type, m), EntriesOf(type, m))
<1> DEFINE E == EntriesOf(type, m)
           K == KeyOrder(type)
           V == ValueOrder(m)
           R == EntryOrder(type, m)
<1>1. \A x \in E : x.key \in KeysOf(type) /\ x.value \in Within(m)
  BY DEF EntriesOf
<1>2. \A x, y \in E : x.key = y.key /\ x.value = y.value => x = y
  BY DEF EntriesOf
<1>3. \A x, y \in E : KeyLess(type, x.key, y.key) <=> <<x.key, y.key>> \in K
  BY <1>1 DEF KeyOrder
<1>4. \A x, y \in E : Less[<<x.value, y.value>>] <=> <<x.value, y.value>> \in V
  BY <1>1 DEF ValueOrder
<1>5. \A x, y \in E : <<x, y>> \in R <=> \/ <<x.key, y.key>> \in K
                                         \/ <<y.key, x.key>> \notin K /\ <<x.value, y.value>> \in V
  BY <1>3, <1>4 DEF EntryOrder, EntryLess
<1>6. StrictOrder(K, KeysOf(type)) /\ StrictOrder(V, Within(m))
  BY KeysAreOrdered
<1> HIDE DEF E, K, V, R
<1>7. \A x, y \in E : /\ <<x.key, y.key>> \in K => <<y.key, x.key>> \notin K
                      /\ <<x.key, y.key>> \in K \/ <<y.key, x.key>> \in K \/ x.key = y.key
                      /\ <<x.value, y.value>> \in V => <<y.value, x.value>> \notin V
                      /\ <<x.value, y.value>> \in V \/ <<y.value, x.value>> \in V \/ x.value = y.value
  BY <1>1, <1>6 DEF StrictOrder
<1>8. \A x, y, z \in E : /\ <<x.key, y.key>> \in K /\ <<y.key, z.key>> \in K => <<x.key, z.key>> \in K
                         /\ <<x.value, y.value>> \in V /\ <<y.value, z.value>> \in V => <<x.value, z.value>> \in V
  BY <1>1, <1>6 DEF StrictOrder
<1>9. \A x, y \in E : <<x, y>> \in R <=> \/ <<x.key, y.key>> \in K
                                         \/ x.key = y.key /\ <<x.value, y.value>> \in V
  BY <1>5, <1>7
<1>10. StrictOrder(R, E)
  <2>1. ASSUME NEW x \in E, NEW y \in E, NEW z \in E, <<x, y>> \in R, <<y, z>> \in R
        PROVE  <<x, z>> \in R
    <3>1. CASE x.key = y.key
      BY <1>8, <1>9, <2>1, <3>1
    <3>2. CASE x.key # y.key
      BY <1>8, <1>9, <2>1, <3>2
    <3> QED
      BY <3>1, <3>2
  <2>2. ASSUME NEW x \in E, NEW y \in E, <<x, y>> \in R, <<y, x>> \in R PROVE FALSE
    BY <1>7, <1>9, <2>2
  <2>3. ASSUME NEW x \in E, NEW y \in E PROVE <<x, y>> \in R \/ <<y, x>> \in R \/ x = y
    <3>1. x.key = y.key /\ x.value = y.value => x = y
      BY <1>2
    <3>2. /\ <<x.key, y.key>> \in K \/ <<y.key, x.key>> \in K \/ x.key = y.key
          /\ <<x.value, y.value>> \in V \/ <<y.value, x.value>> \in V \/ x.value = y.value
      BY <1>7
    <3>3. /\ <<x, y>> \in R <=> (<<x.key, y.key>> \in K \/ (x.key = y.key /\ <<x.value, y.value>> \in V))
          /\ <<y, x>> \in R <=> (<<y.key, x.key>> \in K \/ (y.key = x.key /\ <<y.value, x.value>> \in V))
      BY <1>9
    <3> QED
      BY <3>1, <3>2, <3>3
  <2> QED
    BY <2>1, <2>2, <2>3 DEF StrictOrder
<1> QED
  BY <1>10 DEF E, R

\* The types, and what each holds.
Types == {"null", "int", "uint", "real", "string", "boolean", "array", "object"}
NumberTypes == {"int", "uint", "real", "boolean"}

LEMMA RankIs ==
  ASSUME NEW v, v.type \in Types
  PROVE  Rank(v) \in 1 .. 8 /\ ValueTypes[Rank(v)] = v.type
<1>1. ValueTypes = [i \in 1 .. 8 |-> ValueTypes[i]] /\ DOMAIN ValueTypes = 1 .. 8
  BY DEF ValueTypes
<1>2. \E i \in 1 .. 8 : ValueTypes[i] = v.type
  BY DEF ValueTypes, Types
<1> HIDE DEF ValueTypes
<1> QED
  BY <1>1, <1>2 DEF Rank

LEMMA ComparablesAre ==
  ASSUME NEW v \in Comparables
  PROVE  /\ v.type \in Types
         /\ v.type = "null" => v = Null
         /\ v.type = "string" => v \in [type : {"string"}, text : Seq(Nat)]
         /\ v.type \in NumberTypes => v \in [type : NumberTypes, n : Int]
<1>1. ComparableOf(v)
  BY OrderAssumption
<1> QED
  BY <1>1 DEF ComparableOf, Types, NumberTypes

LEMMA LessOfTwo ==
  ASSUME NEW v \in Comparables, NEW w \in Comparables
  PROVE  /\ v.type # w.type => (Less[<<v, w>>] <=> Rank(v) < Rank(w))
         /\ v.type = w.type /\ v.type = "null" => ~Less[<<v, w>>]
         /\ v.type = w.type /\ v.type = "string" => (Less[<<v, w>>] <=> BytesLess(v.text, w.text))
         /\ v.type = w.type /\ v.type \in NumberTypes => (Less[<<v, w>>] <=> v.n < w.n)
<1>1. <<v, w>> \in Both
  BY DEF Both
<1>2. Less[<<v, w>>] = LessStep(Less, <<v, w>>)
  BY <1>1, LessIs
<1> QED
  BY <1>2 DEF LessStep, NumberTypes, IsContainer

LEMMA LessOfContainers ==
  ASSUME NEW m \in Nat, NEW v \in Within(m + 1), NEW w \in Within(m + 1), IsContainer(v), v.type = w.type
  PROVE  LET a == Entries(v)
             b == Entries(w)
         IN  /\ Len(a) \in Nat /\ a \in [1 .. Len(a) -> EntriesOf(v.type, m)]
             /\ Len(b) \in Nat /\ b \in [1 .. Len(b) -> EntriesOf(v.type, m)]
             /\ Less[<<v, w>>] <=> IF Len(a) # Len(b) THEN Len(a) < Len(b)
                                   ELSE LexLess(EntryOrder(v.type, m), a, b, Len(a))
<1> DEFINE a == Entries(v)
           b == Entries(w)
           E == EntriesOf(v.type, m)
<1>1. v \in Comparables /\ w \in Comparables /\ <<v, w>> \in Both
  BY DEF Within, Both
<1>2. Listed(v) /\ Listed(w)
  BY <1>1, EntriesAre DEF IsContainer
<1>3. Within(Nesting[v]) \subseteq Within(m) /\ Within(Nesting[w]) \subseteq Within(m)
  <2>1. Nesting \in [Comparables -> Nat]
    BY OrderAssumption
  <2>2. \A x \in Comparables : Nesting[x] \in Nat
    BY <2>1
  <2> QED
    BY <2>2 DEF Within
<1>4. EntriesOf(v.type, Nesting[v]) \subseteq E /\ EntriesOf(v.type, Nesting[w]) \subseteq E
  BY <1>3 DEF EntriesOf
<1>5. /\ Len(a) \in Nat /\ a \in [1 .. Len(a) -> E]
      /\ Len(b) \in Nat /\ b \in [1 .. Len(b) -> E]
  BY <1>2, <1>4 DEF Listed
<1>6. Less[<<v, w>>] = LessStep(Less, <<v, w>>)
  BY <1>1, LessIs
<1>7. Less[<<v, w>>] <=>
        IF Len(a) # Len(b) THEN Len(a) < Len(b)
        ELSE \E i \in 1 .. Len(a) : /\ EntryLess(v.type, a[i], b[i])
                                    /\ \A j \in 1 .. i - 1 : ~EntryLess(v.type, b[j], a[j])
  <2>1. v.type \notin {"null", "string"} /\ w.type = v.type
    BY DEF IsContainer
  <2>2. LessStep(Less, <<v, w>>) =
          IF Len(a) # Len(b) THEN Len(a) < Len(b)
          ELSE \E i \in 1 .. Len(a) : /\ EntryLess(v.type, a[i], b[i])
                                      /\ \A j \in 1 .. i - 1 : ~EntryLess(v.type, b[j], a[j])
    BY <2>1 DEF LessStep, EntryLess
  <2> QED
    BY <1>6, <2>2
<1> HIDE DEF a, b
<1>8. Len(a) = Len(b) =>
        \A i \in 1 .. Len(a) : /\ <<a[i], b[i]>> \in EntryOrder(v.type, m) <=> EntryLess(v.type, a[i], b[i])
                               /\ <<b[i], a[i]>> \in EntryOrder(v.type, m) <=> EntryLess(v.type, b[i], a[i])
  BY <1>5 DEF EntryOrder
<1>9. ASSUME Len(a) = Len(b)
      PROVE  Less[<<v, w>>] <=> LexLess(EntryOrder(v.type, m), a, b, Len(a))
  <2>1. \A i \in 1 .. Len(a) : \A j \in 1 .. i - 1 : j \in 1 .. Len(a)
    BY <1>5
  <2> QED
    BY <1>7, <1>8, <1>9, <2>1 DEF LexLess
<1> QED
  BY <1>5, <1>7, <1>9 DEF a, b

\* Values of a type.
OfType(type, m) == {v \in Within(m) : v.type = type}

\* Where less deep Values are ordered, the deeper ones of a type are.
LEMMA TypeIsOrdered ==
  ASSUME NEW m \in Nat, StrictOrder(ValueOrder(m), Within(m)), NEW type \in Types
  PROVE  StrictOrder(ValueOrder(m + 1), OfType(type, m + 1))
<1> DEFINE T == OfType(type, m + 1)
           R == ValueOrder(m + 1)
<1>1. \A v \in T : v \in Comparables /\ v \in Within(m + 1) /\ v.type = type
  BY DEF OfType, Within
<1>2. \A v, w \in T : <<v, w>> \in R <=> Less[<<v, w>>]
  BY <1>1 DEF ValueOrder
<1> HIDE DEF T, R
<1>3. CASE type = "null"
  <2>1. \A v, w \in T : <<v, w>> \notin R /\ v = w
    BY <1>1, <1>2, <1>3, LessOfTwo, ComparablesAre
  <2> QED
    BY <2>1 DEF StrictOrder, T, R
<1>4. CASE type = "string"
  <2>1. \A v \in T : v \in [type : {"string"}, text : Seq(Nat)]
    BY <1>1, <1>4, ComparablesAre
  <2>2. \A v \in T : v.text \in Seq(Nat)
    BY <2>1
  <2>3. \A v, w \in T : v.text = w.text => v = w
    BY <2>1
  <2>4. \A v, w \in T : <<v, w>> \in R <=> BytesLess(v.text, w.text)
    BY <1>1, <1>2, <1>4, LessOfTwo
  <2>5. \A v, w \in T : <<v, w>> \in R <=> <<v.text, w.text>> \in TextOrder
    BY <2>2, <2>4 DEF TextOrder
  <2>6. StrictOrder(R, T)
    BY <2>2, <2>3, <2>5, TextsAreOrdered DEF StrictOrder
  <2> QED
    BY <2>6 DEF T, R
<1>5. CASE type \in NumberTypes
  <2>1. \A v \in T : v \in [type : NumberTypes, n : Int]
    BY <1>1, <1>5, ComparablesAre
  <2>2. \A v \in T : v.n \in Int
    BY <2>1
  <2>3. \A v, w \in T : v.n = w.n => v = w
    BY <1>1, <2>1
  <2>4. \A v, w \in T : <<v, w>> \in R <=> v.n < w.n
    BY <1>1, <1>2, <1>5, LessOfTwo
  <2>5. StrictOrder(R, T)
    BY <2>2, <2>3, <2>4 DEF StrictOrder
  <2> QED
    BY <2>5 DEF T, R
<1>6. CASE type \in {"array", "object"}
  <2> DEFINE E == EntriesOf(type, m)
             O == EntryOrder(type, m)
             n(v) == Len(Entries(v))
             L(k) == LexOrder(O, E, k)
  <2>1. \A v \in T : n(v) \in Nat /\ Entries(v) \in [1 .. n(v) -> E]
    BY <1>1, <1>6, LessOfContainers DEF IsContainer
  <2>2. \A v, w \in T : <<v, w>> \in R <=> IF n(v) # n(w) THEN n(v) < n(w)
                                           ELSE LexLess(O, Entries(v), Entries(w), n(v))
    BY <1>1, <1>2, <1>6, LessOfContainers DEF IsContainer
  <2>3. \A v, w \in T : Entries(v) = Entries(w) => v = w
    BY <1>1, <1>6, EntriesTell DEF IsContainer
  <2>4. \A k \in Nat : StrictOrder(L(k), [1 .. k -> E])
    BY EntriesAreOrdered, ListsAreOrdered
  <2> HIDE DEF E, O, n
  <2>5. \A v, w \in T : n(v) = n(w) => (<<v, w>> \in R <=> <<Entries(v), Entries(w)>> \in L(n(v)))
    BY <2>1, <2>2 DEF LexOrder
  <2>6. \A v, w \in T : n(v) # n(w) => (<<v, w>> \in R <=> n(v) < n(w))
    BY <2>2
  <2> HIDE DEF L
  <2>7. ASSUME NEW u \in T, NEW v \in T, NEW w \in T, <<u, v>> \in R, <<v, w>> \in R
        PROVE  <<u, w>> \in R
    <3>1. CASE n(u) = n(v) /\ n(v) = n(w)
      <4>1. StrictOrder(L(n(u)), [1 .. n(u) -> E])
        BY <2>1, <2>4
      <4>2. /\ Entries(u) \in [1 .. n(u) -> E] /\ Entries(v) \in [1 .. n(u) -> E]
            /\ Entries(w) \in [1 .. n(u) -> E]
        BY <2>1, <3>1
      <4>3. <<Entries(u), Entries(v)>> \in L(n(u)) /\ <<Entries(v), Entries(w)>> \in L(n(u))
        BY <2>5, <2>7, <3>1
      <4>4. <<Entries(u), Entries(w)>> \in L(n(u))
        BY <4>1, <4>2, <4>3 DEF StrictOrder
      <4> QED
        BY <2>5, <3>1, <4>4
    <3>2. CASE ~(n(u) = n(v) /\ n(v) = n(w))
      BY <2>1, <2>6, <2>7, <3>2
    <3> QED
      BY <3>1, <3>2
  <2>8. ASSUME NEW v \in T, NEW w \in T, <<v, w>> \in R, <<w, v>> \in R PROVE FALSE
    <3>1. CASE n(v) = n(w)
      <4>1. StrictOrder(L(n(v)), [1 .. n(v) -> E])
        BY <2>1, <2>4
      <4>2. Entries(v) \in [1 .. n(v) -> E] /\ Entries(w) \in [1 .. n(v) -> E]
        BY <2>1, <3>1
      <4>3. <<Entries(v), Entries(w)>> \in L(n(v)) /\ <<Entries(w), Entries(v)>> \in L(n(v))
        BY <2>5, <2>8, <3>1
      <4> QED
        BY <4>1, <4>2, <4>3 DEF StrictOrder
    <3>2. CASE n(v) # n(w)
      BY <2>1, <2>6, <2>8, <3>2
    <3> QED
      BY <3>1, <3>2
  <2>9. ASSUME NEW v \in T, NEW w \in T PROVE <<v, w>> \in R \/ <<w, v>> \in R \/ v = w
    <3>1. CASE n(v) = n(w)
      <4>1. StrictOrder(L(n(v)), [1 .. n(v) -> E])
        BY <2>1, <2>4
      <4>2. Entries(v) \in [1 .. n(v) -> E] /\ Entries(w) \in [1 .. n(v) -> E]
        BY <2>1, <3>1
      <4>3. \/ <<Entries(v), Entries(w)>> \in L(n(v)) \/ <<Entries(w), Entries(v)>> \in L(n(v))
            \/ Entries(v) = Entries(w)
        BY <4>1, <4>2 DEF StrictOrder
      <4> QED
        BY <2>3, <2>5, <3>1, <4>3
    <3>2. CASE n(v) # n(w)
      BY <2>1, <2>6, <3>2
    <3> QED
      BY <3>1, <3>2
  <2>10. StrictOrder(R, T)
    BY <2>7, <2>8, <2>9 DEF StrictOrder
  <2> QED
    BY <2>10 DEF T, R
<1> QED
  BY <1>3, <1>4, <1>5, <1>6 DEF Types, NumberTypes

LEMMA DeeperAreOrdered ==
  ASSUME NEW m \in Nat, StrictOrder(ValueOrder(m), Within(m))
  PROVE  StrictOrder(ValueOrder(m + 1), Within(m + 1))
<1> DEFINE W == Within(m + 1)
           R == ValueOrder(m + 1)
<1>1. \A v \in W : v \in Comparables /\ v.type \in Types
  BY ComparablesAre DEF Within
<1>2. \A v, w \in W : <<v, w>> \in R <=> Less[<<v, w>>]
  BY DEF ValueOrder
<1>3. \A v, w \in W : v.type # w.type => (<<v, w>> \in R <=> Rank(v) < Rank(w))
  BY <1>1, <1>2, LessOfTwo
<1>4. \A v \in W : Rank(v) \in 1 .. 8 /\ ValueTypes[Rank(v)] = v.type
  BY <1>1, RankIs
<1>5. \A v, w \in W : v.type = w.type <=> Rank(v) = Rank(w)
  BY <1>4 DEF Rank
<1>6. \A type \in Types : StrictOrder(R, OfType(type, m + 1))
  BY TypeIsOrdered
<1>7. \A v \in W : v \in OfType(v.type, m + 1)
  BY DEF OfType
<1> HIDE DEF W, R
<1>8. ASSUME NEW u \in W, NEW v \in W, NEW w \in W, <<u, v>> \in R, <<v, w>> \in R
      PROVE  <<u, w>> \in R
  <2>1. CASE u.type = v.type /\ v.type = w.type
    <3>1. StrictOrder(R, OfType(u.type, m + 1))
      BY <1>1, <1>6
    <3>2. u \in OfType(u.type, m + 1) /\ v \in OfType(u.type, m + 1) /\ w \in OfType(u.type, m + 1)
      BY <1>7, <2>1
    <3> QED
      BY <1>8, <3>1, <3>2 DEF StrictOrder
  <2>2. CASE ~(u.type = v.type /\ v.type = w.type)
    BY <1>3, <1>4, <1>5, <1>8, <2>2
  <2> QED
    BY <2>1, <2>2
<1>9. ASSUME NEW v \in W, NEW w \in W
      PROVE  ~(<<v, w>> \in R /\ <<w, v>> \in R) /\ (<<v, w>> \in R \/ <<w, v>> \in R \/ v = w)
  <2>1. CASE v.type = w.type
    <3>1. StrictOrder(R, OfType(v.type, m + 1))
      BY <1>1, <1>6
    <3>2. v \in OfType(v.type, m + 1) /\ w \in OfType(v.type, m + 1)
      BY <1>7, <2>1
    <3> QED
      BY <3>1, <3>2 DEF StrictOrder
  <2>2. CASE v.type # w.type
    BY <1>3, <1>4, <1>5, <2>2
  <2> QED
    BY <2>1, <2>2
<1>10. StrictOrder(R, W)
  BY <1>8, <1>9 DEF StrictOrder
<1> QED
  BY <1>10 DEF R, W

LEMMA WithinAreOrdered == \A m \in Nat : StrictOrder(ValueOrder(m), Within(m))
<1> DEFINE N == {m \in Nat : StrictOrder(ValueOrder(m), Within(m))}
<1>1. 0 \in N
  <2>1. \A v \in Comparables : Nesting[v] \in Nat
    BY OrderAssumption
  <2>2. Within(0) = {}
    BY <2>1 DEF Within
  <2> QED
    BY <2>2 DEF StrictOrder
<1>2. ASSUME NEW m \in Nat, m \in N PROVE m + 1 \in N
  BY <1>2, DeeperAreOrdered
<1> HIDE DEF N
<1>3. \A m \in Nat : m \in N
  BY <1>1, <1>2, Induction
<1> QED
  BY <1>3 DEF N

\* operator< orders all the Values.
AllOrder == {p \in Both : Less[p]}

LEMMA AllAreOrdered == StrictOrder(AllOrder, Comparables)
<1>1. ASSUME NEW u \in Comparables, NEW v \in Comparables, NEW w \in Comparables
      PROVE  /\ Less[<<u, v>>] /\ Less[<<v, w>>] => Less[<<u, w>>]
             /\ ~(Less[<<u, v>>] /\ Less[<<v, u>>])
             /\ Less[<<u, v>>] \/ Less[<<v, u>>] \/ u = v
  <2> DEFINE m == Nesting[u] + Nesting[v] + Nesting[w] + 1
  <2>1. Nesting[u] \in Nat /\ Nesting[v] \in Nat /\ Nesting[w] \in Nat
    BY OrderAssumption
  <2>2. m \in Nat /\ u \in Within(m) /\ v \in Within(m) /\ w \in Within(m)
    BY <2>1 DEF Within
  <2>3. StrictOrder(ValueOrder(m), Within(m))
    BY <2>2, WithinAreOrdered
  <2> HIDE DEF m
  <2>4. \A x, y \in Within(m) : <<x, y>> \in ValueOrder(m) <=> Less[<<x, y>>]
    BY DEF ValueOrder
  <2> QED
    BY <2>2, <2>3, <2>4 DEF StrictOrder
<1>2. \A v, w \in Comparables : <<v, w>> \in AllOrder <=> Less[<<v, w>>]
  BY DEF AllOrder, Both
<1> QED
  BY <1>1, <1>2 DEF StrictOrder

-----------------------------------------------------------------------------
(* Equal Values are the same.                                              *)

LEMMA EqualOfTwo ==
  ASSUME NEW v \in Comparables, NEW w \in Comparables
  PROVE  /\ v.type # w.type => ~Equal[<<v, w>>]
         /\ v.type = w.type /\ v.type = "null" => Equal[<<v, w>>]
         /\ v.type = w.type /\ v.type = "string" => (Equal[<<v, w>>] <=> BytesEqual(v.text, w.text))
         /\ v.type = w.type /\ v.type \in NumberTypes => (Equal[<<v, w>>] <=> v.n = w.n)
         /\ v.type = w.type /\ IsContainer(v) =>
              (Equal[<<v, w>>] <=>
                 /\ Len(Entries(v)) = Len(Entries(w))
                 /\ \A i \in 1 .. Len(Entries(v)) :
                      /\ KeyEqual(v.type, Entries(v)[i].key, Entries(w)[i].key)
                      /\ Equal[<<Entries(v)[i].value, Entries(w)[i].value>>])
<1>1. <<v, w>> \in Both
  BY DEF Both
<1>2. Equal[<<v, w>>] = EqualStep(Equal, <<v, w>>)
  BY <1>1, EqualIs
<1> QED
  BY <1>2 DEF EqualStep, NumberTypes, IsContainer

EqualWithin(m) == \A v, w \in Within(m) : Equal[<<v, w>>] <=> v = w

LEMMA EqualDeeper ==
  ASSUME NEW m \in Nat, EqualWithin(m)
  PROVE  EqualWithin(m + 1)
<1> SUFFICES ASSUME NEW v \in Within(m + 1), NEW w \in Within(m + 1)
             PROVE  Equal[<<v, w>>] <=> v = w
  BY DEF EqualWithin
<1>1. v \in Comparables /\ w \in Comparables /\ v.type \in Types
  BY ComparablesAre DEF Within
<1>2. CASE v.type # w.type
  BY <1>1, <1>2, EqualOfTwo
<1>3. CASE v.type = w.type /\ v.type = "null"
  BY <1>1, <1>3, EqualOfTwo, ComparablesAre
<1>4. CASE v.type = w.type /\ v.type = "string"
  <2>1. v \in [type : {"string"}, text : Seq(Nat)] /\ w \in [type : {"string"}, text : Seq(Nat)]
    BY <1>1, <1>4, ComparablesAre
  <2>2. v.text \in Seq(Nat) /\ w.text \in Seq(Nat) /\ (v.text = w.text <=> v = w)
    BY <2>1
  <2> QED
    BY <1>1, <1>4, <2>2, EqualOfTwo, BytesEqualIs
<1>5. CASE v.type = w.type /\ v.type \in NumberTypes
  <2>1. v \in [type : NumberTypes, n : Int] /\ w \in [type : NumberTypes, n : Int]
    BY <1>1, <1>5, ComparablesAre
  <2>2. v.n = w.n <=> v = w
    BY <1>5, <2>1
  <2> QED
    BY <1>1, <1>5, <2>2, EqualOfTwo
<1>6. CASE v.type = w.type /\ IsContainer(v)
  <2> DEFINE a == Entries(v)
             b == Entries(w)
             n == Len(a)
             E == EntriesOf(v.type, m)
  <2>1. n \in Nat /\ a \in [1 .. n -> E] /\ Len(b) \in Nat /\ b \in [1 .. Len(b) -> E]
    BY <1>6, LessOfContainers
  <2>2. Equal[<<v, w>>] <=> /\ n = Len(b)
                            /\ \A i \in 1 .. n : /\ KeyEqual(v.type, a[i].key, b[i].key)
                                                 /\ Equal[<<a[i].value, b[i].value>>]
    BY <1>1, <1>6, EqualOfTwo
  <2>3. a = b => v = w
    BY <1>1, <1>6, EntriesTell
  <2>4. v = w => a = b
    OBVIOUS
  <2>5. \A x, y \in E : /\ KeyEqual(v.type, x.key, y.key) <=> x.key = y.key
                        /\ Equal[<<x.value, y.value>>] <=> x.value = y.value
                        /\ x.key = y.key /\ x.value = y.value <=> x = y
    <3> TAKE x, y \in E
    <3>1. /\ x.key \in KeysOf(v.type) /\ y.key \in KeysOf(v.type)
          /\ x.value \in Within(m) /\ y.value \in Within(m)
          /\ x.key = y.key /\ x.value = y.value <=> x = y
      BY DEF EntriesOf
    <3>2. KeyEqual(v.type, x.key, y.key) <=> x.key = y.key
      BY <3>1, BytesEqualIs DEF KeyEqual, KeysOf
    <3>3. Equal[<<x.value, y.value>>] <=> x.value = y.value
      BY <3>1 DEF EqualWithin
    <3> QED
      BY <3>1, <3>2, <3>3
  <2> HIDE DEF a, b, n, E
  <2>6. n = Len(b) => ((\A i \in 1 .. n : /\ KeyEqual(v.type, a[i].key, b[i].key)
                                         /\ Equal[<<a[i].value, b[i].value>>])
                       <=> \A i \in 1 .. n : a[i] = b[i])
    BY <2>1, <2>5
  <2>7. n = Len(b) => ((\A i \in 1 .. n : a[i] = b[i]) <=> a = b)
    BY <2>1
  <2>8. a = b => n = Len(b)
    BY DEF n
  <2> QED
    BY <2>2, <2>3, <2>4, <2>6, <2>7, <2>8
<1> QED
  BY <1>1, <1>2, <1>3, <1>4, <1>5, <1>6 DEF Types, NumberTypes, IsContainer

LEMMA EqualIsSame == \A v, w \in Comparables : Equal[<<v, w>>] <=> v = w
<1> DEFINE N == {m \in Nat : EqualWithin(m)}
<1>1. 0 \in N
  <2>1. \A v \in Comparables : Nesting[v] \in Nat
    BY OrderAssumption
  <2>2. Within(0) = {}
    BY <2>1 DEF Within
  <2> QED
    BY <2>2 DEF EqualWithin
<1>2. ASSUME NEW m \in Nat, m \in N PROVE m + 1 \in N
  BY <1>2, EqualDeeper
<1> HIDE DEF N
<1>3. \A m \in Nat : m \in N
  BY <1>1, <1>2, Induction
<1> TAKE v, w \in Comparables
<1> DEFINE m == Nesting[v] + Nesting[w] + 1
<1>4. Nesting[v] \in Nat /\ Nesting[w] \in Nat
  BY OrderAssumption
<1>5. m \in Nat /\ v \in Within(m) /\ w \in Within(m)
  BY <1>4 DEF Within
<1> HIDE DEF m
<1>6. EqualWithin(m)
  BY <1>3, <1>5 DEF N
<1> QED
  BY <1>5, <1>6 DEF EqualWithin

-----------------------------------------------------------------------------
(* What a program that compares Values sees.                               *)

\* The calls of Value::compare.
Comparisons == [f : {"compare"}, u : Comparables, v : Comparables, w : Comparables]
ComparisonType == call = NoCall \/ call \in Comparisons

\* operator< is a strict total order of all Values, arrays and objects of any depth with
\* their entries, and operator== holds of a Value and itself alone, as compare says:
\* for every set of Values closed under what they hold.
THEOREM ValuesAreOrdered == OrderSpec => []ValuesOrdered
<1>1. CallInit => ComparisonType
  BY DEF CallInit, ComparisonType
<1>2. ComparisonType /\ [Comparison]_call => ComparisonType'
  BY DEF ComparisonType, Comparison, Comparisons
<1>3. ComparisonType => ValuesOrdered
  <2> SUFFICES ASSUME call \in Comparisons PROVE ValuesOrdered
    BY DEF ComparisonType, ValuesOrdered, NoCall
  <2> DEFINE u == call.u
             v == call.v
             w == call.w
  <2>1. u \in Comparables /\ v \in Comparables /\ w \in Comparables
    BY DEF Comparisons
  <2> HIDE DEF u, v, w
  <2>2. \A x, y \in Comparables : <<x, y>> \in AllOrder <=> Less[<<x, y>>]
    BY DEF AllOrder, Both
  <2>3. /\ Less[<<u, v>>] /\ Less[<<v, w>>] => Less[<<u, w>>]
        /\ ~(Less[<<u, v>>] /\ Less[<<v, u>>])
        /\ Less[<<u, v>>] \/ Less[<<v, u>>] \/ u = v
    BY <2>1, <2>2, AllAreOrdered DEF StrictOrder
  <2>4. Equal[<<u, v>>] <=> u = v
    BY <2>1, EqualIsSame
  <2>5. compare(u, v) = 0 <=> ~Less[<<u, v>>] /\ ~Less[<<v, u>>]
    BY DEF compare
  <2>6. Equal[<<u, v>>] <=> compare(u, v) = 0
    BY <2>3, <2>4, <2>5
  <2> QED
    BY <2>3, <2>4, <2>6 DEF ValuesOrdered, u, v, w
<1> QED
  BY <1>1, <1>2, <1>3, PTL DEF OrderSpec

-----------------------------------------------------------------------------
(* Paths in Values.                                                        *)

NodesUpTo(node, root, args, k) ==
  node = [n \in 0 .. k |-> IF n = 0 THEN root ELSE Reach(node[n - 1], args[n])]

LEMMA NodesExist ==
  ASSUME NEW root, NEW args
  PROVE  \A k \in Nat : \E node : NodesUpTo(node, root, args, k)
<1> DEFINE K == {k \in Nat : \E node : NodesUpTo(node, root, args, k)}
<1>1. 0 \in K
  <2> DEFINE f == [n \in 0 .. 0 |-> root]
  <2>1. NodesUpTo(f, root, args, 0)
    BY DEF NodesUpTo
  <2> HIDE DEF f
  <2> QED
    BY <2>1
<1>2. ASSUME NEW k \in Nat, k \in K PROVE k + 1 \in K
  <2>1. PICK f : NodesUpTo(f, root, args, k)
    BY <1>2
  <2> DEFINE last == Reach(f[k], args[k + 1])
             g == [n \in 0 .. k + 1 |-> IF n = k + 1 THEN last ELSE f[n]]
  <2>2. \A n \in 0 .. k : f[n] = IF n = 0 THEN root ELSE Reach(f[n - 1], args[n])
    BY <2>1 DEF NodesUpTo
  <2>3. \A n \in 0 .. k + 1 : g[n] = IF n = 0 THEN root ELSE Reach(g[n - 1], args[n])
    <3> SUFFICES ASSUME NEW n \in 0 .. k + 1
                 PROVE g[n] = IF n = 0 THEN root ELSE Reach(g[n - 1], args[n])
      OBVIOUS
    <3>1. CASE n = k + 1
      <4>1. n # 0 /\ g[n] = last /\ n - 1 = k /\ g[k] = f[k]
        BY <3>1
      <4>2. last = Reach(g[k], args[n])
        BY <3>1, <4>1
      <4> HIDE DEF g, last
      <4> QED
        BY <4>1, <4>2
    <3>2. CASE n # k + 1
      <4>1. n \in 0 .. k /\ g[n] = f[n] /\ (n # 0 => g[n - 1] = f[n - 1])
        BY <3>2
      <4> HIDE DEF g
      <4> QED
        BY <2>2, <4>1
    <3> QED
      BY <3>1, <3>2
  <2>4. g = [n \in 0 .. k + 1 |-> g[n]]
    OBVIOUS
  <2> HIDE DEF g
  <2>5. NodesUpTo(g, root, args, k + 1)
    BY <2>3, <2>4 DEF NodesUpTo
  <2> QED
    BY <2>5
<1> HIDE DEF K
<1>3. \A k \in Nat : k \in K
  BY <1>1, <1>2, Induction
<1> QED
  BY <1>3 DEF K

\* The nodes on the way, one after the other.
LEMMA NodesAre ==
  ASSUME NEW root, NEW args, Len(args) \in Nat
  PROVE  /\ Nodes(root, args)[0] = root
         /\ \A n \in 1 .. Len(args) : Nodes(root, args)[n] = Reach(Nodes(root, args)[n - 1], args[n])
<1>1. \E node : NodesUpTo(node, root, args, Len(args))
  BY NodesExist
<1>2. NodesUpTo(Nodes(root, args), root, args, Len(args))
  BY <1>1 DEF Nodes, NodesUpTo
<1>3. \A n \in 0 .. Len(args) : Nodes(root, args)[n] =
        IF n = 0 THEN root ELSE Reach(Nodes(root, args)[n - 1], args[n])
  BY <1>2 DEF NodesUpTo
<1>4. 0 \in 0 .. Len(args) /\ \A n \in 1 .. Len(args) : n \in 0 .. Len(args) /\ n # 0
  OBVIOUS
<1> QED
  BY <1>3, <1>4

RemadeFrom(made, root, args, x, k) ==
  made = [n \in Len(args) - k .. Len(args) |->
            IF n = Len(args) THEN x
            ELSE With(OrElse(Nodes(root, args)[n], Null), args[n + 1], made[n + 1])]

LEMMA RemadeExists ==
  ASSUME NEW root, NEW args, NEW x, Len(args) \in Nat
  PROVE  \A k \in Nat : \E made : RemadeFrom(made, root, args, x, k)
<1> DEFINE m == Len(args)
           K == {k \in Nat : \E made : RemadeFrom(made, root, args, x, k)}
           Kept(n, next) == With(OrElse(Nodes(root, args)[n], Null), args[n + 1], next)
<1>1. 0 \in K
  <2> DEFINE f == [n \in m - 0 .. m |-> x]
  <2>1. RemadeFrom(f, root, args, x, 0)
    BY DEF RemadeFrom
  <2> HIDE DEF f
  <2> QED
    BY <2>1
<1>2. ASSUME NEW k \in Nat, k \in K PROVE k + 1 \in K
  <2>1. PICK f : RemadeFrom(f, root, args, x, k)
    BY <1>2
  <2> DEFINE i == m - (k + 1)
             first == Kept(i, f[i + 1])
             g == [n \in i .. m |-> IF n = i THEN first ELSE f[n]]
  <2>2. \A n \in m - k .. m : f[n] = IF n = m THEN x ELSE Kept(n, f[n + 1])
    BY <2>1 DEF RemadeFrom
  <2>3. \A n \in i .. m : g[n] = IF n = m THEN x ELSE Kept(n, g[n + 1])
    <3> SUFFICES ASSUME NEW n \in i .. m
                 PROVE g[n] = IF n = m THEN x ELSE Kept(n, g[n + 1])
      OBVIOUS
    <3> HIDE DEF Kept
    <3>1. CASE n = i
      <4>1. n # m /\ g[n] = first /\ n + 1 = i + 1 /\ g[n + 1] = f[i + 1]
        BY <3>1
      <4> HIDE DEF g
      <4> QED
        BY <3>1, <4>1
    <3>2. CASE n # i
      <4>1. n \in m - k .. m /\ g[n] = f[n] /\ (n # m => g[n + 1] = f[n + 1])
        BY <3>2
      <4> HIDE DEF g
      <4> QED
        BY <2>2, <4>1
    <3> QED
      BY <3>1, <3>2
  <2>4. g = [n \in i .. m |-> g[n]]
    OBVIOUS
  <2> HIDE DEF g
  <2>5. RemadeFrom(g, root, args, x, k + 1)
    BY <2>3, <2>4 DEF RemadeFrom
  <2> QED
    BY <2>5
<1> HIDE DEF K
<1>3. \A k \in Nat : k \in K
  BY <1>1, <1>2, Induction
<1> QED
  BY <1>3 DEF K

\* What becomes of them, from the last back to the root.
BackFrom(x, made, root, args) ==
  /\ made[Len(args)] = x
  /\ \A n \in 0 .. Len(args) - 1 :
       made[n] = With(OrElse(Nodes(root, args)[n], Null), args[n + 1], made[n + 1])

LEMMA RemadeAre ==
  ASSUME NEW root, NEW args, NEW x, Len(args) \in Nat
  PROVE  BackFrom(x, Remade(root, args, x), root, args)
<1> DEFINE m == Len(args)
           IsRemade(made) == made = [n \in 0 .. m |-> IF n = m THEN x
                              ELSE With(OrElse(Nodes(root, args)[n], Null), args[n + 1], made[n + 1])]
<1>1. PICK f : RemadeFrom(f, root, args, x, m)
  BY RemadeExists
<1>2. m - m = 0
  OBVIOUS
<1>3. IsRemade(f)
  BY <1>1, <1>2 DEF RemadeFrom
<1>4. Remade(root, args, x) = CHOOSE made : IsRemade(made)
  BY DEF Remade
<1> HIDE DEF IsRemade
<1>5. IsRemade(Remade(root, args, x))
  BY <1>3, <1>4
<1>6. \A n \in 0 .. m : Remade(root, args, x)[n] = IF n = m THEN x
        ELSE With(OrElse(Nodes(root, args)[n], Null), args[n + 1], Remade(root, args, x)[n + 1])
  BY <1>5 DEF IsRemade
<1>7. m \in 0 .. m /\ \A n \in 0 .. m - 1 : n \in 0 .. m /\ n # m
  OBVIOUS
<1> HIDE DEF m
<1> QED
  BY <1>6, <1>7 DEF m, BackFrom

\* What can be on the way.
Held(v) ==
  /\ v.type = "null" => v = Null
  /\ v.type = "array" => /\ v = Array(v.items) /\ IsFiniteSet(DOMAIN v.items) /\ DOMAIN v.items \subseteq Nat
  /\ v.type = "object" => v = Object(v.fields)

\* A node that is null and one that is not there look the same.
Equivalent(u, v) == OrElse(u, Null) = OrElse(v, Null)

\* The indices of an array are below its size.
LEMMA WithinSize ==
  ASSUME NEW items, IsFiniteSet(DOMAIN items), DOMAIN items \subseteq Nat, NEW i \in DOMAIN items
  PROVE  isValidIndex(Array(items), i)
<1> DEFINE R == {p \in Nat \X Nat : p[1] < p[2]}
           S == DOMAIN items
<1>1. StrictOrder(R, Nat)
  <2>1. \A x, y \in Nat : <<x, y>> \in R <=> x < y
    OBVIOUS
  <2> HIDE DEF R
  <2> QED
    BY <2>1 DEF StrictOrder
<1>2. \E x \in Nat : GreatestOf(x, S, R)
  <2> HIDE DEF R
  <2> QED
    BY <1>1, SomeGreatest
<1>3. \E x \in S : \A y \in S : x >= y
  <2>1. PICK x \in Nat : GreatestOf(x, S, R)
    BY <1>2
  <2>2. x \in S /\ \A y \in S : <<x, y>> \notin R
    BY <2>1 DEF GreatestOf
  <2>3. \A y \in S : y \in Nat /\ (<<x, y>> \in R <=> x < y)
    OBVIOUS
  <2> HIDE DEF R, S
  <2>4. ASSUME NEW y \in S PROVE x >= y
    <3>1. y \in Nat /\ ~(x < y)
      BY <2>2, <2>3, Zenon
    <3> QED
      BY <3>1
  <2> QED
    BY <2>2, <2>4
<1>4. Max(S) \in S /\ \A y \in S : Max(S) >= y
  BY <1>3 DEF Max
<1>5. items # Empty
  BY DEF Empty
<1>6. size(Array(items)) = Max(S) + 1
  BY <1>5 DEF size, Array
<1>7. i <= Max(S) /\ i \in Nat /\ Max(S) \in Nat
  BY <1>4
<1> HIDE DEF S
<1>8. i < Max(S) + 1
  BY <1>7
<1> QED
  BY <1>6, <1>8 DEF isValidIndex

\* The kinds of Values.
LEMMA ValuesAre ==
  /\ Null.type = "null" /\ Lost.type = "lost" /\ Null # Lost
  /\ \A items : Array(items).type = "array" /\ Array(items).items = items
  /\ \A fields : Object(fields).type = "object" /\ Object(fields).fields = fields
<1>1. Null.type = "null" /\ Lost.type = "lost"
  BY DEF Null, Lost
<1>2. Null # Lost
  BY <1>1
<1> QED
  BY <1>1, <1>2 DEF Array, Object

LEMMA ArgumentsAre ==
  ASSUME NEW a \in Argument
  PROVE  /\ a.kind \in {"index", "key"}
         /\ a.kind = "index" => a.index \in Nat /\ a.index <= MaxIndex
         /\ a.kind = "key" => a.key \in PathText
         /\ \A b \in Argument : a # b /\ a.kind = b.kind =>
              IF a.kind = "index" THEN a.index # b.index ELSE a.key # b.key
  BY PathAssumption DEF Argument

\* new is old with x at key.
PutIn(new, old, key, x) ==
  /\ DOMAIN new = DOMAIN old \cup {key} /\ new[key] = x
  /\ \A k \in DOMAIN new : k # key => new[k] = old[k]

LEMMA PutOnceOrTwice ==
  ASSUME NEW old, NEW key, NEW x, NEW y
  PROVE  PutIn(Put(old, key, x), old, key, x) /\ PutIn(Put(Put(old, key, y), key, x), old, key, x)
<1>1. PutIn(Put(old, key, x), old, key, x)
  BY DEF PutIn, Put
<1>2. PutIn(Put(Put(old, key, y), key, x), old, key, x)
  <2> DEFINE once == Put(old, key, y)
             twice == Put(once, key, x)
  <2>1. DOMAIN once = DOMAIN old \cup {key} /\ \A k \in DOMAIN once : k # key => once[k] = old[k]
    BY DEF Put
  <2> HIDE DEF once
  <2>2. PutIn(twice, once, key, x)
    BY DEF PutIn, Put
  <2> HIDE DEF twice
  <2>3. PutIn(twice, old, key, x)
    BY <2>1, <2>2 DEF PutIn
  <2> QED
    BY <2>3 DEF twice, once
<1> QED
  BY <1>1, <1>2

\* An array made of an array or of null.
ArrayWith(v, w, i, x) ==
  /\ v = Array(v.items) /\ v.type = "array" /\ IsFiniteSet(DOMAIN v.items) /\ DOMAIN v.items \subseteq Nat
  /\ PutIn(v.items, AsArray(w).items, i, x)

\* What is put into a node is found there, and nothing else is changed.
LEMMA IndexIsPut ==
  ASSUME NEW w, Held(w), w.type \in {"null", "array"}, NEW i \in Nat, NEW x
  PROVE  ArrayWith(Set(w, i, x), w, i, x)
<1> DEFINE old == AsArray(w).items
           items == Put(Ref(w, i).items, i, x)
<1>1. IsFiniteSet(DOMAIN old) /\ DOMAIN old \subseteq Nat
  <2>1. CASE w.type = "null"
    <3>1. old = Empty
      BY <2>1, ValuesAre DEF Held, AsArray
    <3> QED
      BY <3>1, FS_EmptySet DEF Empty
  <2>2. CASE w.type = "array"
    <3>1. w # Null
      BY <2>2, ValuesAre
    <3>2. old = w.items
      BY <3>1 DEF AsArray
    <3> QED
      BY <2>2, <3>2 DEF Held
  <2> QED
    BY <2>1, <2>2
<1>2. Set(w, i, x) = Array(items)
  BY DEF Set
<1> HIDE DEF old
<1>3. IF i \in DOMAIN old THEN Ref(w, i).items = old ELSE Ref(w, i).items = Put(old, i, Null)
  BY ValuesAre DEF Ref, old
<1>4. PutIn(items, old, i, x)
  BY <1>3, PutOnceOrTwice
<1> HIDE DEF items
<1>5. IsFiniteSet(DOMAIN items) /\ DOMAIN items \subseteq Nat
  BY <1>1, <1>4, FS_AddElement DEF PutIn
<1> QED
  BY <1>2, <1>4, <1>5, ValuesAre DEF old, ArrayWith

\* Likewise a member.
LEMMA KeyIsPut ==
  ASSUME NEW w, Held(w), w.type \in {"null", "object"}, NEW key, NEW x
  PROVE  PutIn(Put(RefMember(w, key).fields, key, x), IF w = Null THEN Empty ELSE w.fields, key, x)
<1> DEFINE fields == Put(RefMember(w, key).fields, key, x)
           old    == IF w = Null THEN Empty ELSE w.fields
<1>1. key \in DOMAIN old => RefMember(w, key) = w /\ w # Null
  BY DEF RefMember, Empty
<1>2. key \notin DOMAIN old => RefMember(w, key) = Object(Put(old, key, Null))
  BY DEF RefMember
<1>3. key \in DOMAIN old => RefMember(w, key).fields = old
  BY <1>1
<1>4. key \notin DOMAIN old => RefMember(w, key).fields = Put(old, key, Null)
  BY <1>2, ValuesAre
<1> HIDE DEF old
<1>5. PutIn(fields, old, key, x)
  BY <1>3, <1>4, PutOnceOrTwice
<1> QED
  BY <1>5 DEF old

PutThere(w, a, x) ==
  /\ Held(With(w, a, x)) /\ With(w, a, x) # Lost
  /\ With(w, a, x).type = IF a.kind = "index" THEN "array" ELSE "object"
  /\ Reach(With(w, a, x), a) = x
  /\ \A b \in Argument : b # a => Equivalent(Reach(With(w, a, x), b), Reach(w, b))

\* After operator[] the Value put is there, and no other argument leads elsewhere than before.
LEMMA PutIsFound ==
  ASSUME NEW w, Held(w), NEW a \in Argument, OperatorAsserts(w, a), NEW x
  PROVE  PutThere(w, a, x)
<1>1. CASE a.kind = "index"
  <2> DEFINE i == a.index
             v == With(w, a, x)
  <2>1. w.type \in {"null", "array"} /\ i \in Nat
    BY <1>1, ArgumentsAre DEF OperatorAsserts
  <2>2. v = Set(w, i, x)
    BY <1>1 DEF With
  <2> HIDE DEF i, v
  <2> DEFINE items == v.items
  <2>3. /\ v = Array(items) /\ v.type = "array" /\ IsFiniteSet(DOMAIN items) /\ DOMAIN items \subseteq Nat
        /\ DOMAIN items = DOMAIN AsArray(w).items \cup {i} /\ items[i] = x
        /\ \A j \in DOMAIN items : j # i => items[j] = AsArray(w).items[j]
    BY <2>1, <2>2, IndexIsPut DEF ArrayWith, PutIn
  <2>4. v.type = "array" /\ v.items = items /\ v # Lost /\ v = Array(items)
    BY <2>3, ValuesAre
  <2> HIDE DEF items
  <2>5. Held(v)
    BY <2>3, <2>4 DEF Held
  <2>6. Reach(v, a) = x
    <3>1. isValidIndex(v, i)
      BY <2>3, <2>4, WithinSize
    <3>2. At(v, i) = x
      BY <2>3, <2>4 DEF At
    <3> QED
      BY <1>1, <2>4, <3>1, <3>2 DEF Reach, i
  <2>7. ASSUME NEW b \in Argument, b # a PROVE Equivalent(Reach(v, b), Reach(w, b))
    <3>1. CASE b.kind = "key"
      <4>1. Reach(v, b) = Lost /\ Reach(w, b) = Lost
        BY <2>1, <2>4, <3>1 DEF Reach, isMember
      <4> QED
        BY <4>1 DEF Equivalent
    <3>2. CASE b.kind = "index"
      <4> DEFINE j == b.index
      <4>1. j # i /\ j \in Nat
        BY <1>1, <2>7, <3>2, ArgumentsAre DEF i
      <4>2. Reach(v, b) = IF isValidIndex(v, j) THEN At(v, j) ELSE Lost
        BY <2>4, <3>2 DEF Reach
      <4>3. Reach(w, b) = IF w.type = "array" /\ isValidIndex(w, j) THEN At(w, j) ELSE Lost
        BY <3>2 DEF Reach
      <4> HIDE DEF j
      <4>4. CASE w.type = "array" /\ j \in DOMAIN w.items
        <5>1. AsArray(w) = w
          BY <4>4, ValuesAre DEF AsArray
        <5>2. j \in DOMAIN items /\ items[j] = w.items[j]
          BY <2>3, <4>1, <4>4, <5>1
        <5>3. isValidIndex(v, j) /\ At(v, j) = items[j]
          BY <2>3, <2>4, <5>2, WithinSize DEF At
        <5>4. isValidIndex(w, j) /\ At(w, j) = w.items[j]
          BY <4>4, WithinSize DEF At, Held
        <5> QED
          BY <4>2, <4>3, <4>4, <5>2, <5>3, <5>4 DEF Equivalent
      <4>5. CASE ~(w.type = "array" /\ j \in DOMAIN w.items)
        <5>1. j \notin DOMAIN items
          <6>1. CASE w.type = "array"
            <7>1. AsArray(w) = w
              BY <6>1, ValuesAre DEF AsArray
            <7> QED
              BY <2>3, <4>1, <4>5, <6>1, <7>1
          <6>2. CASE w.type = "null"
            <7>1. AsArray(w).items = Empty
              BY <6>2, ValuesAre DEF AsArray, Held
            <7> QED
              BY <2>3, <4>1, <7>1 DEF Empty
          <6> QED
            BY <2>1, <6>1, <6>2
        <5>2. At(v, j) = Null /\ At(w, j) = Null
          BY <2>4, <4>5, <5>1 DEF At
        <5>3. Reach(v, b) \in {Null, Lost} /\ Reach(w, b) \in {Null, Lost}
          BY <4>2, <4>3, <5>2
        <5> QED
          BY <5>3 DEF Equivalent, OrElse
      <4> QED
        BY <4>4, <4>5
    <3> QED
      BY <3>1, <3>2, ArgumentsAre
  <2> QED
    BY <1>1, <2>4, <2>5, <2>6, <2>7 DEF PutThere, v
<1>2. CASE a.kind = "key"
  <2> DEFINE key == a.key
             v == With(w, a, x)
             fields == Put(RefMember(w, key).fields, key, x)
             old == IF w = Null THEN Empty ELSE w.fields
  <2>1. w.type \in {"null", "object"}
    BY <1>2 DEF OperatorAsserts, FindAsserts
  <2>2. v = Object(fields)
    BY <1>2 DEF With
  <2>3. /\ DOMAIN fields = DOMAIN old \cup {key} /\ fields[key] = x
        /\ \A k \in DOMAIN fields : k # key => fields[k] = old[k]
    <3>1. PutIn(fields, old, key, x)
      BY <2>1, KeyIsPut
    <3> HIDE DEF fields, old
    <3> QED
      BY <3>1 DEF PutIn
  <2>4. \A k : isMember(w, k) <=> k \in DOMAIN old
    BY <2>1, ValuesAre DEF isMember, Held, Empty
  <2>9. w.type = "object" => old = w.fields
    BY ValuesAre
  <2> HIDE DEF fields, v, key, old
  <2>5. v.type = "object" /\ v.fields = fields /\ v # Lost
    BY <2>2, ValuesAre
  <2>6. Held(v)
    BY <2>2, <2>5 DEF Held
  <2>7. Reach(v, a) = x
    BY <1>2, <2>3, <2>5 DEF Reach, isMember, key
  <2>8. ASSUME NEW b \in Argument, b # a PROVE Equivalent(Reach(v, b), Reach(w, b))
    <3>1. CASE b.kind = "index"
      <4>1. Reach(v, b) = Lost /\ Reach(w, b) = Lost
        BY <2>1, <2>5, <3>1 DEF Reach, isMember
      <4> QED
        BY <4>1 DEF Equivalent
    <3>2. CASE b.kind = "key"
      <4> DEFINE k == b.key
      <4>1. k # key
        BY <1>2, <2>8, <3>2, ArgumentsAre DEF key
      <4>2. Reach(v, b) = IF k \in DOMAIN fields THEN fields[k] ELSE Lost
        BY <2>5, <3>2 DEF Reach, isMember
      <4>3. Reach(w, b) = IF k \in DOMAIN old THEN old[k] ELSE Lost
        <5>1. Reach(w, b) = IF isMember(w, k) THEN w.fields[k] ELSE Lost
          BY <3>2 DEF Reach
        <5>2. isMember(w, k) => w.type = "object"
          BY DEF isMember
        <5> QED
          BY <2>4, <2>9, <5>1, <5>2
      <4> HIDE DEF k
      <4>4. k \in DOMAIN fields <=> k \in DOMAIN old
        BY <2>3, <4>1
      <4>5. Reach(v, b) = Reach(w, b)
        BY <2>3, <4>1, <4>2, <4>3, <4>4
      <4> QED
        BY <4>5 DEF Equivalent
    <3> QED
      BY <3>1, <3>2, ArgumentsAre
  <2> QED
    BY <1>2, <2>5, <2>6, <2>7, <2>8, ArgumentsAre DEF PutThere, v
<1> QED
  BY <1>1, <1>2, ArgumentsAre

\* Induction from one number to another.
LEMMA InductionBetween ==
  ASSUME NEW S, NEW m \in Nat, NEW n \in Nat, m \in S, \A k \in m .. n - 1 : k \in S => k + 1 \in S
  PROVE  \A k \in m .. n : k \in S
<1> DEFINE T == {d \in Nat : m + d <= n => m + d \in S}
<1>1. 0 \in T
  OBVIOUS
<1>2. \A d \in Nat : d \in T => d + 1 \in T
  <2> TAKE d \in Nat
  <2> HAVE d \in T
  <2> SUFFICES ASSUME m + (d + 1) <= n PROVE m + (d + 1) \in S
    OBVIOUS
  <2>1. m + d \in m .. n - 1 /\ m + d \in S /\ (m + d) + 1 = m + (d + 1)
    OBVIOUS
  <2> QED
    BY <2>1
<1> HIDE DEF T
<1>3. \A d \in Nat : d \in T
  BY <1>1, <1>2, Induction
<1>4. ASSUME NEW k \in m .. n PROVE k \in S
  <2>1. k - m \in Nat /\ m + (k - m) = k /\ k <= n
    OBVIOUS
  <2>2. k - m \in T
    BY <1>3, <2>1
  <2> QED
    BY <2>1, <2>2 DEF T
<1> QED
  BY <1>4

ArgumentTexts == Seq(Argument)

LEMMA ArgumentOfPath ==
  ASSUME NEW args \in ArgumentTexts
  PROVE  Len(args) \in Nat /\ DOMAIN args = 1 .. Len(args) /\ \A n \in 1 .. Len(args) : args[n] \in Argument
  BY DEF ArgumentTexts

\* Every node on the way is one of the Values, or null, or not there.
LEMMA NodesAreHeld ==
  ASSUME NEW root \in Roots, NEW args \in ArgumentTexts
  PROVE  \A n \in 0 .. Len(args) : /\ Nodes(root, args)[n] \in Roots \cup {Null, Lost}
                                   /\ Held(Nodes(root, args)[n]) /\ Held(OrElse(Nodes(root, args)[n], Null))
<1> DEFINE All == Roots \cup {Null, Lost}
           S == {n \in Nat : Nodes(root, args)[n] \in All}
<1>0. Len(args) \in Nat
  BY ArgumentOfPath
<1>1. 0 \in S
  BY <1>0, NodesAre
<1>2. ASSUME NEW v \in All, NEW a PROVE Reach(v, a) \in All
  <2>1. CASE a.kind = "index" /\ v.type = "array"
    <3>1. v \in Roots
      BY <2>1, ValuesAre
    <3>2. \A i \in DOMAIN v.items : v.items[i] \in Roots
      BY <2>1, <3>1, PathAssumption DEF PartsOf
    <3>3. At(v, a.index) \in All
      BY <3>2 DEF At
    <3> QED
      BY <2>1, <3>3 DEF Reach
  <2>2. CASE a.kind = "key" /\ v.type = "object"
    <3>1. v \in Roots
      BY <2>2, ValuesAre
    <3>2. \A k \in DOMAIN v.fields : v.fields[k] \in Roots
      BY <2>2, <3>1, PathAssumption DEF PartsOf
    <3> QED
      BY <2>2, <3>2 DEF Reach, isMember
  <2>3. CASE ~(a.kind = "index" /\ v.type = "array") /\ ~(a.kind = "key" /\ v.type = "object")
    BY <2>3 DEF Reach, isMember
  <2> QED
    BY <2>1, <2>2, <2>3
<1>3. \A n \in 0 .. Len(args) - 1 : n \in S => n + 1 \in S
  <2> TAKE n \in 0 .. Len(args) - 1
  <2> HAVE n \in S
  <2>1. n + 1 \in 1 .. Len(args) /\ (n + 1) - 1 = n /\ n + 1 \in Nat
    BY <1>0
  <2>2. Nodes(root, args)[n + 1] = Reach(Nodes(root, args)[n], args[n + 1])
    BY <1>0, <2>1, NodesAre
  <2> QED
    BY <1>2, <2>1, <2>2
<1>4. \A n \in 0 .. Len(args) : n \in S
  <2> HIDE DEF S
  <2> QED
    BY <1>0, <1>1, <1>3, InductionBetween
<1>5. \A v \in All : Held(v) /\ Held(OrElse(v, Null))
  BY PathAssumption, ValuesAre DEF Held, OrElse
<1> QED
  BY <1>4, <1>5

\* A path on its own way from two nodes that are the same, or look the same.
LEMMA SameOnTheWay ==
  ASSUME NEW p, NEW q, NEW args \in ArgumentTexts, NEW m \in 0 .. Len(args),
         Nodes(p, args)[m] = Nodes(q, args)[m]
  PROVE  \A n \in m .. Len(args) : Nodes(p, args)[n] = Nodes(q, args)[n]
<1> DEFINE S == {n \in Nat : Nodes(p, args)[n] = Nodes(q, args)[n]}
<1>0. Len(args) \in Nat /\ m \in Nat
  BY ArgumentOfPath
<1>1. m \in S
  BY <1>0
<1>2. \A n \in m .. Len(args) - 1 : n \in S => n + 1 \in S
  <2> TAKE n \in m .. Len(args) - 1
  <2> HAVE n \in S
  <2>1. n + 1 \in 1 .. Len(args) /\ (n + 1) - 1 = n /\ n + 1 \in Nat
    BY <1>0
  <2>2. /\ Nodes(p, args)[n + 1] = Reach(Nodes(p, args)[n], args[n + 1])
        /\ Nodes(q, args)[n + 1] = Reach(Nodes(q, args)[n], args[n + 1])
    BY <1>0, <2>1, NodesAre
  <2> QED
    BY <2>1, <2>2
<1> HIDE DEF S
<1>3. \A n \in m .. Len(args) : n \in S
  BY <1>0, <1>1, <1>2, InductionBetween
<1> QED
  BY <1>3 DEF S

\* Likewise from two nodes that look the same.
LEMMA EquivalentOnTheWay ==
  ASSUME NEW p, NEW q, NEW args \in ArgumentTexts, NEW m \in 0 .. Len(args),
         Equivalent(Nodes(p, args)[m], Nodes(q, args)[m])
  PROVE  \A n \in m .. Len(args) : Equivalent(Nodes(p, args)[n], Nodes(q, args)[n])
<1> DEFINE S == {n \in Nat : Equivalent(Nodes(p, args)[n], Nodes(q, args)[n])}
<1>0. Len(args) \in Nat /\ m \in Nat
  BY ArgumentOfPath
<1>1. m \in S
  BY <1>0
<1>2. \A n \in m .. Len(args) - 1 : n \in S => n + 1 \in S
  <2> TAKE n \in m .. Len(args) - 1
  <2> HAVE n \in S
  <2>1. n + 1 \in 1 .. Len(args) /\ (n + 1) - 1 = n /\ n + 1 \in Nat
    BY <1>0
  <2>2. /\ Nodes(p, args)[n + 1] = Reach(Nodes(p, args)[n], args[n + 1])
        /\ Nodes(q, args)[n + 1] = Reach(Nodes(q, args)[n], args[n + 1])
    BY <1>0, <2>1, NodesAre
  <2>3. \A a : Reach(Null, a) = Lost /\ Reach(Lost, a) = Lost
    BY ValuesAre DEF Reach, isMember
  <2>4. Equivalent(Nodes(p, args)[n], Nodes(q, args)[n])
    OBVIOUS
  <2>5. Equivalent(Nodes(p, args)[n + 1], Nodes(q, args)[n + 1])
    BY <2>2, <2>3, <2>4 DEF Equivalent, OrElse
  <2> QED
    BY <2>1, <2>5
<1> HIDE DEF S
<1>3. \A n \in m .. Len(args) : n \in S
  BY <1>0, <1>1, <1>2, InductionBetween
<1> QED
  BY <1>3 DEF S

\* Two paths that begin alike.
LEMMA AlikeOnTheWay ==
  ASSUME NEW root, NEW args \in ArgumentTexts, NEW other \in ArgumentTexts, NEW m \in Nat,
         m <= Len(args), m <= Len(other), \A j \in 1 .. m : args[j] = other[j]
  PROVE  \A n \in 0 .. m : Nodes(root, args)[n] = Nodes(root, other)[n]
<1> DEFINE S == {n \in Nat : Nodes(root, args)[n] = Nodes(root, other)[n]}
<1>0. Len(args) \in Nat /\ Len(other) \in Nat
  BY ArgumentOfPath
<1>1. 0 \in S
  BY <1>0, NodesAre
<1>2. \A n \in 0 .. m - 1 : n \in S => n + 1 \in S
  <2> TAKE n \in 0 .. m - 1
  <2> HAVE n \in S
  <2>1. n + 1 \in 1 .. Len(args) /\ n + 1 \in 1 .. Len(other) /\ n + 1 \in 1 .. m /\ (n + 1) - 1 = n /\ n + 1 \in Nat
    BY <1>0
  <2>2. /\ Nodes(root, args)[n + 1] = Reach(Nodes(root, args)[n], args[n + 1])
        /\ Nodes(root, other)[n + 1] = Reach(Nodes(root, other)[n], other[n + 1])
    BY <1>0, <2>1, NodesAre
  <2> QED
    BY <2>1, <2>2
<1> HIDE DEF S
<1>3. \A n \in 0 .. m : n \in S
  BY <1>0, <1>1, <1>2, InductionBetween
<1> QED
  BY <1>3 DEF S

\* What is made on the way is what is found on it.
LEMMA MadeIsFound ==
  ASSUME NEW root \in Roots, NEW args \in ArgumentTexts, MakeAsserts(root, args), NEW x
  PROVE  /\ \A n \in 0 .. Len(args) : Nodes(make(root, args, x), args)[n] = Remade(root, args, x)[n]
         /\ \A n \in 0 .. Len(args) - 1 :
              /\ Remade(root, args, x)[n] =
                   With(OrElse(Nodes(root, args)[n], Null), args[n + 1], Remade(root, args, x)[n + 1])
              /\ PutThere(OrElse(Nodes(root, args)[n], Null), args[n + 1], Remade(root, args, x)[n + 1])
<1> DEFINE made == Remade(root, args, x)
           w(n) == OrElse(Nodes(root, args)[n], Null)
           r == make(root, args, x)
<1>0. Len(args) \in Nat /\ \A n \in 1 .. Len(args) : args[n] \in Argument
  BY ArgumentOfPath
<1>1. \A n \in 0 .. Len(args) - 1 : made[n] = With(w(n), args[n + 1], made[n + 1])
  BY <1>0, RemadeAre DEF BackFrom
<1>2. ASSUME NEW n \in 0 .. Len(args) - 1 PROVE PutThere(w(n), args[n + 1], made[n + 1])
  <2>1. n + 1 \in 1 .. Len(args) /\ (n + 1) - 1 = n /\ n \in 0 .. Len(args)
    BY <1>0
  <2>2. Held(w(n)) /\ args[n + 1] \in Argument
    BY <1>0, <2>1, NodesAreHeld
  <2>3. OperatorAsserts(OrElse(Nodes(root, args)[(n + 1) - 1], Null), args[n + 1])
    BY <2>1 DEF MakeAsserts
  <2>4. OperatorAsserts(w(n), args[n + 1])
    BY <2>1, <2>3
  <2> HIDE DEF w, made
  <2> QED
    BY <2>2, <2>4, PutIsFound
<1>3. r = made[0]
  BY DEF make
<1> DEFINE S == {n \in Nat : Nodes(r, args)[n] = made[n]}
<1>4. 0 \in S
  BY <1>0, <1>3, NodesAre
<1> HIDE DEF made, w, r
<1>5. \A n \in 0 .. Len(args) - 1 : n \in S => n + 1 \in S
  <2> TAKE n \in 0 .. Len(args) - 1
  <2> HAVE n \in S
  <2>1. n + 1 \in 1 .. Len(args) /\ (n + 1) - 1 = n /\ n + 1 \in Nat
    BY <1>0
  <2>2. Nodes(r, args)[n + 1] = Reach(Nodes(r, args)[n], args[n + 1])
    BY <1>0, <2>1, NodesAre
  <2>3. Reach(made[n], args[n + 1]) = made[n + 1]
    BY <1>1, <1>2 DEF PutThere
  <2> QED
    BY <2>1, <2>2, <2>3
<1> HIDE DEF S
<1>6. \A n \in 0 .. Len(args) : n \in S
  BY <1>0, <1>4, <1>5, InductionBetween
<1>7. \A n \in 0 .. Len(args) : Nodes(r, args)[n] = made[n]
  BY <1>6 DEF S
<1> QED
  BY <1>1, <1>2, <1>7 DEF made, w, r

\* A path that leads elsewhere finds what it found before.
LEMMA ElsewhereIsKept ==
  ASSUME NEW root \in Roots, NEW args \in ArgumentTexts, MakeAsserts(root, args), NEW x,
         NEW other \in ArgumentTexts, \E n \in DOMAIN args \cap DOMAIN other : args[n] # other[n]
  PROVE  resolve(make(root, args, x), other) = resolve(root, other)
<1> DEFINE r == make(root, args, x)
           made == Remade(root, args, x)
           w(n) == OrElse(Nodes(root, args)[n], Null)
<1>0. /\ Len(args) \in Nat /\ Len(other) \in Nat
      /\ DOMAIN args = 1 .. Len(args) /\ DOMAIN other = 1 .. Len(other)
      /\ \A n \in 1 .. Len(other) : other[n] \in Argument
  BY ArgumentOfPath
<1>1. PICK m \in Nat : /\ m + 1 \in DOMAIN args \cap DOMAIN other /\ args[m + 1] # other[m + 1]
                       /\ \A j \in 1 .. m : args[j] = other[j]
  <2> DEFINE D == {n \in DOMAIN args \cap DOMAIN other : args[n] # other[n]}
  <2>1. D # {} /\ D \subseteq Nat
    BY <1>0
  <2> HIDE DEF D
  <2>2. PICK n \in D : \A j \in D : ~(j < n)
    BY <2>1, LeastNatural
  <2>3. n \in DOMAIN args \cap DOMAIN other /\ args[n] # other[n]
    BY <2>2 DEF D
  <2>4. n - 1 \in Nat /\ (n - 1) + 1 = n
    BY <1>0, <2>3
  <2>5. ASSUME NEW j \in 1 .. n - 1 PROVE args[j] = other[j]
    <3>1. j \in DOMAIN args \cap DOMAIN other /\ j < n
      BY <1>0, <2>3
    <3>2. j \notin D
      BY <2>2, <3>1
    <3> QED
      BY <3>1, <3>2 DEF D
  <2> QED
    BY <2>3, <2>4, <2>5
<1>2. m \in 0 .. Len(args) - 1 /\ m + 1 \in 1 .. Len(other) /\ m <= Len(args) /\ m <= Len(other)
      /\ m \in 0 .. m /\ (m + 1) - 1 = m /\ m \in 0 .. Len(args) /\ m + 1 \in 0 .. Len(other)
      /\ Len(other) \in m + 1 .. Len(other)
  BY <1>0, <1>1
<1>3. Nodes(r, args)[m] = Nodes(r, other)[m] /\ Nodes(root, args)[m] = Nodes(root, other)[m]
  <2> HIDE DEF r
  <2> QED
    BY <1>1, <1>2, AlikeOnTheWay
<1>4. /\ Nodes(r, args)[m] = made[m] /\ made[m] = With(w(m), args[m + 1], made[m + 1])
      /\ PutThere(w(m), args[m + 1], made[m + 1])
  BY <1>2, MadeIsFound
<1>5. /\ Nodes(r, other)[m + 1] = Reach(Nodes(r, other)[m], other[m + 1])
      /\ Nodes(root, other)[m + 1] = Reach(Nodes(root, other)[m], other[m + 1])
  <2> HIDE DEF r
  <2>1. ASSUME NEW v PROVE Nodes(v, other)[m + 1] = Reach(Nodes(v, other)[m], other[m + 1])
    <3>1. Nodes(v, other)[m + 1] = Reach(Nodes(v, other)[(m + 1) - 1], other[m + 1])
      BY <1>0, <1>2, NodesAre
    <3> QED
      BY <1>2, <3>1
  <2> QED
    BY <2>1
<1> HIDE DEF r, made
<1>6. Equivalent(Reach(made[m], other[m + 1]), Reach(w(m), other[m + 1]))
  <2> HIDE DEF w
  <2> QED
    BY <1>0, <1>1, <1>2, <1>4 DEF PutThere
<1>7. Equivalent(Reach(w(m), other[m + 1]), Reach(Nodes(root, args)[m], other[m + 1]))
  <2>1. \A a : Reach(Null, a) = Lost /\ Reach(Lost, a) = Lost
    BY ValuesAre DEF Reach, isMember
  <2> QED
    BY <2>1 DEF Equivalent, OrElse
<1>8. Equivalent(Nodes(r, other)[m + 1], Nodes(root, other)[m + 1])
  BY <1>3, <1>4, <1>5, <1>6, <1>7 DEF Equivalent
<1>9. Equivalent(Nodes(r, other)[Len(other)], Nodes(root, other)[Len(other)])
  BY <1>2, <1>8, EquivalentOnTheWay
<1> QED
  BY <1>9 DEF Equivalent, resolve, resolveOr, r

LEMMA FirstOnly ==
  ASSUME NEW S, NEW s \in Seq(S), Len(s) > 0
  PROVE  SubSeq(s, 1, 1) = <<s[1]>>
<1>1. SubSeq(s, 1, 1) \in Seq(S) /\ Len(SubSeq(s, 1, 1)) = 1 /\ SubSeq(s, 1, 1)[1] = s[1]
  BY SubSeqProperties
<1>2. <<s[1]>> \in Seq(S) /\ Len(<<s[1]>>) = 1 /\ <<s[1]>>[1] = s[1]
  OBVIOUS
<1>3. \A i \in 1 .. Len(SubSeq(s, 1, 1)) : SubSeq(s, 1, 1)[i] = <<s[1]>>[i]
  BY <1>1, <1>2
<1> QED
  BY <1>1, <1>2, <1>3, SeqEqual

\* A member that is removed is found no more, the others are.
LEMMA RemovedIsGone ==
  ASSUME NEW r, Held(r), r.type = "object", NEW a \in Argument, a.kind = "key", Reach(r, a) # Lost,
         NEW other \in ArgumentTexts, other # <<>>
  PROVE  resolveOr(removeMember(r, a.key).rest, other, Lost) =
           IF other[1] = a THEN Lost ELSE resolveOr(r, other, Lost)
<1> DEFINE rest == removeMember(r, a.key).rest
           b == other[1]
<1>1. isMember(r, a.key) /\ r = Object(r.fields)
  BY ValuesAre DEF Reach, isMember, Held
<1>2. rest = Object(Erase(r.fields, {a.key}))
  BY <1>1 DEF removeMember
<1>3. /\ rest.type = "object" /\ DOMAIN rest.fields = DOMAIN r.fields \ {a.key}
      /\ \A k \in DOMAIN rest.fields : rest.fields[k] = r.fields[k]
  BY <1>2, ValuesAre DEF Erase
<1>4. /\ Len(other) \in Nat /\ Len(other) > 0 /\ b \in Argument
      /\ 1 \in 0 .. Len(other) /\ 1 \in 1 .. Len(other) /\ Len(other) \in 1 .. Len(other) /\ 1 - 1 = 0
  BY DEF ArgumentTexts
<1> HIDE DEF rest, b
<1>5. \A v : Nodes(v, other)[1] = Reach(v, b)
  BY <1>4, NodesAre DEF b
<1>6. CASE b = a
  <2>1. Reach(rest, b) = Lost
    BY <1>3, <1>6 DEF Reach, isMember
  <2>2. Reach(Lost, b) = Lost
    BY ValuesAre DEF Reach, isMember
  <2>3. Nodes(rest, other)[1] = Nodes(Lost, other)[1]
    BY <1>5, <2>1, <2>2
  <2>4. Nodes(rest, other)[Len(other)] = Nodes(Lost, other)[Len(other)]
    BY <1>4, <2>3, SameOnTheWay
  <2>5. Nodes(Lost, other)[Len(other)] = Lost
    <3> DEFINE S == {n \in Nat : Nodes(Lost, other)[n] = Lost}
    <3>1. 0 \in S
      BY <1>4, NodesAre
    <3>2. \A n \in 0 .. Len(other) - 1 : n \in S => n + 1 \in S
      <4> TAKE n \in 0 .. Len(other) - 1
      <4> HAVE n \in S
      <4>1. n + 1 \in 1 .. Len(other) /\ (n + 1) - 1 = n /\ n + 1 \in Nat
        BY <1>4
      <4>2. Nodes(Lost, other)[n + 1] = Reach(Nodes(Lost, other)[n], other[n + 1])
        BY <1>4, <4>1, NodesAre
      <4>3. \A c : Reach(Lost, c) = Lost
        BY ValuesAre DEF Reach, isMember
      <4> QED
        BY <4>1, <4>2, <4>3
    <3> HIDE DEF S
    <3>3. \A n \in 0 .. Len(other) : n \in S
      BY <1>4, <3>1, <3>2, InductionBetween
    <3> QED
      BY <1>4, <3>3 DEF S
  <2> QED
    BY <1>6, <2>4, <2>5 DEF resolveOr, OrElse, rest, b
<1>7. CASE b # a
  <2>1. Reach(rest, b) = Reach(r, b)
    <3>1. CASE b.kind = "index"
      BY <1>3, <3>1 DEF Reach, isMember
    <3>2. CASE b.kind = "key"
      <4>1. b.key # a.key
        BY <1>4, <1>7, <3>2, ArgumentsAre
      <4> QED
        BY <1>3, <3>2, <4>1 DEF Reach, isMember
    <3> QED
      BY <1>4, <3>1, <3>2, ArgumentsAre
  <2>2. Nodes(rest, other)[1] = Nodes(r, other)[1]
    BY <1>5, <2>1
  <2>3. Nodes(rest, other)[Len(other)] = Nodes(r, other)[Len(other)]
    BY <1>4, <2>2, SameOnTheWay
  <2> QED
    BY <1>7, <2>3 DEF resolveOr, rest, b
<1> QED
  BY <1>6, <1>7

\* What PathsResolve says of a Value and what has been made of it.
MakingIsRight(root, args, x) ==
  LET made == make(root, args, x)
      Elsewhere(other) == \E n \in DOMAIN args \cap DOMAIN other : args[n] # other[n]
      key == args[1].key
      less == removeMember(made, key)
  IN  /\ resolve(made, args) = x
      /\ resolveOr(made, args, Lost) = x
      /\ \A other \in Paths : Elsewhere(other) => resolve(made, other) = resolve(root, other)
      /\ (args # <<>> /\ args[1].kind = "key") =>
           /\ less.removed = resolve(made, SubSeq(args, 1, 1))
           /\ getMemberNames(less.rest) = getMemberNames(made) \ {key}
           /\ \A other \in Paths :
                other # <<>> => resolveOr(less.rest, other, Lost) =
                  IF other[1] = args[1] THEN Lost ELSE resolveOr(made, other, Lost)

\* Where no operator[] on the way throws.
LEMMA MakingMakes ==
  ASSUME NEW root \in Roots, NEW args \in ArgumentTexts, MakeAsserts(root, args), NEW x, x # Lost
  PROVE  MakingIsRight(root, args, x)
<1> DEFINE r == make(root, args, x)
           made == Remade(root, args, x)
           w(n) == OrElse(Nodes(root, args)[n], Null)
           key == args[1].key
           less == removeMember(r, key)
<1>0. Len(args) \in Nat /\ Len(args) \in 0 .. Len(args) /\ Paths \subseteq ArgumentTexts
  BY ArgumentOfPath, PathAssumption DEF ArgumentTexts
<1>5. made[Len(args)] = x
  BY <1>0, RemadeAre DEF BackFrom
<1>1. Nodes(r, args)[Len(args)] = x
  BY <1>0, <1>5, MadeIsFound
<1>2. resolve(r, args) = x /\ resolveOr(r, args, Lost) = x
  BY <1>1 DEF resolve, resolveOr, OrElse
<1>3. ASSUME NEW other \in Paths, \E n \in DOMAIN args \cap DOMAIN other : args[n] # other[n]
      PROVE  resolve(r, other) = resolve(root, other)
  BY <1>0, <1>3, ElsewhereIsKept
<1>4. ASSUME args # <<>>, args[1].kind = "key"
      PROVE  /\ less.removed = resolve(r, SubSeq(args, 1, 1))
             /\ getMemberNames(less.rest) = getMemberNames(r) \ {key}
             /\ \A other \in Paths :
                  other # <<>> => resolveOr(less.rest, other, Lost) =
                    IF other[1] = args[1] THEN Lost ELSE resolveOr(r, other, Lost)
  <2> DEFINE a == args[1]
  <2>1. /\ Len(args) > 0 /\ a \in Argument /\ 0 \in 0 .. Len(args) - 1 /\ 0 + 1 = 1
        /\ 1 \in 0 .. Len(args) /\ SubSeq(args, 1, 1) = <<a>> /\ <<a>> \in ArgumentTexts
        /\ 0 \in 0 .. Len(args)
    <3>1. Len(args) \in Nat /\ Len(args) > 0 /\ a \in Argument
      BY <1>4 DEF ArgumentTexts
    <3>2. SubSeq(args, 1, 1) = <<a>>
      <4>1. args \in Seq(Argument)
        BY DEF ArgumentTexts
      <4> QED
        BY <3>1, <4>1, FirstOnly
    <3>3. <<a>> \in ArgumentTexts
      BY <3>1 DEF ArgumentTexts
    <3>4. 0 \in 0 .. Len(args) - 1 /\ 1 \in 0 .. Len(args) /\ 0 \in 0 .. Len(args) /\ 0 + 1 = 1
      BY <3>1
    <3> QED
      BY <3>1, <3>2, <3>3, <3>4
  <2>2. PutThere(w(0), a, made[1]) /\ made[0] = With(w(0), a, made[1])
    BY <2>1, MadeIsFound
  <2>3. r = made[0]
    BY DEF make
  <2>4. made[1] # Lost
    <3>1. CASE Len(args) = 1
      BY <1>5, <3>1
    <3>2. CASE Len(args) # 1
      <4>1. 1 \in 0 .. Len(args) - 1
        <5>1. Len(args) \in Nat /\ Len(args) > 0
          BY <1>0, <2>1
        <5>2. \A m \in Nat : m > 0 /\ m # 1 => 1 \in 0 .. m - 1
          OBVIOUS
        <5> QED
          BY <3>2, <5>1, <5>2
      <4>2. PutThere(w(1), args[1 + 1], made[1 + 1]) /\ made[1] = With(w(1), args[1 + 1], made[1 + 1])
        BY <4>1, MadeIsFound
      <4> QED
        BY <4>2 DEF PutThere
    <3> QED
      BY <3>1, <3>2
  <2>5. a.kind = "key"
    BY <1>4
  <2> HIDE DEF made, r, w, a
  <2>6. Held(r) /\ r.type = "object" /\ Reach(r, a) = made[1]
    BY <2>2, <2>3, <2>5 DEF PutThere
  <2>7. isMember(r, a.key) /\ r.fields[a.key] = made[1] /\ key = a.key /\ r = Object(r.fields)
    BY <2>4, <2>5, <2>6 DEF Reach, Held, a
  <2> HIDE DEF key
  <2>8. less.removed = resolve(r, SubSeq(args, 1, 1))
    <3>1. less.removed = made[1]
      BY <2>7 DEF removeMember, get
    <3>2. Nodes(r, <<a>>)[1] = Reach(r, a)
      <4>1. Len(<<a>>) = 1 /\ <<a>>[1] = a /\ 1 \in Nat /\ 1 \in 1 .. 1 /\ 1 - 1 = 0
        OBVIOUS
      <4> QED
        BY <4>1, NodesAre
    <3>3. Len(<<a>>) = 1
      OBVIOUS
    <3> QED
      BY <2>1, <2>4, <2>6, <3>1, <3>2, <3>3 DEF resolve, resolveOr, OrElse
  <2>9. getMemberNames(less.rest) = getMemberNames(r) \ {key}
    <3>1. less.rest = Object(Erase(r.fields, {key}))
      BY <2>7 DEF removeMember
    <3>2. less.rest # Null /\ r # Null
      BY <2>6, <3>1, ValuesAre
    <3> HIDE DEF less
    <3>3. DOMAIN less.rest.fields = DOMAIN r.fields \ {key}
      BY <3>1, ValuesAre DEF Erase
    <3> QED
      BY <3>2, <3>3 DEF getMemberNames
  <2>10. ASSUME NEW other \in Paths, other # <<>>
         PROVE  resolveOr(less.rest, other, Lost) =
                  IF other[1] = a THEN Lost ELSE resolveOr(r, other, Lost)
    <3>1. other \in ArgumentTexts /\ Reach(r, a) # Lost /\ a \in Argument
      BY <1>0, <2>1, <2>4, <2>6
    <3>2. resolveOr(removeMember(r, a.key).rest, other, Lost) =
            IF other[1] = a THEN Lost ELSE resolveOr(r, other, Lost)
      BY <2>5, <2>6, <2>10, <3>1, RemovedIsGone
    <3> QED
      BY <2>7, <3>2
  <2> QED
    BY <2>8, <2>9, <2>10 DEF a
<1> HIDE DEF r
<1> QED
  BY <1>2, <1>3, <1>4 DEF MakingIsRight, r

-----------------------------------------------------------------------------
(* The text of a path.                                                     *)

\* What a path is made of, and the arguments with those that are missing.
InArguments == Seq(Argument \cup {NoArgument})
PathTexts == PathText \X InArguments
PathLength == [p \in PathTexts |-> Len(p[1])]

NameEnds(t) == Min({j \in 1 .. Len(t) + 1 : j > Len(t) \/ t[j] \in {Dot, Opening}})

\* The alternatives of one step of makePath.
RestOf(g, t, n, left) == g[<<SubSeq(t, n, Len(t)), left>>]
FilledIn(g, t, in, kind, n) == addPathInArg(in, kind).args \o RestOf(g, t, n, addPathInArg(in, kind).in)
DigitsIn(g, t, in) ==
  <<Index(ArrayIndex(SubSeq(t, 2, Beyond(t, 2, DigitBytes) - 1)))>>
    \o RestOf(g, t, Beyond(t, 2, DigitBytes) + 1, in)
NameIn(g, t, in) == <<Key(SubSeq(t, 1, NameEnds(t) - 1))>> \o RestOf(g, t, NameEnds(t), in)

MakeStep(g, p) ==
  LET t  == p[1]
      in == p[2]
  IN  CASE t = <<>> -> <<>>
        [] t # <<>> /\ t[1] = Opening /\ CharAt(t, 2) = Percent -> FilledIn(g, t, in, "index", 3)
        [] t # <<>> /\ t[1] = Opening /\ CharAt(t, 2) # Percent -> DigitsIn(g, t, in)
        [] t # <<>> /\ t[1] = Percent -> FilledIn(g, t, in, "key", 2)
        [] t # <<>> /\ t[1] \in {Dot, Closing} -> RestOf(g, t, 2, in)
        [] OTHER -> NameIn(g, t, in)

\* Where the digits end, and where a name ends.
LEMMA EndsAre ==
  ASSUME NEW t \in PathText, t # <<>>
  PROVE  /\ Beyond(t, 2, DigitBytes) \in 2 .. Len(t) + 1
         /\ NameEnds(t) \in 1 .. Len(t) + 1
         /\ t[1] \notin {Dot, Opening} => NameEnds(t) >= 2
<1> DEFINE A == {j \in 2 .. Len(t) + 1 : j > Len(t) \/ t[j] \notin DigitBytes}
           B == {j \in 1 .. Len(t) + 1 : j > Len(t) \/ t[j] \in {Dot, Opening}}
<1>1. Len(t) \in Nat /\ Len(t) > 0
  BY DEF PathText
<1>2. A \subseteq Nat /\ Len(t) + 1 \in A
  BY <1>1
<1>3. B \subseteq Nat /\ Len(t) + 1 \in B
  BY <1>1
<1>4. A \subseteq 2 .. Len(t) + 1 /\ B \subseteq 1 .. Len(t) + 1
  OBVIOUS
<1>5. t[1] \notin {Dot, Opening} => 1 \notin B
  BY <1>1
<1>6. Beyond(t, 2, DigitBytes) = Min(A) /\ NameEnds(t) = Min(B)
  BY DEF Beyond, NameEnds
<1> HIDE DEF A, B
<1>7. Min(A) \in A /\ Min(B) \in B
  <2>1. A # {} /\ B # {}
    BY <1>2, <1>3
  <2> QED
    BY <1>2, <1>3, <2>1, MinIs
<1>8. Min(A) \in 2 .. Len(t) + 1 /\ Min(B) \in 1 .. Len(t) + 1
  BY <1>4, <1>7
<1>9. t[1] \notin {Dot, Opening} => Min(B) # 1
  BY <1>5, <1>7
<1> QED
  BY <1>1, <1>6, <1>8, <1>9

LEMMA InArgumentsStay ==
  ASSUME NEW in \in InArguments, NEW kind
  PROVE  addPathInArg(in, kind).in \in InArguments
<1>1. CASE in # <<>> /\ in[1].kind = kind
  <2>1. Tail(in) \in InArguments
    BY <1>1 DEF InArguments
  <2> QED
    BY <1>1, <2>1 DEF addPathInArg
<1>2. CASE ~(in # <<>> /\ in[1].kind = kind)
  BY <1>2 DEF addPathInArg
<1> QED
  BY <1>1, <1>2

\* One step, by the signs that a path begins with.
OneStep(f, t, in, step) ==
  /\ t[1] = Opening /\ CharAt(t, 2) = Percent => step = FilledIn(f, t, in, "index", 3)
  /\ t[1] = Opening /\ CharAt(t, 2) # Percent => step = DigitsIn(f, t, in)
  /\ t[1] = Percent => step = FilledIn(f, t, in, "key", 2)
  /\ t[1] \in {Dot, Closing} => step = RestOf(f, t, 2, in)
  /\ t[1] \notin {Opening, Percent, Dot, Closing} => step = NameIn(f, t, in)

LEMMA MakeStepIs ==
  ASSUME NEW f, NEW t, NEW in, t # <<>>
  PROVE  OneStep(f, t, in, MakeStep(f, <<t, in>>))
  BY DEF OneStep, MakeStep, Opening, Percent, Dot, Closing

\* makePath as the function its recursion defines.
LEMMA makePathIs == makePath = [p \in PathTexts |-> MakeStep(makePath, p)]
<1> DEFINE R == Smaller(PathLength, PathTexts)
<1>1. PathLength \in [PathTexts -> Nat]
  BY DEF PathLength, PathTexts, PathText
<1>2. IsWellFoundedOn(R, PathTexts)
  BY <1>1, MeasureIsWellFounded
<1>3. WFDefOn(R, PathTexts, MakeStep)
  <2> SUFFICES ASSUME NEW g, NEW h, NEW p \in PathTexts,
                      \A y \in SetLessThan(p, R, PathTexts) : g[y] = h[y]
               PROVE  MakeStep(g, p) = MakeStep(h, p)
    BY DEF WFDefOn
  <2>1. PICK t \in PathText, in \in InArguments : p = <<t, in>>
    BY DEF PathTexts
  <2>2. CASE t = <<>>
    BY <2>1, <2>2 DEF MakeStep
  <2>3. CASE t # <<>>
    <3>1. ASSUME NEW n \in Nat, n >= 2, NEW left \in InArguments PROVE RestOf(g, t, n, left) = RestOf(h, t, n, left)
      <4> DEFINE r == SubSeq(t, n, Len(t))
      <4>1. r \in PathText /\ Len(r) < Len(t)
        BY <2>3, <3>1 DEF PathText
      <4> HIDE DEF r
      <4>2. <<r, left>> \in PathTexts
        BY <3>1, <4>1 DEF PathTexts
      <4>3. PathLength[<<r, left>>] = Len(r) /\ PathLength[p] = Len(t)
        BY <2>1, <4>2 DEF PathLength
      <4>4. <<r, left>> \in SetLessThan(p, R, PathTexts)
        BY <4>1, <4>2, <4>3 DEF SetLessThan, Smaller
      <4>5. g[<<r, left>>] = h[<<r, left>>]
        BY <4>4
      <4> QED
        BY <4>5 DEF r, RestOf
    <3>2. /\ Beyond(t, 2, DigitBytes) + 1 \in Nat /\ Beyond(t, 2, DigitBytes) + 1 >= 2
          /\ NameEnds(t) \in Nat /\ (t[1] \notin {Dot, Opening} => NameEnds(t) >= 2)
      BY <2>3, EndsAre
    <3>3. /\ \A kind : /\ RestOf(g, t, 2, addPathInArg(in, kind).in) = RestOf(h, t, 2, addPathInArg(in, kind).in)
                       /\ RestOf(g, t, 3, addPathInArg(in, kind).in) = RestOf(h, t, 3, addPathInArg(in, kind).in)
          /\ RestOf(g, t, 2, in) = RestOf(h, t, 2, in)
          /\ RestOf(g, t, Beyond(t, 2, DigitBytes) + 1, in) = RestOf(h, t, Beyond(t, 2, DigitBytes) + 1, in)
          /\ t[1] \notin {Dot, Opening} => RestOf(g, t, NameEnds(t), in) = RestOf(h, t, NameEnds(t), in)
      <4>1. 2 \in Nat /\ 3 \in Nat /\ 2 >= 2 /\ 3 >= 2
        OBVIOUS
      <4> QED
        BY <3>1, <3>2, <4>1, InArgumentsStay
    <3>4. MakeStep(g, <<t, in>>) = MakeStep(h, <<t, in>>)
      <4>1. OneStep(g, t, in, MakeStep(g, <<t, in>>)) /\ OneStep(h, t, in, MakeStep(h, <<t, in>>))
        BY <2>3, MakeStepIs
      <4>2. CASE t[1] = Opening /\ CharAt(t, 2) = Percent
        BY <3>3, <4>1, <4>2 DEF OneStep, FilledIn, DigitsIn, NameIn
      <4>3. CASE t[1] = Opening /\ CharAt(t, 2) # Percent
        BY <3>3, <4>1, <4>3 DEF OneStep, FilledIn, DigitsIn, NameIn
      <4>4. CASE t[1] = Percent
        BY <3>3, <4>1, <4>4 DEF OneStep, FilledIn, DigitsIn, NameIn
      <4>5. CASE t[1] \in {Dot, Closing}
        BY <3>3, <4>1, <4>5 DEF OneStep, FilledIn, DigitsIn, NameIn
      <4>6. CASE t[1] \notin {Opening, Percent, Dot, Closing}
        BY <3>3, <4>1, <4>6 DEF OneStep, FilledIn, DigitsIn, NameIn
      <4> QED
        BY <4>2, <4>3, <4>4, <4>5, <4>6
    <3> QED
      BY <2>1, <3>4
  <2> QED
    BY <2>2, <2>3
<1>4. OpDefinesFcn(makePath, PathTexts, MakeStep)
  BY DEF OpDefinesFcn, makePath, MakeStep, FilledIn, DigitsIn, NameIn, RestOf, NameEnds, PathTexts, InArguments
<1> HIDE DEF R
<1>5. WFInductiveDefines(makePath, PathTexts, MakeStep)
  BY <1>2, <1>3, <1>4, WFInductiveDef
<1> QED
  BY <1>5 DEF WFInductiveDefines

StepTexts == Seq(PathStep)
GivenStep(g, steps) ==
  IF steps = <<>> THEN <<>>
  ELSE (IF steps[1].given THEN <<steps[1].arg>> ELSE <<>>) \o g[Tail(steps)]
SpelledStep(g, steps) == IF steps = <<>> THEN <<>> ELSE Piece(steps[1]) \o g[Tail(steps)]

LEMMA GivenToIs == GivenTo = [steps \in StepTexts |-> GivenStep(GivenTo, steps)]
<1>1. WFDefOn(Shorter(PathStep), StepTexts, GivenStep)
  BY TheRest DEF WFDefOn, GivenStep, StepTexts
<1>2. OpDefinesFcn(GivenTo, StepTexts, GivenStep)
  BY DEF OpDefinesFcn, GivenTo, GivenStep, StepTexts
<1>3. WFInductiveDefines(GivenTo, StepTexts, GivenStep)
  BY <1>1, <1>2, TextsBecomeShorter, WFInductiveDef DEF StepTexts
<1> QED
  BY <1>3 DEF WFInductiveDefines

LEMMA SpelledIs == Spelled = [steps \in StepTexts |-> SpelledStep(Spelled, steps)]
<1>1. WFDefOn(Shorter(PathStep), StepTexts, SpelledStep)
  BY TheRest DEF WFDefOn, SpelledStep, StepTexts
<1>2. OpDefinesFcn(Spelled, StepTexts, SpelledStep)
  BY DEF OpDefinesFcn, Spelled, SpelledStep, StepTexts
<1>3. WFInductiveDefines(Spelled, StepTexts, SpelledStep)
  BY <1>1, <1>2, TextsBecomeShorter, WFInductiveDef DEF StepTexts
<1> QED
  BY <1>3 DEF WFInductiveDefines

\* One step of a path's text, by its signs.
LEMMA PathIsRead ==
  ASSUME NEW t \in PathText, t # <<>>, NEW in \in InArguments
  PROVE  OneStep(makePath, t, in, makePath[<<t, in>>])
<1>1. <<t, in>> \in PathTexts
  BY DEF PathTexts
<1>2. makePath[<<t, in>>] = MakeStep(makePath, <<t, in>>)
  BY <1>1, makePathIs
<1> QED
  BY <1>2, MakeStepIs

LEMMA PathEnds ==
  ASSUME NEW in \in InArguments
  PROVE  makePath[<<<<>>, in>>] = <<>>
<1>1. <<<<>>, in>> \in PathTexts
  <2>1. <<>> \in PathText
    BY DEF PathText
  <2> QED
    BY <2>1 DEF PathTexts
<1>2. makePath[<<<<>>, in>>] = MakeStep(makePath, <<<<>>, in>>)
  BY <1>1, makePathIs
<1> QED
  BY <1>2 DEF MakeStep

\* The argument a is used up.
Taken(in, kind, a, left) == addPathInArg(in, kind).args = <<a>> /\ addPathInArg(in, kind).in = left

\* An argument is taken where its placeholder is.
LEMMA ArgumentIsTaken ==
  ASSUME NEW a \in Argument, NEW left \in InArguments
  PROVE  <<a>> \o left \in InArguments /\ Taken(<<a>> \o left, a.kind, a, left)
<1> DEFINE in == <<a>> \o left
<1>1. a \in Argument \cup {NoArgument}
  OBVIOUS
<1>2. in \in InArguments /\ in # <<>> /\ in[1] = a /\ Tail(in) = left
  BY <1>1, OneBefore DEF InArguments
<1> HIDE DEF in
<1>3. Taken(in, a.kind, a, left)
  BY <1>2 DEF addPathInArg, Taken
<1> QED
  BY <1>2, <1>3 DEF in

\* A sign that is skipped.
LEMMA SignIsSkipped ==
  ASSUME NEW sign \in {Dot, Closing}, NEW rest \in PathText, NEW in \in InArguments
  PROVE  /\ <<sign>> \o rest \in PathText
         /\ makePath[<<<<sign>> \o rest, in>>] = makePath[<<rest, in>>]
<1> DEFINE t == <<sign>> \o rest
<1>1. sign \in Byte \ {0}
  BY DEF Dot, Closing, Byte
<1>2. t \in PathText /\ t # <<>> /\ t[1] = sign /\ SubSeq(t, 2, Len(t)) = rest
  BY <1>1, OneBefore DEF PathText
<1> HIDE DEF t
<1>3. makePath[<<t, in>>] = RestOf(makePath, t, 2, in)
  BY <1>2, PathIsRead DEF OneStep
<1> QED
  BY <1>2, <1>3 DEF RestOf, t

LEMMA OneAndOne ==
  ASSUME NEW S, NEW a \in S, NEW b \in S, NEW r \in Seq(S)
  PROVE  <<a, b>> \o r = <<a>> \o (<<b>> \o r)
<1> DEFINE s == <<a, b>> \o r
           u == <<b>> \o r
           t == <<a>> \o u
<1>1. u \in Seq(S) /\ Len(u) = Len(r) + 1 /\ u[1] = b /\ \A i \in 1 .. Len(r) : u[i + 1] = r[i]
  OBVIOUS
<1>2. s \in Seq(S) /\ Len(s) = Len(r) + 2 /\ s[1] = a /\ s[2] = b /\ \A i \in 1 .. Len(r) : s[i + 2] = r[i]
  OBVIOUS
<1> HIDE DEF u, s
<1>3. t \in Seq(S) /\ Len(t) = Len(u) + 1 /\ t[1] = a /\ \A i \in 1 .. Len(u) : t[i + 1] = u[i]
  BY <1>1
<1> HIDE DEF t
<1>4. \A i \in 1 .. Len(s) : s[i] = t[i]
  <2> TAKE i \in 1 .. Len(s)
  <2>1. CASE i = 1
    BY <1>2, <1>3, <2>1
  <2>2. CASE i = 2
    BY <1>1, <1>2, <1>3, <2>2
  <2>3. CASE i > 2
    <3>1. /\ i - 2 \in 1 .. Len(r) /\ i - 1 \in 1 .. Len(u) /\ (i - 2) + 2 = i
          /\ (i - 1) + 1 = i /\ (i - 2) + 1 = i - 1
      BY <1>1, <1>2, <2>3
    <3>2. s[i] = r[i - 2] /\ t[i] = u[i - 1] /\ u[i - 1] = r[i - 2]
      BY <1>1, <1>2, <1>3, <3>1
    <3> QED
      BY <3>2
  <2> QED
    BY <1>2, <2>1, <2>2, <2>3
<1>5. Len(s) = Len(t)
  BY <1>1, <1>2, <1>3
<1> QED
  BY <1>2, <1>3, <1>4, <1>5, SeqEqual DEF s, t, u

\* Placeholders.
LEMMA GivenIndexIsRead ==
  ASSUME NEW a \in Argument, a.kind = "index", NEW rest \in PathText, NEW left \in InArguments
  PROVE  makePath[<<<<Opening, Percent, Closing>> \o rest, <<a>> \o left>>] = <<a>> \o makePath[<<rest, left>>]
<1> DEFINE t == <<Opening, Percent, Closing>> \o rest
           in == <<a>> \o left
           r == <<Closing>> \o rest
<1>0. Opening \in Byte \ {0} /\ Percent \in Byte \ {0} /\ Closing \in Byte \ {0}
  BY DEF Opening, Percent, Closing, Byte
<1>1. r \in PathText /\ makePath[<<r, left>>] = makePath[<<rest, left>>]
  BY SignIsSkipped
<1>2. t = <<Opening, Percent>> \o r
  BY <1>0 DEF PathText
<1> HIDE DEF r
<1>3. t \in PathText /\ t # <<>> /\ t[1] = Opening /\ t[2] = Percent /\ SubSeq(t, 3, Len(t)) = r /\ Len(t) >= 2
  <2> HIDE DEF t
  <2>1. r \in Seq(Byte \ {0})
    BY <1>1 DEF PathText
  <2>2. Len(r) \in Nat /\ Len(t) = Len(r) + 2
    BY <1>0, <1>2, <2>1
  <2> QED
    BY <1>0, <1>2, <2>1, <2>2, TwoBefore DEF PathText
<1>4. in \in InArguments /\ Taken(in, "index", a, left)
  BY ArgumentIsTaken
<1> HIDE DEF t, in
<1>5. CharAt(t, 2) = Percent
  BY <1>3 DEF CharAt
<1>6. makePath[<<t, in>>] = FilledIn(makePath, t, in, "index", 3)
  BY <1>3, <1>4, <1>5, PathIsRead DEF OneStep
<1>7. FilledIn(makePath, t, in, "index", 3) = <<a>> \o makePath[<<SubSeq(t, 3, Len(t)), left>>]
  BY <1>4, Zenon DEF Taken, FilledIn, RestOf
<1> QED
  BY <1>1, <1>3, <1>6, <1>7, Zenon DEF t, in

LEMMA GivenKeyIsRead ==
  ASSUME NEW a \in Argument, a.kind = "key", NEW rest \in PathText, NEW left \in InArguments
  PROVE  makePath[<<<<Dot, Percent>> \o rest, <<a>> \o left>>] = <<a>> \o makePath[<<rest, left>>]
<1> DEFINE in == <<a>> \o left
           r == <<Percent>> \o rest
<1>0. Dot \in Byte \ {0} /\ Percent \in Byte \ {0} /\ Percent \notin {Dot, Closing, Opening}
  BY DEF Opening, Percent, Dot, Closing, Byte
<1>1. r \in PathText /\ r # <<>> /\ r[1] = Percent /\ SubSeq(r, 2, Len(r)) = rest
  BY <1>0, OneBefore DEF PathText
<1>2. <<Dot, Percent>> \o rest = <<Dot>> \o r
  BY <1>0, OneAndOne DEF PathText
<1>4. in \in InArguments /\ Taken(in, "key", a, left)
  BY ArgumentIsTaken
<1> HIDE DEF r, in
<1>5. makePath[<<<<Dot>> \o r, in>>] = makePath[<<r, in>>]
  BY <1>1, <1>4, SignIsSkipped
<1>6. makePath[<<r, in>>] = FilledIn(makePath, r, in, "key", 2)
  BY <1>1, <1>4, PathIsRead DEF OneStep
<1>7. FilledIn(makePath, r, in, "key", 2) = <<a>> \o makePath[<<SubSeq(r, 2, Len(r)), left>>]
  BY <1>4, Zenon DEF Taken, FilledIn, RestOf
<1> QED
  BY <1>1, <1>2, <1>5, <1>6, <1>7, Zenon DEF in

PathBytes == Byte \ {0}

LEMMA TheSigns ==
  /\ Dot \in PathBytes /\ Percent \in PathBytes /\ Opening \in PathBytes /\ Closing \in PathBytes
  /\ Percent \notin {Dot, Opening, Closing} /\ Closing \notin {Dot, Opening} /\ Dot # Opening
  /\ \A c \in DigitBytes : c \in PathBytes /\ c \notin {Dot, Percent, Opening, Closing}
  BY DEF PathBytes, Dot, Percent, Opening, Closing, Byte, DigitBytes

\* A text between brackets.
BracketText(t, text, rest) ==
  /\ t \in Seq(PathBytes) /\ Len(t) = Len(text) + 2 + Len(rest)
  /\ t[1] = Opening /\ t[Len(text) + 2] = Closing
  /\ \A i \in 1 .. Len(text) : t[i + 1] = text[i]
  /\ \A i \in 1 .. Len(rest) : t[Len(text) + 2 + i] = rest[i]

LEMMA InBrackets ==
  ASSUME NEW text \in Seq(PathBytes), NEW rest \in Seq(PathBytes)
  PROVE  BracketText((<<Opening>> \o text \o <<Closing>>) \o rest, text, rest)
<1> DEFINE a == <<Opening>> \o text
           b == a \o <<Closing>>
           t == b \o rest
<1>0. Len(text) \in Nat /\ Len(rest) \in Nat
  OBVIOUS
<1>1. a \in Seq(PathBytes) /\ Len(a) = Len(text) + 1 /\ a[1] = Opening /\ \A i \in 1 .. Len(text) : a[i + 1] = text[i]
  BY TheSigns
<1> HIDE DEF a
<1>2. b \in Seq(PathBytes) /\ Len(b) = Len(a) + 1 /\ b[Len(a) + 1] = Closing /\ \A i \in 1 .. Len(a) : b[i] = a[i]
  BY <1>1, TheSigns
<1> HIDE DEF b
<1>3. /\ t \in Seq(PathBytes) /\ Len(t) = Len(b) + Len(rest) /\ \A i \in 1 .. Len(b) : t[i] = b[i]
      /\ \A i \in 1 .. Len(rest) : t[Len(b) + i] = rest[i]
  <2>1. b \in Seq(PathBytes)
    BY <1>2
  <2>2. t \in Seq(PathBytes) /\ Len(t) = Len(b) + Len(rest)
    BY <2>1
  <2>3. \A i \in 1 .. Len(b) : t[i] = b[i]
    BY <2>1
  <2>4. \A i \in 1 .. Len(rest) : t[Len(b) + i] = rest[i]
    BY <2>1
  <2> QED
    BY <2>2, <2>3, <2>4
<1> HIDE DEF t
<1>4. Len(b) = Len(text) + 2 /\ Len(a) + 1 = Len(text) + 2
  BY <1>0, <1>1, <1>2
<1>5. t \in Seq(PathBytes) /\ Len(t) = Len(text) + 2 + Len(rest)
  BY <1>3, <1>4
<1>6. t[1] = Opening
  BY <1>0, <1>1, <1>2, <1>3
<1>7. t[Len(text) + 2] = Closing
  BY <1>0, <1>2, <1>3, <1>4
<1>8. ASSUME NEW i \in 1 .. Len(text) PROVE t[i + 1] = text[i]
  <2>1. i + 1 \in 1 .. Len(a) /\ i + 1 \in 1 .. Len(b)
    BY <1>0, <1>1, <1>4
  <2> QED
    BY <1>1, <1>2, <1>3, <2>1
<1>9. \A i \in 1 .. Len(rest) : t[Len(text) + 2 + i] = rest[i]
  BY <1>3, <1>4
<1>10. BracketText(t, text, rest)
  BY <1>5, <1>6, <1>7, <1>8, <1>9 DEF BracketText
<1> QED
  BY <1>10 DEF t, b, a

\* What is behind the first m bytes.
LEMMA BehindIs ==
  ASSUME NEW S, NEW t \in Seq(S), NEW m \in Nat, NEW rest \in Seq(S),
         Len(t) = m + Len(rest), \A i \in 1 .. Len(rest) : t[m + i] = rest[i]
  PROVE  SubSeq(t, m + 1, Len(t)) = rest
<1> DEFINE u == SubSeq(t, m + 1, Len(t))
<1>0. Len(rest) \in Nat /\ m + 1 \in Int /\ Len(t) \in Int
  OBVIOUS
<1>1. \A i \in m + 1 .. Len(t) : t[i] \in S
  OBVIOUS
<1>2. /\ u \in Seq(S) /\ Len(u) = (IF m + 1 <= Len(t) THEN Len(t) - (m + 1) + 1 ELSE 0)
      /\ \A i \in 1 .. Len(t) - (m + 1) + 1 : u[i] = t[(m + 1) + i - 1]
  BY <1>0, <1>1, SubSeqProperties
<1> HIDE DEF u
<1>3. Len(t) - (m + 1) + 1 = Len(rest) /\ (m + 1 <= Len(t) <=> Len(rest) > 0)
  BY <1>0
<1>4. Len(u) = Len(rest)
  BY <1>0, <1>2, <1>3
<1>5. ASSUME NEW i \in 1 .. Len(u) PROVE u[i] = rest[i]
  <2>1. i \in 1 .. Len(rest) /\ (m + 1) + i - 1 = m + i
    BY <1>0, <1>4
  <2> QED
    BY <1>2, <1>3, <2>1
<1>6. u = rest
  BY <1>2, <1>4, <1>5, SeqEqual
<1> QED
  BY <1>6 DEF u

\* A text of digits between brackets is read as far as its bracket.
LEMMA DigitsBetween ==
  ASSUME NEW text \in Seq(DigitBytes), text # <<>>, NEW rest \in Seq(PathBytes), NEW t, BracketText(t, text, rest)
  PROVE  /\ CharAt(t, 2) # Percent /\ Beyond(t, 2, DigitBytes) = Len(text) + 2
         /\ SubSeq(t, 2, (Len(text) + 2) - 1) = text /\ SubSeq(t, (Len(text) + 2) + 1, Len(t)) = rest
<1> DEFINE k == Len(text)
           n == Len(rest)
<1>0. k \in Nat /\ n \in Nat /\ k > 0
  OBVIOUS
<1>1. /\ t \in Seq(PathBytes) /\ Len(t) = k + 2 + n /\ t[k + 2] = Closing
      /\ \A i \in 1 .. k : t[i + 1] = text[i]
      /\ \A i \in 1 .. n : t[k + 2 + i] = rest[i]
  BY DEF BracketText
<1>2. \A i \in 1 .. k : text[i] \in DigitBytes
  OBVIOUS
<1>7. text \in Seq(PathBytes)
  BY TheSigns
<1> HIDE DEF k, n
<1>3. \A j \in 2 .. k + 1 : t[j] = text[j - 1] /\ t[j] \in DigitBytes
  <2> TAKE j \in 2 .. k + 1
  <2>1. j - 1 \in 1 .. k /\ (j - 1) + 1 = j
    BY <1>0
  <2> QED
    BY <1>1, <1>2, <2>1
<1>4. CharAt(t, 2) # Percent
  <2>1. 2 \in 2 .. k + 1 /\ 2 <= Len(t)
    BY <1>0, <1>1
  <2> QED
    BY <1>3, <2>1, TheSigns DEF CharAt
<1>5. Beyond(t, 2, DigitBytes) = k + 2
  <2> DEFINE A == {j \in 2 .. Len(t) + 1 : j > Len(t) \/ t[j] \notin DigitBytes}
  <2>1. A \subseteq Nat /\ \A j \in A : j \in 2 .. Len(t) + 1
    BY <1>0, <1>1
  <2>2. k + 2 \in A
    BY <1>0, <1>1, TheSigns
  <2>3. \A j \in A : k + 2 <= j
    <3> TAKE j \in A
    <3>1. j \in 2 .. Len(t) + 1 /\ (j > Len(t) \/ t[j] \notin DigitBytes)
      OBVIOUS
    <3>2. j \notin 2 .. k + 1
      BY <1>0, <1>1, <1>3, <3>1
    <3> QED
      BY <1>0, <1>1, <3>1, <3>2
  <2>4. Beyond(t, 2, DigitBytes) = Min(A)
    BY DEF Beyond
  <2> HIDE DEF A
  <2>5. Min(A) \in A /\ \A y \in A : Min(A) <= y
    BY <2>1, <2>2, MinIs
  <2>6. Min(A) <= k + 2 /\ k + 2 <= Min(A) /\ Min(A) \in Nat
    BY <2>1, <2>2, <2>3, <2>5
  <2> QED
    BY <1>0, <2>4, <2>6
<1>6. SubSeq(t, 2, (k + 2) - 1) = text
  <2> DEFINE u == SubSeq(t, 2, (k + 2) - 1)
  <2>1. (k + 2) - 1 = k + 1 /\ k + 1 <= Len(t)
    BY <1>0, <1>1
  <2>2. u \in Seq(PathBytes) /\ Len(u) = k /\ \A i \in 1 .. k : u[i] = t[i + 1]
    BY <1>0, <1>1, <2>1
  <2>3. Len(text) = k
    BY DEF k
  <2> HIDE DEF u
  <2>4. \A i \in 1 .. Len(u) : u[i] = text[i]
    BY <1>1, <2>2
  <2>5. u = text
    BY <1>7, <2>2, <2>3, <2>4, SeqEqual
  <2> QED
    BY <2>5 DEF u
<1>8. SubSeq(t, (k + 2) + 1, Len(t)) = rest
  <2>1. /\ k + 2 \in Nat /\ Len(t) = (k + 2) + Len(rest)
        /\ \A i \in 1 .. Len(rest) : t[(k + 2) + i] = rest[i]
    BY <1>0, <1>1 DEF n
  <2> QED
    BY <1>1, <2>1, BehindIs
<1> QED
  BY <1>4, <1>5, <1>6, <1>8 DEF k

\* The text of an index.
IndexDigits(i) == [d \in DOMAIN uintToString[i] |-> 48 + uintToString[i][d]]

LEMMA IndexDigitsAre ==
  ASSUME NEW i \in 0 .. MaxIndex
  PROVE  /\ IndexDigits(i) \in Seq(DigitBytes) /\ IndexDigits(i) \in Seq(PathBytes)
         /\ IndexDigits(i) # <<>> /\ ArrayIndex(IndexDigits(i)) = i
<1> DEFINE u == uintToString[i]
           text == IndexDigits(i)
<1>0. MaxIndex \in Nat /\ i \in Nat /\ i <= MaxIndex
  BY PathAssumption
<1>1. Shows(u, i)
  BY <1>0, DigitsShow
<1>2. u \in Seq(0 .. 9) /\ Len(u) \in Nat \ {0} /\ Value[u] = i
  BY <1>1 DEF Shows, DigitTexts
<1>3. text = [d \in DOMAIN u |-> 48 + u[d]]
  BY DEF IndexDigits
<1> HIDE DEF u, text
<1>4. DOMAIN u = 1 .. Len(u) /\ \A d \in 1 .. Len(u) : u[d] \in 0 .. 9
  BY <1>2
<1>5. text \in [1 .. Len(u) -> DigitBytes]
  BY <1>3, <1>4 DEF DigitBytes
<1>6. text \in Seq(DigitBytes) /\ Len(text) = Len(u) /\ DOMAIN text = DOMAIN u
  BY <1>2, <1>4, <1>5
<1>7. text \in Seq(PathBytes)
  BY <1>6, TheSigns
<1>8. [d \in DOMAIN text |-> text[d] - 48] = u
  <2> DEFINE v == [d \in DOMAIN text |-> text[d] - 48]
  <2>1. \A d \in 1 .. Len(u) : text[d] - 48 = u[d]
    BY <1>3, <1>4
  <2>2. v = [d \in 1 .. Len(u) |-> u[d]]
    BY <1>4, <1>6, <2>1
  <2>3. u = [d \in 1 .. Len(u) |-> u[d]]
    BY <1>2
  <2> QED
    BY <2>2, <2>3
<1>9. ArrayIndex(text) = i % (MaxIndex + 1)
  BY <1>2, <1>8 DEF ArrayIndex
<1>10. i % (MaxIndex + 1) = i
  BY <1>0
<1>11. text # <<>>
  BY <1>2, <1>6
<1> QED
  BY <1>6, <1>7, <1>9, <1>10, <1>11 DEF text

\* Whether a part of the text of a path is read as its argument, and ends where the next begins.
PieceRead(piece, rest, in, a, left) ==
  /\ piece \o rest \in PathText /\ piece \o rest # <<>> /\ (piece \o rest)[1] \in {Dot, Opening}
  /\ makePath[<<piece \o rest, in>>] = <<a>> \o makePath[<<rest, left>>]

LEMMA IndexIsRead ==
  ASSUME NEW a \in Argument, a.kind = "index", NEW rest \in PathText, NEW left \in InArguments
  PROVE  PieceRead(<<Opening>> \o IndexDigits(a.index) \o <<Closing>>, rest, left, a, left)
<1> DEFINE text == IndexDigits(a.index)
           t == (<<Opening>> \o text \o <<Closing>>) \o rest
<1>0. a.index \in 0 .. MaxIndex /\ Index(a.index) = a
  BY DEF Argument, Index
<1>1. /\ text \in Seq(DigitBytes) /\ text \in Seq(PathBytes) /\ text # <<>>
      /\ ArrayIndex(text) = a.index
  BY <1>0, IndexDigitsAre
<1>2. rest \in Seq(PathBytes) /\ PathText = Seq(PathBytes)
  BY DEF PathText, PathBytes
<1> HIDE DEF text
<1>3. BracketText(t, text, rest)
  BY <1>1, <1>2, InBrackets
<1> HIDE DEF t
<1>4. t \in PathText /\ t # <<>> /\ t[1] = Opening
  <2>1. t \in Seq(PathBytes) /\ Len(t) = Len(text) + 2 + Len(rest) /\ t[1] = Opening
    BY <1>3 DEF BracketText
  <2>2. Len(text) \in Nat /\ Len(rest) \in Nat
    BY <1>1, <1>2
  <2>3. Len(t) > 0
    BY <2>1, <2>2
  <2>4. t # <<>>
    BY <2>3
  <2> QED
    BY <1>2, <2>1, <2>4
<1>5. /\ CharAt(t, 2) # Percent /\ Beyond(t, 2, DigitBytes) = Len(text) + 2
      /\ SubSeq(t, 2, (Len(text) + 2) - 1) = text /\ SubSeq(t, (Len(text) + 2) + 1, Len(t)) = rest
  BY <1>1, <1>2, <1>3, DigitsBetween
<1>6. makePath[<<t, left>>] = DigitsIn(makePath, t, left)
  BY <1>4, <1>5, PathIsRead DEF OneStep
<1>7. DigitsIn(makePath, t, left) = <<Index(ArrayIndex(text))>> \o makePath[<<rest, left>>]
  BY <1>5, Zenon DEF DigitsIn, RestOf
<1>8. makePath[<<t, left>>] = <<a>> \o makePath[<<rest, left>>]
  BY <1>0, <1>1, <1>6, <1>7
<1> QED
  BY <1>4, <1>8 DEF PieceRead, t, text

\* A name that a text can hold.
IsName(key) ==
  /\ key \in Seq(PathBytes) /\ key # <<>> /\ key[1] \notin {Percent, Closing}
  /\ \A i \in DOMAIN key : key[i] \notin {Dot, Opening}

\* A name is read as far as the next sign.
LEMMA NameIsRead ==
  ASSUME NEW key, NEW rest \in PathText, NEW left \in InArguments, IsName(key),
         rest = <<>> \/ rest[1] \in {Dot, Opening}
  PROVE  /\ key \o rest \in PathText
         /\ makePath[<<key \o rest, left>>] = <<Key(key)>> \o makePath[<<rest, left>>]
<1> DEFINE k == Len(key)
           n == Len(rest)
           t == key \o rest
<1>10. /\ key \in Seq(PathBytes) /\ key # <<>> /\ key[1] \notin {Percent, Closing}
       /\ \A i \in DOMAIN key : key[i] \notin {Dot, Opening}
       /\ rest \in Seq(PathBytes)
  BY DEF IsName, PathText, PathBytes
<1>0. k \in Nat /\ n \in Nat /\ k > 0 /\ DOMAIN key = 1 .. k /\ 1 \in DOMAIN key
  BY <1>10
<1>1. /\ t \in Seq(PathBytes) /\ Len(t) = k + n /\ \A i \in 1 .. k : t[i] = key[i]
      /\ \A i \in 1 .. n : t[k + i] = rest[i]
  BY <1>10
<1>2. PathText = Seq(PathBytes)
  BY DEF PathText, PathBytes
<1>9. Len(key) = k /\ Len(rest) = n
  OBVIOUS
<1> HIDE DEF t, k, n
<1>3. t # <<>> /\ t[1] = key[1] /\ t[1] \notin {Opening, Percent, Dot, Closing}
  <2>1. 1 \in 1 .. k /\ Len(t) > 0
    BY <1>0, <1>1
  <2>2. t # <<>> /\ t[1] = key[1]
    BY <1>1, <2>1
  <2>3. key[1] \notin {Dot, Opening}
    BY <1>0, <1>10
  <2> QED
    BY <1>10, <2>2, <2>3
<1>4. NameEnds(t) = k + 1
  <2> DEFINE A == {j \in 1 .. Len(t) + 1 : j > Len(t) \/ t[j] \in {Dot, Opening}}
  <2>1. A \subseteq Nat
    BY <1>0, <1>1
  <2>2. k + 1 \in A
    <3>1. k + 1 \in 1 .. Len(t) + 1
      BY <1>0, <1>1
    <3>2. CASE n = 0
      <4>1. k + 1 > Len(t)
        BY <1>0, <1>1, <3>2
      <4> QED
        BY <3>1, <4>1
    <3>3. CASE n # 0
      <4>1. 1 \in 1 .. n /\ rest # <<>>
        BY <1>0, <1>9, <1>10, <3>3
      <4>2. t[k + 1] = rest[1] /\ rest[1] \in {Dot, Opening}
        BY <1>1, <4>1
      <4> QED
        BY <3>1, <4>2
    <3> QED
      BY <3>2, <3>3
  <2>3. \A j \in A : k + 1 <= j
    <3> TAKE j \in A
    <3>1. j \in 1 .. Len(t) + 1 /\ (j > Len(t) \/ t[j] \in {Dot, Opening})
      OBVIOUS
    <3>2. ASSUME NEW i \in 1 .. k PROVE i <= Len(t) /\ t[i] \notin {Dot, Opening}
      <4>1. i <= Len(t)
        BY <1>0, <1>1
      <4>2. i \in DOMAIN key /\ t[i] = key[i]
        BY <1>0, <1>1
      <4> QED
        BY <1>10, <4>1, <4>2
    <3>3. j \notin 1 .. k
      <4> SUFFICES ASSUME j \in 1 .. k PROVE FALSE
        OBVIOUS
      <4>1. j <= Len(t) /\ t[j] \notin {Dot, Opening}
        BY <3>2
      <4>2. ~(j > Len(t))
        BY <1>0, <1>1, <3>1, <4>1
      <4> QED
        BY <3>1, <4>1, <4>2
    <3> QED
      BY <1>0, <1>1, <3>1, <3>3
  <2>4. NameEnds(t) = Min(A)
    BY DEF NameEnds
  <2> HIDE DEF A
  <2>5. Min(A) \in A /\ \A y \in A : Min(A) <= y
    BY <2>1, <2>2, MinIs
  <2>6. Min(A) <= k + 1 /\ k + 1 <= Min(A) /\ Min(A) \in Nat
    BY <2>1, <2>2, <2>3, <2>5
  <2> QED
    BY <1>0, <2>4, <2>6
<1>5. SubSeq(t, 1, (k + 1) - 1) = key
  <2> DEFINE u == SubSeq(t, 1, (k + 1) - 1)
  <2>1. (k + 1) - 1 = k /\ k <= Len(t)
    BY <1>0, <1>1
  <2>2. u \in Seq(PathBytes) /\ Len(u) = k /\ \A i \in 1 .. k : u[i] = t[i]
    BY <1>0, <1>1, <2>1
  <2> HIDE DEF u
  <2>3. \A i \in 1 .. Len(u) : u[i] = key[i]
    BY <1>1, <2>2
  <2>4. u = key
    BY <1>9, <1>10, <2>2, <2>3, SeqEqual
  <2> QED
    BY <2>4 DEF u
<1>6. SubSeq(t, k + 1, Len(t)) = rest
  BY <1>0, <1>1, <1>9, <1>10, BehindIs
<1>7. makePath[<<t, left>>] = NameIn(makePath, t, left)
  BY <1>1, <1>2, <1>3, PathIsRead DEF OneStep
<1>8. NameIn(makePath, t, left) = <<Key(key)>> \o makePath[<<rest, left>>]
  BY <1>4, <1>5, <1>6, Zenon DEF NameIn, RestOf
<1> QED
  BY <1>1, <1>2, <1>7, <1>8, Zenon DEF t

LEMMA SignsTogether ==
  /\ <<Dot>> \o <<Percent>> = <<Dot, Percent>>
  /\ <<Opening>> \o <<Percent>> \o <<Closing>> = <<Opening, Percent, Closing>>
<1>1. ASSUME NEW a \in PathBytes, NEW b \in PathBytes PROVE <<a>> \o <<b>> = <<a, b>>
  <2> DEFINE s == <<a>> \o <<b>>
             t == <<a, b>>
  <2>1. s \in Seq(PathBytes) /\ Len(s) = 2 /\ s[1] = a /\ s[2] = b
    OBVIOUS
  <2>2. t \in Seq(PathBytes) /\ Len(t) = 2 /\ t[1] = a /\ t[2] = b
    OBVIOUS
  <2> HIDE DEF s, t
  <2>3. \A i \in 1 .. Len(s) : s[i] = t[i]
    BY <2>1, <2>2
  <2>4. s = t
    BY <2>1, <2>2, <2>3, SeqEqual
  <2> QED
    BY <2>4 DEF s, t
<1>2. ASSUME NEW a \in PathBytes, NEW b \in PathBytes, NEW c \in PathBytes
      PROVE  <<a, b>> \o <<c>> = <<a, b, c>>
  <2> DEFINE s == <<a, b>> \o <<c>>
             t == <<a, b, c>>
  <2>1. s \in Seq(PathBytes) /\ Len(s) = 3 /\ s[1] = a /\ s[2] = b /\ s[3] = c
    OBVIOUS
  <2>2. t \in Seq(PathBytes) /\ Len(t) = 3 /\ t[1] = a /\ t[2] = b /\ t[3] = c
    OBVIOUS
  <2> HIDE DEF s, t
  <2>3. \A i \in 1 .. Len(s) : s[i] = t[i]
    BY <2>1, <2>2
  <2>4. s = t
    BY <2>1, <2>2, <2>3, SeqEqual
  <2> QED
    BY <2>4 DEF s, t
<1>3. <<Dot>> \o <<Percent>> = <<Dot, Percent>> /\ <<Opening>> \o <<Percent>> = <<Opening, Percent>>
  BY <1>1, TheSigns
<1>4. <<Opening, Percent>> \o <<Closing>> = <<Opening, Percent, Closing>>
  BY <1>2, TheSigns
<1> QED
  BY <1>3, <1>4, Zenon

\* What a step gives to its placeholder.
GivenBy(step) == IF step.given THEN <<step.arg>> ELSE <<>>

\* A step's text, whichever of the four it is, is read as its argument.
LEMMA PieceIsRead ==
  ASSUME NEW step \in PathStep, NEW rest \in PathText, NEW left \in InArguments,
         rest = <<>> \/ rest[1] \in {Dot, Opening}
  PROVE  PieceRead(Piece(step), rest, GivenBy(step) \o left, step.arg, left)
<1> DEFINE a == step.arg
           in == GivenBy(step) \o left
<1>0. a \in Argument /\ step.given \in BOOLEAN /\ Spellable(step)
  BY DEF PathStep
<1>1. rest \in Seq(PathBytes) /\ PathText = Seq(PathBytes)
  BY DEF PathText, PathBytes
<1>2. ~step.given => in = left
  <2>1. \A S : \A s \in Seq(S) : <<>> \o s = s
    BY ConcatEmptySeq
  <2> QED
    BY <2>1 DEF GivenBy, InArguments
<1>3. step.given => in = <<a>> \o left
  BY DEF GivenBy
<1> HIDE DEF in
<1>4. CASE a.kind = "index" /\ step.given
  <2> DEFINE piece == <<Opening>> \o <<Percent>> \o <<Closing>>
             t == piece \o rest
  <2>1. Piece(step) = piece
    BY <1>4 DEF Piece
  <2>2. piece = <<Opening, Percent, Closing>>
    BY SignsTogether
  <2>3. <<Percent>> \in Seq(PathBytes) /\ Len(<<Percent>>) = 1
    BY TheSigns
  <2>4. BracketText(t, <<Percent>>, rest)
    BY <1>1, <2>3, InBrackets
  <2>5. makePath[<<<<Opening, Percent, Closing>> \o rest, <<a>> \o left>>] = <<a>> \o makePath[<<rest, left>>]
    BY <1>0, <1>4, GivenIndexIsRead
  <2>6. makePath[<<t, in>>] = <<a>> \o makePath[<<rest, left>>]
    BY <1>3, <1>4, <2>2, <2>5
  <2> HIDE DEF t, piece
  <2>7. t \in PathText /\ t # <<>> /\ t[1] = Opening
    <3>1. t \in Seq(PathBytes) /\ Len(t) = 3 + Len(rest) /\ t[1] = Opening
      BY <2>3, <2>4 DEF BracketText
    <3>2. Len(rest) \in Nat
      BY <1>1
    <3>3. Len(t) > 0
      BY <3>1, <3>2
    <3>4. t # <<>>
      BY <3>3
    <3> QED
      BY <1>1, <3>1, <3>4
  <2> QED
    BY <2>1, <2>6, <2>7 DEF PieceRead, t, in
<1>5. CASE a.kind = "index" /\ ~step.given
  <2>1. Piece(step) = <<Opening>> \o IndexDigits(a.index) \o <<Closing>>
    BY <1>5 DEF Piece, IndexDigits
  <2>2. PieceRead(<<Opening>> \o IndexDigits(a.index) \o <<Closing>>, rest, left, a, left)
    BY <1>0, <1>5, IndexIsRead
  <2> QED
    BY <1>2, <1>5, <2>1, <2>2 DEF in
<1>6. CASE a.kind = "key" /\ step.given
  <2> DEFINE piece == <<Dot>> \o <<Percent>>
             t == piece \o rest
  <2>1. Piece(step) = piece
    BY <1>6 DEF Piece
  <2>2. piece = <<Dot, Percent>>
    BY SignsTogether
  <2>3. makePath[<<<<Dot, Percent>> \o rest, <<a>> \o left>>] = <<a>> \o makePath[<<rest, left>>]
    BY <1>0, <1>6, GivenKeyIsRead
  <2>4. makePath[<<t, in>>] = <<a>> \o makePath[<<rest, left>>]
    BY <1>3, <1>6, <2>2, <2>3
  <2>5. t \in PathText /\ t # <<>> /\ t[1] = Dot
    BY <1>1, <2>2, TheSigns, TwoBefore
  <2> HIDE DEF t, piece
  <2> QED
    BY <2>1, <2>4, <2>5 DEF PieceRead, t, in
<1>7. CASE a.kind = "key" /\ ~step.given
  <2> DEFINE key == a.key
             r == key \o rest
             t == (<<Dot>> \o key) \o rest
  <2>1. Piece(step) = <<Dot>> \o key
    BY <1>7 DEF Piece
  <2>2. IsName(key) /\ key \in Seq(PathBytes) /\ Key(key) = a
    <3>1. key \in Seq(PathBytes) /\ Key(key) = a
      BY <1>0, <1>7 DEF Argument, Key, PathText, PathBytes
    <3>2. /\ key # <<>> /\ key[1] \notin {Percent, Closing}
          /\ \A i \in DOMAIN key : key[i] \notin {Dot, Opening}
      BY <1>0, <1>7 DEF Spellable
    <3> QED
      BY <3>1, <3>2 DEF IsName
  <2> HIDE DEF key
  <2>3. r \in PathText /\ makePath[<<r, left>>] = <<a>> \o makePath[<<rest, left>>]
    <3>1. r \in PathText /\ makePath[<<r, left>>] = <<Key(key)>> \o makePath[<<rest, left>>]
      BY <2>2, NameIsRead
    <3> QED
      BY <2>2, <3>1
  <2>4. t = <<Dot>> \o r
    <3>1. <<Dot>> \in Seq(PathBytes)
      BY TheSigns
    <3> QED
      BY <1>1, <2>2, <3>1, ConcatAssociative
  <2> HIDE DEF r, t
  <2>5. t \in PathText /\ makePath[<<t, left>>] = makePath[<<r, left>>]
    BY <2>3, <2>4, SignIsSkipped
  <2>6. t # <<>> /\ t[1] = Dot
    BY <1>1, <2>3, <2>4, TheSigns, OneBefore
  <2> QED
    BY <1>2, <1>7, <2>1, <2>3, <2>5, <2>6 DEF PieceRead, t, in
<1> QED
  BY <1>0, <1>4, <1>5, <1>6, <1>7, ArgumentsAre

ArgumentsOf(steps) == [n \in DOMAIN steps |-> steps[n].arg]

\* The text of steps gives their arguments, and leaves those it is given beyond them.
StepsRead(steps) ==
  /\ Spelled[steps] \in PathText /\ (Spelled[steps] = <<>> \/ Spelled[steps][1] \in {Dot, Opening})
  /\ GivenTo[steps] \in InArguments
  /\ \A left \in InArguments : makePath[<<Spelled[steps], GivenTo[steps] \o left>>] = ArgumentsOf(steps)

LEMMA NoStepsAreRead == StepsRead(<<>>)
<1>1. <<>> \in StepTexts
  BY DEF StepTexts
<1>2. Spelled[<<>>] = <<>> /\ GivenTo[<<>>] = <<>>
  BY <1>1, SpelledIs, GivenToIs DEF SpelledStep, GivenStep
<1>3. \A left \in InArguments : <<>> \o left = left
  BY ConcatEmptySeq DEF InArguments
<1>4. ArgumentsOf(<<>>) = <<>>
  BY DEF ArgumentsOf
<1>5. <<>> \in PathText /\ <<>> \in InArguments
  BY DEF PathText, InArguments
<1> QED
  BY <1>2, <1>3, <1>4, <1>5, PathEnds DEF StepsRead

LEMMA MoreStepsAreRead ==
  ASSUME NEW steps \in StepTexts, steps # <<>>, StepsRead(Tail(steps))
  PROVE  StepsRead(steps)
<1> DEFINE step == steps[1]
           rest == Tail(steps)
           text == Spelled[rest]
           given == GivenTo[rest]
<1>1. step \in PathStep /\ rest \in StepTexts
  BY DEF StepTexts
<1>2. Spelled[steps] = Piece(step) \o text /\ GivenTo[steps] = GivenBy(step) \o given
  <2>1. Spelled[steps] = SpelledStep(Spelled, steps) /\ GivenTo[steps] = GivenStep(GivenTo, steps)
    BY SpelledIs, GivenToIs
  <2> QED
    BY <2>1 DEF SpelledStep, GivenStep, GivenBy
<1>3. /\ text \in PathText /\ (text = <<>> \/ text[1] \in {Dot, Opening}) /\ given \in InArguments
      /\ \A left \in InArguments : makePath[<<text, given \o left>>] = ArgumentsOf(rest)
  BY DEF StepsRead
<1>4. ArgumentsOf(steps) = <<step.arg>> \o ArgumentsOf(rest)
  <2> DEFINE n == Len(steps)
             a == ArgumentsOf(steps)
             b == ArgumentsOf(rest)
             c == <<step.arg>> \o b
  <2>1. /\ n \in Nat /\ n > 0 /\ DOMAIN steps = 1 .. n /\ \A i \in 1 .. n : steps[i].arg \in Argument
        /\ DOMAIN rest = 1 .. n - 1 /\ \A i \in 1 .. n - 1 : rest[i] = steps[i + 1]
    BY DEF StepTexts, PathStep
  <2> HIDE DEF n
  <2>2. a = [i \in 1 .. n |-> steps[i].arg]
    BY <2>1 DEF ArgumentsOf
  <2>3. a \in Seq(Argument) /\ Len(a) = n /\ \A i \in 1 .. n : a[i] = steps[i].arg
    BY <2>1, <2>2
  <2>4. b = [i \in 1 .. n - 1 |-> steps[i + 1].arg]
    BY <2>1 DEF ArgumentsOf
  <2>5. b \in Seq(Argument) /\ Len(b) = n - 1 /\ \A i \in 1 .. n - 1 : b[i] = steps[i + 1].arg
    <3>1. n - 1 \in Nat /\ \A i \in 1 .. n - 1 : i + 1 \in 1 .. n
      BY <2>1
    <3> QED
      BY <2>1, <2>4, <3>1
  <2>6. step.arg \in Argument
    BY <1>1 DEF PathStep
  <2> HIDE DEF a, b
  <2>7. /\ c \in Seq(Argument) /\ Len(c) = Len(b) + 1 /\ c[1] = step.arg
        /\ \A i \in 1 .. Len(b) : c[i + 1] = b[i]
    BY <2>5, <2>6
  <2> HIDE DEF c
  <2>8. Len(c) = n
    BY <2>1, <2>5, <2>7
  <2>9. \A i \in 1 .. Len(a) : a[i] = c[i]
    <3> TAKE i \in 1 .. Len(a)
    <3>1. CASE i = 1
      BY <2>1, <2>3, <2>7, <3>1
    <3>2. CASE i # 1
      <4>1. i - 1 \in 1 .. n - 1 /\ (i - 1) + 1 = i /\ i \in 1 .. n
        BY <2>1, <2>3, <3>2
      <4> QED
        BY <2>3, <2>5, <2>7, <4>1
    <3> QED
      BY <3>1, <3>2
  <2>10. a = c
    BY <2>3, <2>7, <2>8, <2>9, SeqEqual
  <2> QED
    BY <2>10 DEF a, b, c
<1>5. GivenBy(step) \in InArguments
  <2>1. step.arg \in Argument \cup {NoArgument}
    BY <1>1 DEF PathStep
  <2>2. <<step.arg>> \in InArguments /\ <<>> \in InArguments
    BY <2>1 DEF InArguments
  <2> HIDE DEF step
  <2> QED
    BY <2>2 DEF GivenBy
<1> HIDE DEF step, rest, text, given
<1>6. GivenBy(step) \o given \in InArguments
  BY <1>3, <1>5, ConcatProperties DEF InArguments
<1>7. ASSUME NEW left \in InArguments
      PROVE  PieceRead(Piece(step), text, GivenTo[steps] \o left, step.arg, given \o left)
  <2>1. given \o left \in InArguments
    BY <1>3, ConcatProperties DEF InArguments
  <2>2. GivenTo[steps] \o left = GivenBy(step) \o (given \o left)
    BY <1>2, <1>3, <1>5, ConcatAssociative DEF InArguments
  <2> QED
    BY <1>1, <1>3, <2>1, <2>2, PieceIsRead
<1>8. <<>> \in InArguments
  BY DEF InArguments
<1>9. Spelled[steps] \in PathText /\ Spelled[steps][1] \in {Dot, Opening}
  BY <1>2, <1>7, <1>8 DEF PieceRead
<1>10. ASSUME NEW left \in InArguments
       PROVE  makePath[<<Spelled[steps], GivenTo[steps] \o left>>] = ArgumentsOf(steps)
  <2>1. makePath[<<Piece(step) \o text, GivenTo[steps] \o left>>] = <<step.arg>> \o makePath[<<text, given \o left>>]
    BY <1>7 DEF PieceRead
  <2> QED
    BY <1>2, <1>3, <1>4, <2>1
<1> QED
  BY <1>2, <1>6, <1>9, <1>10 DEF StepsRead

\* So the text of any steps is.
LEMMA AllStepsAreRead == \A steps \in StepTexts : StepsRead(steps)
<1> DEFINE T == {steps \in StepTexts : StepsRead(steps)}
<1>1. ASSUME NEW steps \in StepTexts, \A r \in SetLessThan(steps, Shorter(PathStep), StepTexts) : r \in T
      PROVE  steps \in T
  <2>1. CASE steps = <<>>
    BY <2>1, NoStepsAreRead
  <2>2. CASE steps # <<>>
    <3>1. Tail(steps) \in T
      BY <1>1, <2>2, TheRest DEF StepTexts
    <3> QED
      BY <2>2, <3>1, MoreStepsAreRead
  <2> QED
    BY <2>1, <2>2
<1> HIDE DEF T
<1>2. \A steps \in StepTexts : steps \in T
  BY <1>1, TextInduction DEF StepTexts
<1> QED
  BY <1>2 DEF T

\* The calls of Path: their text gives the arguments that were meant.
CallOnPath(root, args, x, read) ==
  [f |-> "path", root |-> root, args |-> args, x |-> x, read |-> read,
   throws |-> ~MakeAsserts(root, args), made |-> make(root, args, x)]

PathType ==
  call = NoCall \/ \E root \in Roots, args \in Paths, x \in NewValues : call = CallOnPath(root, args, x, args)

LEMMA PathCallReads ==
  ASSUME PathCall
  PROVE  PathType'
<1> DEFINE StepsOf(args, given) == [n \in DOMAIN args |-> [arg |-> args[n], given |-> n \in given]]
           Called(root, args, x, s) ==
             /\ \A n \in DOMAIN args : Spellable(s[n])
             /\ Len(GivenTo[s]) <= 5
             /\ call' = CallOnPath(root, args, x, makePath[<<Spelled[s], InArgs(GivenTo[s])>>])
<1>0. PICK root \in Roots, args \in Paths, x \in NewValues :
        \E given \in SUBSET DOMAIN args : Called(root, args, x, StepsOf(args, given))
  BY DEF PathCall, CallOnPath
<1>1. PICK given \in SUBSET DOMAIN args : Called(root, args, x, StepsOf(args, given))
  BY <1>0
<1> DEFINE steps == StepsOf(args, given)
           left == [i \in 1 .. 5 - Len(GivenTo[steps]) |-> NoArgument]
<1>2. args \in ArgumentTexts /\ args \in Seq(Argument)
  BY PathAssumption DEF ArgumentTexts
<1>3. steps \in StepTexts
  <2>1. \A n \in 1 .. Len(args) : [arg |-> args[n], given |-> n \in given] \in PathStep
    <3> TAKE n \in 1 .. Len(args)
    <3>1. args[n] \in Argument /\ n \in DOMAIN args /\ Spellable([arg |-> args[n], given |-> n \in given])
      BY <1>1, <1>2
    <3> QED
      BY <3>1 DEF PathStep
  <2>2. DOMAIN args = 1 .. Len(args) /\ Len(args) \in Nat
    BY <1>2
  <2>3. steps \in [1 .. Len(args) -> PathStep]
    BY <2>1, <2>2
  <2> QED
    BY <2>2, <2>3 DEF StepTexts
<1>4. ArgumentsOf(steps) = args
  <2>1. args = [n \in DOMAIN args |-> args[n]]
    BY <1>2
  <2> QED
    BY <2>1 DEF ArgumentsOf
<1>5. Len(GivenTo[steps]) <= 5
  BY <1>1
<1>6. call' = CallOnPath(root, args, x, makePath[<<Spelled[steps], GivenTo[steps] \o left>>])
  BY <1>1, Zenon DEF InArgs
<1> HIDE DEF steps
<1>7. StepsRead(steps)
  BY <1>3, AllStepsAreRead
<1>8. left \in InArguments
  <2>1. GivenTo[steps] \in Seq(Argument \cup {NoArgument})
    BY <1>7 DEF StepsRead, InArguments
  <2>2. Len(GivenTo[steps]) \in Nat
    BY <2>1
  <2>3. 5 - Len(GivenTo[steps]) \in Nat
    BY <1>5, <2>2
  <2> QED
    BY <2>3 DEF InArguments
<1> HIDE DEF left
<1>9. makePath[<<Spelled[steps], GivenTo[steps] \o left>>] = args
  BY <1>4, <1>7, <1>8 DEF StepsRead
<1>10. call' = CallOnPath(root, args, x, args)
  BY <1>6, <1>9
<1> QED
  BY <1>10 DEF PathType

\* A path's text and the arguments for its placeholders give the path's arguments, and
\* what is put where the path leads is found there while all that is elsewhere is kept: for
\* paths of any length, names and indices of any kind and Values of any depth.
THEOREM PathsAreRight == PathSpec => []PathsResolve
<1>1. CallInit => PathType
  BY DEF CallInit, PathType
<1>2. PathType /\ [PathCall]_call => PathType'
  <2> SUFFICES ASSUME PathType, [PathCall]_call PROVE PathType'
    OBVIOUS
  <2>1. CASE PathCall
    BY <2>1, PathCallReads
  <2>2. CASE UNCHANGED call
    BY <2>2 DEF PathType
  <2> QED
    BY <2>1, <2>2
<1>3. PathType => PathsResolve
  <2>1. CASE call = NoCall
    <3>1. call.f # "path"
      BY <2>1 DEF NoCall
    <3> QED
      BY <3>1 DEF PathsResolve
  <2>2. ASSUME NEW root \in Roots, NEW args \in Paths, NEW x \in NewValues, call = CallOnPath(root, args, x, args)
        PROVE  PathsResolve
    <3>1. /\ call.args = args /\ call.x = x /\ call.root = root /\ call.read = args
          /\ call.throws = ~MakeAsserts(root, args) /\ call.made = make(root, args, x)
      BY <2>2 DEF CallOnPath
    <3>2. args \in ArgumentTexts /\ x # Lost
      BY PathAssumption DEF ArgumentTexts
    <3>3. CASE MakeAsserts(root, args)
      <4>1. MakingIsRight(root, args, x)
        BY <3>2, <3>3, MakingMakes
      <4> QED
        BY <3>1, <3>3, <4>1 DEF PathsResolve, MakingIsRight
    <3>4. CASE ~MakeAsserts(root, args)
      <4>1. make(root, args, x) = root
        BY <3>4 DEF make
      <4> QED
        BY <3>1, <3>4, <4>1 DEF PathsResolve
    <3> QED
      BY <3>3, <3>4
  <2> QED
    BY <2>1, <2>2 DEF PathType
<1> QED
  BY <1>1, <1>2, <1>3, PTL DEF PathSpec
=============================================================================
