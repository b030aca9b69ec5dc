----------------------------- MODULE JsonArray ------------------------------
(***************************************************************************)
(* A Json::Value used as an array: elements are appended, assigned,        *)
(* touched and removed, and the array is resized.  list is what the        *)
(* program means it to hold.  It can be longer than the array by nulls:    *)
(* the array forgets a null it never made an element of.                   *)
(***************************************************************************)
EXTENDS JsonValue, SequencesExt

CONSTANTS
  Added,      \* values put into the array
  MaxArray    \* a bound on its length

ASSUME ArrayAssumption == MaxArray \in Nat

VARIABLES
  array, list,
  thrown      \* the call of resize, if it was the last call and threw

arrayVars == <<array, list, thrown>>

NoResize == [f |-> "none"]

ArrayInit == array = Null /\ list = <<>> /\ thrown = NoResize

ToLength(s, n) == [k \in 1 .. n |-> IF k <= Len(s) THEN s[k] ELSE Null]

Becomes1(v, s) == array' = v /\ list' = s /\ thrown' = NoResize

Append1 ==
  \E x \in Added :
    Len(list) < MaxArray /\ Becomes1(append(array, x), ToLength(list, size(array)) \o <<x>>)

\* Long enough to have an element of index i.
Reaching(s, i) == ToLength(s, IF i < Len(s) THEN Len(s) ELSE i + 1)

Assign ==
  \E i \in 0 .. MaxArray - 1, x \in Added :
    Becomes1(Set(array, i, x), [Reaching(list, i) EXCEPT ![i + 1] = x])

\* operator[] of a constant array, which creates no element, is At; this one
\* does.
Touch == \E i \in 0 .. MaxArray - 1 : Becomes1(Ref(array, i), Reaching(list, i))

RemoveElement ==
  /\ array # Null
  /\ \E i \in DOMAIN array.items : Becomes1(removeIndex(array, i), RemoveAt(list, i + 1))

Resize ==
  \E n \in 0 .. MaxArray :
    ResizeAsserts(array, n) /\ Becomes1(Resized(array, n), ToLength(list, n))

\* The assertion of resize fails: the call throws, having changed the array.
ResizeThrows ==
  \E n \in 0 .. MaxArray :
    /\ ~ResizeAsserts(array, n)
    /\ array' = Resized(array, n) /\ list' = ToLength(list, n)
    /\ thrown' = [f |-> "resize", n |-> n, before |-> array]

ArrayNext == Append1 \/ Assign \/ Touch \/ RemoveElement \/ Resize \/ ResizeThrows

ArraySpec == ArrayInit /\ [][ArrayNext]_arrayVars

-----------------------------------------------------------------------------
\* An array is the list of the elements put into it, whatever operations made
\* it and whether a null in it is an element or a hole, up to nulls at its
\* end; and resize throws only where it would have ended in a hole.
ArrayIsList ==
  /\ size(array) <= Len(list)
  /\ \A i \in 1 .. Len(list) : At(array, i - 1) = list[i]
  /\ thrown # NoResize => /\ thrown.n - 1 \notin DOMAIN thrown.before.items
                          /\ thrown.n < size(thrown.before)
=============================================================================
