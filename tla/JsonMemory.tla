----------------------------- MODULE JsonMemory -----------------------------
(***************************************************************************)
(* The memory behind Json::Values (jsoncpp.cpp).  A program has some       *)
(* Values, its slots, and assigns, moves, swaps, fills and empties them.   *)
(* The heap maps the blocks that are allocated to what they hold: the text *)
(* of a string or of a member's name, or an object's map.  ref is a        *)
(* value's block, and 0 where it has none: a string that is static, or a   *)
(* type without a block.  meant is what each slot should hold.             *)
(***************************************************************************)
EXTENDS JsonValue

CONSTANTS
  Slots, Keys, Texts,
  MaxBlocks   \* bound: the blocks allocated between two operations

VARIABLES heap, slot, meant,
          bad,    \* a block was used or released that is not allocated
          shared  \* history: copy gave a Value another's block, or lost one
memory == <<heap, slot, meant, bad, shared>>

Plain(type)     == [type |-> type, ref |-> 0, text |-> ""]
String(text)    == [type |-> "string", text |-> text]
Block(text)     == [kind |-> "text", text |-> text]
Map(names, values) == [kind |-> "map", names |-> names, values |-> values]

InitMemory ==
  /\ heap = Empty
  /\ slot = [x \in Slots |-> Plain("null")]
  /\ meant = [x \in Slots |-> Null]
  /\ bad = FALSE
  /\ shared = FALSE

-----------------------------------------------------------------------------
(* Allocating and releasing, on a record m of the heap and bad.            *)

Now == [heap |-> heap, bad |-> bad]

Fresh(m) == Min((1 .. Cardinality(DOMAIN m.heap) + 1) \ DOMAIN m.heap)

Allocated(m, block) ==
  [m |-> [m EXCEPT !.heap = Put(m.heap, Fresh(m), block)], ref |-> Fresh(m)]

Released(m, ref) ==
  IF ref \in DOMAIN m.heap THEN [m EXCEPT !.heap = Erase(m.heap, {ref})]
                           ELSE [m EXCEPT !.bad = TRUE]

\* CZString(const CZString&), of a name that is duplicated on copy.
NameCopied(m, ref) == Allocated(m, m.heap[ref])

RECURSIVE Copied(_, _), MembersCopied(_, _, _, _)

\* The members of block with names from keys, added to those in copy.
MembersCopied(m, block, keys, copy) ==
  IF keys = {} THEN Allocated(m, copy)
  ELSE LET k     == CHOOSE key \in keys : TRUE
           name  == NameCopied(m, block.names[k])
           value == Copied(name.m, block.values[k])
       IN  MembersCopied(value.m, block, keys \ {k},
                         Map(Put(copy.names, k, name.ref), Put(copy.values, k, value.v)))

\* A slip: the copy of a string shares its text.
CopiedShares(m, v) ==
  LET all == MembersCopied(m, m.heap[v.ref], DOMAIN m.heap[v.ref].names, Map(Empty, Empty))
  IN  IF v.type = "object" THEN [m |-> all.m, v |-> [v EXCEPT !.ref = all.ref]]
                           ELSE [m |-> m, v |-> v]

\* Value(const Value&): the copy of v.
Copied(m, v) ==
  LET text == Allocated(m, m.heap[v.ref])
      all  == MembersCopied(m, m.heap[v.ref], DOMAIN m.heap[v.ref].names, Map(Empty, Empty))
  IN  CASE v.ref # 0 /\ v.ref \notin DOMAIN m.heap -> [m |-> [m EXCEPT !.bad = TRUE], v |-> v]
        [] v.ref \in DOMAIN m.heap /\ v.type = "string" ->
             [m |-> text.m, v |-> [v EXCEPT !.ref = text.ref]]
        [] v.ref \in DOMAIN m.heap /\ v.type = "object" ->
             [m |-> all.m, v |-> [v EXCEPT !.ref = all.ref]]
        [] v.ref = 0 -> [m |-> m, v |-> v]

RECURSIVE Destroyed(_, _), MembersDestroyed(_, _, _)

MembersDestroyed(m, block, keys) ==
  IF keys = {} THEN m
  ELSE LET k == CHOOSE key \in keys : TRUE
       IN  MembersDestroyed(Destroyed(Released(m, block.names[k]), block.values[k]),
                            block, keys \ {k})

\* ~Value(): the heap without v's blocks.
Destroyed(m, v) ==
  IF v.ref = 0 THEN m
  ELSE IF v.ref \in DOMAIN m.heap /\ v.type = "object"
  THEN LET block == m.heap[v.ref]
       IN  Released(MembersDestroyed(m, block, DOMAIN block.names), v.ref)
  ELSE Released(m, v.ref)

\* resolveReference: v with a member k, a null one if it is new.  The name is
\* copied into a pair, with the pair into the map, and the pair destroyed.
Resolved(m, v, k) ==
  LET new  == Allocated(m, Map(Empty, Empty))
      base == IF v.type = "null" THEN [m |-> new.m, v |-> [Plain("object") EXCEPT !.ref = new.ref]]
                                 ELSE [m |-> m, v |-> v]
      block  == base.m.heap[base.v.ref]
      pair   == Allocated(base.m, Block(k))
      stored == NameCopied(pair.m, pair.ref)
      after  == Released(stored.m, pair.ref)
  IN  IF k \in DOMAIN block.names THEN base
      ELSE [m |-> [after EXCEPT !.heap[base.v.ref] =
                     Map(Put(block.names, k, stored.ref), Put(block.values, k, Plain("null")))],
            v |-> base.v]

-----------------------------------------------------------------------------
(* What a program does with its Values.                                    *)

\* The heap becomes m's and the slots and what they should hold as given.
\* What follows on a shared block, down to the destructors, is undefined.
Becomes(m, slots, values) ==
  /\ ~shared /\ UNCHANGED shared
  /\ Cardinality(DOMAIN m.heap) <= MaxBlocks
  /\ heap' = m.heap /\ bad' = m.bad
  /\ slot' = slots /\ meant' = values

\* x = other, where other is a temporary that holds v: they swap, and what x
\* had is destroyed with it.
Gets(m, x, v, value) ==
  Becomes(Destroyed(m, slot[x]), [slot EXCEPT ![x] = v], [meant EXCEPT ![x] = value])

Complex(x) == slot[x].type \in {"null", "object"}

MeantMember(x, k) == IF k \in DOMAIN RefMember(meant[x], k).fields
                 THEN RefMember(meant[x], k).fields[k] ELSE Null

Construct(x) ==
  \/ Gets(Now, x, Plain("null"), Null)
  \/ \E t \in Texts :
       \/ Gets(Now, x, [Plain("string") EXCEPT !.text = t], String(t))
       \/ LET a == Allocated(Now, Block(t))
          IN  Gets(a.m, x, [Plain("string") EXCEPT !.ref = a.ref], String(t))
  \/ LET a == Allocated(Now, Map(Empty, Empty))
     IN  Gets(a.m, x, [Plain("object") EXCEPT !.ref = a.ref], Object(Empty))

Copy(x, y) ==
  LET c == Copied(Now, slot[y]) IN Gets(c.m, x, c.v, meant[y])

\* x.copy(y) or x.copyPayload(y): the pointer is copied, and x's is lost.
copy(x, y) ==
  /\ ~shared
  /\ slot' = [slot EXCEPT ![x] = slot[y]]
  /\ meant' = [meant EXCEPT ![x] = meant[y]]
  /\ shared' = (x # y /\ (slot[x].ref # 0 \/ slot[y].ref # 0))
  /\ UNCHANGED <<heap, bad>>

\* x = std::move(y): a temporary takes what y has, and swaps with x.
Move(x, y) ==
  LET emptied == [slot EXCEPT ![y] = Plain("null")]
  IN  Becomes(Destroyed(Now, emptied[x]), [emptied EXCEPT ![x] = slot[y]],
              [[meant EXCEPT ![y] = Null] EXCEPT ![x] = meant[y]])

Swap(x, y) ==
  Becomes(Now, [slot EXCEPT ![x] = slot[y], ![y] = slot[x]],
          [meant EXCEPT ![x] = meant[y], ![y] = meant[x]])

\* x[k] = y
SetMember(x, k, y) ==
  LET r == Resolved(Now, slot[x], k)
      c == Copied(r.m, slot[y])
      m == Destroyed(c.m, r.m.heap[r.v.ref].values[k])
  IN  /\ x # y /\ Complex(x)
      /\ Becomes([m EXCEPT !.heap[r.v.ref].values[k] = c.v], [slot EXCEPT ![x] = r.v],
                 [meant EXCEPT ![x] = Object(Put(RefMember(meant[x], k).fields, k, meant[y]))])

\* x = x[k], a part of itself.
CopyOwnMember(x, k) ==
  LET r == Resolved(Now, slot[x], k)
      c == Copied(r.m, r.m.heap[r.v.ref].values[k])
  IN  /\ Complex(x)
      /\ Becomes(Destroyed(c.m, r.v), [slot EXCEPT ![x] = c.v],
                 [meant EXCEPT ![x] = MeantMember(x, k)])

\* x = std::move(x[k])
MoveOwnMember(x, k) ==
  LET r == Resolved(Now, slot[x], k)
      v == r.m.heap[r.v.ref].values[k]
      m == [r.m EXCEPT !.heap[r.v.ref].values[k] = Plain("null")]
  IN  /\ Complex(x)
      /\ Becomes(Destroyed(m, r.v), [slot EXCEPT ![x] = v], [meant EXCEPT ![x] = MeantMember(x, k)])

\* x.removeMember(k, &y)
RemoveMember(x, k, y) ==
  LET block == heap[slot[x].ref]
      c == Copied(Now, block.values[k])
      m == Destroyed(Released(Destroyed(c.m, slot[y]), block.names[k]), block.values[k])
  IN  /\ x # y /\ slot[x].type = "object" /\ k \in DOMAIN block.names
      /\ Becomes([m EXCEPT !.heap[slot[x].ref] =
                    Map(Erase(block.names, {k}), Erase(block.values, {k}))],
                 [slot EXCEPT ![y] = c.v],
                 [meant EXCEPT ![x] = Object(Erase(meant[x].fields, {k})),
                               ![y] = meant[x].fields[k]])

Clear(x) ==
  LET block == heap[slot[x].ref]
      m == MembersDestroyed(Now, block, DOMAIN block.names)
  IN  /\ Complex(x)
      /\ IF slot[x].type = "null" THEN UNCHANGED memory
         ELSE Becomes([m EXCEPT !.heap[slot[x].ref] = Map(Empty, Empty)], slot,
                      [meant EXCEPT ![x] = Object(Empty)])

NextMemory ==
  \E x \in Slots :
    \/ Construct(x) \/ Clear(x)
    \/ \E y \in Slots : Copy(x, y) \/ copy(x, y) \/ Move(x, y) \/ Swap(x, y)
    \/ \E k \in Keys :
         \/ CopyOwnMember(x, k) \/ MoveOwnMember(x, k)
         \/ \E y \in Slots : SetMember(x, k, y) \/ RemoveMember(x, k, y)

-----------------------------------------------------------------------------
(* Who owns a block.                                                       *)

Maps == {b \in DOMAIN heap : heap[b].kind = "map"}
Has(part, b) ==
  {p \in Maps \X Keys : p[2] \in DOMAIN heap[p[1]].names /\ b = part[p[1]][p[2]]}
Owners(b) ==
  {<<x, "slot", "">> : x \in {y \in Slots : slot[y].ref = b}}
    \cup {<<p[1], "name", p[2]>> : p \in Has([c \in Maps |-> heap[c].names], b)}
    \cup {<<p[1], "value", p[2]>> :
            p \in Has([c \in Maps |-> [k \in DOMAIN heap[c].values |-> heap[c].values[k].ref]], b)}

\* What a value holds, as long as its block is there.
Gone == [type |-> "gone"]

RECURSIVE Held(_)
Held(v) ==
  CASE v.type = "null" -> Null
    [] v.type = "string" /\ v.ref = 0 -> String(v.text)
    [] v.ref # 0 /\ v.ref \notin DOMAIN heap -> Gone
    [] v.type = "string" /\ v.ref \in DOMAIN heap -> String(heap[v.ref].text)
    [] v.type = "object" /\ v.ref \in DOMAIN heap ->
         Object([k \in DOMAIN heap[v.ref].values |-> Held(heap[v.ref].values[k])])

\* However Values are assigned, moved and put into one another, every block has
\* one owner, so that it is released once and none is left behind, nothing is
\* used after its release, and no Value changes when another that was assigned
\* from it does.  The public copy and copyPayload keep to this only where
\* neither Value has a block.
OwnedOnce ==
  ~shared =>
  /\ ~bad
  /\ \A b \in DOMAIN heap : Cardinality(Owners(b)) = 1
  /\ \A x \in Slots : Held(slot[x]) = meant[x]
=============================================================================
