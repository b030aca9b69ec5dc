------------------------------ MODULE JsonPath ------------------------------
(***************************************************************************)
(* The members of a Json::Value by their name, and Json::Path              *)
(* (jsoncpp.cpp): a text such as ".asks[0][%]" with arguments for its      *)
(* placeholders, that is followed into a value.  The code marks every      *)
(* error of a path with a comment and goes on.                             *)
(***************************************************************************)
EXTENDS JsonValue, JsonText, JsonNumber, Calls

CONSTANTS
  MaxIndex,     \* the largest ArrayIndex
  Roots,        \* Values to follow paths in, with the Values they hold
  NewValues,    \* Values to put where a path leads
  Paths         \* the arguments of paths

\* find, and what asks for it: a null has no members, any other value that is
\* not an object throws.
FindAsserts(v) == v.type \in {"null", "object"}
isMember(v, key) == v.type = "object" /\ key \in DOMAIN v.fields
getMemberNames(v) == IF v = Null THEN {} ELSE DOMAIN v.fields

get(v, key, default) == IF isMember(v, key) THEN v.fields[key] ELSE default
isValidIndex(v, i) == i < size(v)

\* The value without the member, and the member.
removeMember(v, key) ==
  [rest |-> IF isMember(v, key) THEN Object(Erase(v.fields, {key})) ELSE v,
   removed |-> get(v, key, Null)]

-----------------------------------------------------------------------------
(* The arguments of a path.                                                *)

\* A text, or a key: c_str() takes a key to end at its first NUL, and where a name in
\* a text would begin with one, the loop would not end.
PathText == Seq(Byte \ {0})

Index(i)   == [kind |-> "index", index |-> i]
Key(k)     == [kind |-> "key", key |-> k]
NoArgument == [kind |-> "none"]
Argument   == [kind : {"index"}, index : 0 .. MaxIndex] \cup [kind : {"key"}, key : PathText]

Dot == 46
Percent == 37
Opening == 91
Closing == 93

\* Path(path, a1, .., a5): those that are not given are of no kind.
InArgs(given) == given \o [i \in 1 .. 5 - Len(given) |-> NoArgument]

\* A slip: the placeholder does not use the argument up.
addPathInArgSame(in, kind) ==
  [args |-> IF in # <<>> /\ in[1].kind = kind THEN <<in[1]>> ELSE <<>>, in |-> in]

\* What a placeholder stands for, and the arguments given that are left.  One
\* that is missing or of the other kind is left out.
addPathInArg(in, kind) ==
  IF in # <<>> /\ in[1].kind = kind THEN [args |-> <<in[1]>>, in |-> Tail(in)]
                                    ELSE [args |-> <<>>, in |-> in]

\* The index that digits are read as, which wraps around.
ArrayIndex(t) == Value[[i \in DOMAIN t |-> t[i] - 48]] % (MaxIndex + 1)

\* The arguments of a text, with those given.  After an index one byte is skipped,
\* which should be its bracket.
makePath[p \in PathText \X Seq(Argument \cup {NoArgument})] ==
  LET t        == p[1]
      in       == p[2]
      digits   == Beyond(t, 2, DigitBytes)
      name     == Min({j \in 1 .. Len(t) + 1 : j > Len(t) \/ t[j] \in {Dot, Opening}})
      From(n, left)  == makePath[<<SubSeq(t, n, Len(t)), left>>]
      Filled(kind, n) == LET a == addPathInArg(in, kind) IN a.args \o From(n, a.in)
  IN  CASE t = <<>> -> <<>>
        [] t # <<>> /\ t[1] = Opening /\ CharAt(t, 2) = Percent -> Filled("index", 3)
        [] t # <<>> /\ t[1] = Opening /\ CharAt(t, 2) # Percent ->
             <<Index(ArrayIndex(SubSeq(t, 2, digits - 1)))>> \o From(digits + 1, in)
        [] t # <<>> /\ t[1] = Percent -> Filled("key", 2)
        [] t # <<>> /\ t[1] \in {Dot, Closing} -> From(2, in)
        [] OTHER -> <<Key(SubSeq(t, 1, name - 1))>> \o From(name, in)

-----------------------------------------------------------------------------
(* A path followed into a value.                                           *)

Lost == [type |-> "lost"]

\* One argument; a hole of an array is there and null.
Reach(node, arg) ==
  CASE arg.kind = "index" /\ node.type = "array" /\ isValidIndex(node, arg.index) ->
         At(node, arg.index)
    [] arg.kind = "key" /\ isMember(node, arg.key) -> node.fields[arg.key]
    [] OTHER -> Lost

\* The nodes on the way, from the root on.
Nodes(root, args) ==
  LET node[n \in 0 .. Len(args)] == IF n = 0 THEN root ELSE Reach(node[n - 1], args[n])
  IN  node

OrElse(node, default) == IF node = Lost THEN default ELSE node

resolveOr(root, args, default) == OrElse(Nodes(root, args)[Len(args)], default)
resolve(root, args) == resolveOr(root, args, Null)

\* operator[] takes a null and what is of its kind, and makes what is missing.
OperatorAsserts(node, arg) ==
  IF arg.kind = "index" THEN node.type \in {"null", "array"} ELSE FindAsserts(node)

With(node, arg, x) ==
  IF arg.kind = "index" THEN Set(node, arg.index, x)
  ELSE Object(Put(RefMember(node, arg.key).fields, arg.key, x))

\* An operator[] on the way meets a value that is neither null nor of its kind.
MakeAsserts(root, args) ==
  LET node == Nodes(root, args)
  IN  \A n \in 1 .. Len(args) : OperatorAsserts(OrElse(node[n - 1], Null), args[n])

\* What becomes of the nodes on the way, x at its end.
Remade(root, args, x) ==
  LET node == Nodes(root, args)
      made[n \in 0 .. Len(args)] ==
        IF n = Len(args) THEN x ELSE With(OrElse(node[n], Null), args[n + 1], made[n + 1])
  IN  made

\* make(root) = x: the values on the way are made where they are missing.  What
\* fails to be one of them was there before, so nothing was made until then.
make(root, args, x) == IF MakeAsserts(root, args) THEN Remade(root, args, x)[0] ELSE root

-----------------------------------------------------------------------------
(* A program that has a path from a text, and makes it in a Value.         *)

\* Any Values, with those they hold, and arguments of any length.
PartsOf(v) ==
  CASE v.type = "array"  -> {v.items[i] : i \in DOMAIN v.items}
    [] v.type = "object" -> {v.fields[k] : k \in DOMAIN v.fields}
    [] OTHER             -> {}

ASSUME PathAssumption ==
  /\ MaxIndex \in Nat /\ Paths \subseteq Seq(Argument)
  /\ \A v \in Roots :
       /\ v.type = "null" => v = Null
       /\ v.type = "array" => v = Array(v.items) /\ IsFiniteSet(DOMAIN v.items) /\ DOMAIN v.items \subseteq Nat
       /\ v.type = "object" => v = Object(v.fields)
       /\ PartsOf(v) \subseteq Roots
  /\ Lost \notin Roots \cup NewValues

\* An argument in the text, or a placeholder for it.  A key that is empty or holds
\* the path's own signs cannot be in a text.
Piece(step) ==
  LET arg == step.arg
      text == IF step.given THEN <<Percent>>
              ELSE IF arg.kind = "key" THEN arg.key
              ELSE [d \in DOMAIN uintToString[arg.index] |-> 48 + uintToString[arg.index][d]]
  IN  IF arg.kind = "index" THEN <<Opening>> \o text \o <<Closing>> ELSE <<Dot>> \o text

Spellable(step) ==
  (~step.given /\ step.arg.kind = "key") =>
    LET key == step.arg.key
    IN  /\ key # <<>> /\ key[1] \notin {Percent, Closing}
        /\ \A i \in DOMAIN key : key[i] \notin {Dot, Opening}

PathStep == {step \in [arg : Argument, given : BOOLEAN] : Spellable(step)}

Spelled[steps \in Seq(PathStep)] ==
  IF steps = <<>> THEN <<>> ELSE Piece(steps[1]) \o Spelled[Tail(steps)]

\* The arguments for the placeholders.
GivenTo[steps \in Seq(PathStep)] ==
  IF steps = <<>> THEN <<>>
  ELSE (IF steps[1].given THEN <<steps[1].arg>> ELSE <<>>) \o GivenTo[Tail(steps)]

PathCall ==
  /\ call = NoCall
  /\ \E root \in Roots, args \in Paths, x \in NewValues :
       \E given \in SUBSET DOMAIN args :
         LET steps == [n \in DOMAIN args |-> [arg |-> args[n], given |-> n \in given]]
         IN  /\ \A n \in DOMAIN args : Spellable(steps[n])
             /\ Len(GivenTo[steps]) <= 5
             /\ call' = [f |-> "path", root |-> root, args |-> args, x |-> x,
                         read |-> makePath[<<Spelled[steps], InArgs(GivenTo[steps])>>],
                         throws |-> ~MakeAsserts(root, args), made |-> make(root, args, x)]

PathSpec == CallInit /\ [][PathCall]_call

\* A path's text and the arguments for its placeholders give its arguments in
\* their order; what is put where a path leads is found there, whatever had to
\* be made on the way, and no path that leads elsewhere finds anything else than
\* before; where the path cannot be, an exception leaves the value as it was.
\* Of a member that is removed nothing is found, of the others everything.
PathsResolve ==
  call.f = "path" =>
    LET args == call.args
        Apart(other) == \E n \in DOMAIN args \cap DOMAIN other : args[n] # other[n]
    IN  /\ call.read = args
        /\ call.throws => call.made = call.root
        /\ ~call.throws => /\ resolve(call.made, args) = call.x
                           /\ resolveOr(call.made, args, Lost) = call.x
        /\ \A other \in Paths : Apart(other) => resolve(call.made, other) = resolve(call.root, other)
        /\ (~call.throws /\ args # <<>> /\ args[1].kind = "key") =>
             LET key == args[1].key
                 less == removeMember(call.made, key)
             IN  /\ less.removed = resolve(call.made, SubSeq(args, 1, 1))
                 /\ getMemberNames(less.rest) = getMemberNames(call.made) \ {key}
                 /\ \A other \in Paths :
                      other # <<>> => resolveOr(less.rest, other, Lost) =
                        IF other[1] = args[1] THEN Lost ELSE resolveOr(call.made, other, Lost)
=============================================================================
