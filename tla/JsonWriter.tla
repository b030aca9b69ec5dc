----------------------------- MODULE JsonWriter -----------------------------
(***************************************************************************)
(* BuiltStyledStreamWriter (jsoncpp.cpp), which toStyledString and so      *)
(* every request body is written with, up to white space: a document is    *)
(* its tokens.  An array whose elements fit on a line is first written     *)
(* into childValues_ and then from there.  The values these programs write *)
(* are built and not parsed, so they have no comments; their style is      *)
(* "All", every array on lines of its own.                                 *)
(***************************************************************************)
EXTENDS JsonLexer

Name(key) == [type |-> "string", text |-> key]

\* The state of a writer: sout_, childValues_ and addChildValues_.
NewWriter == [out |-> <<>>, child |-> <<>>, add |-> FALSE]

write(w, tokens) == [w EXCEPT !.out = @ \o tokens]

pushValue(w, tokens) ==
  IF w.add THEN [w EXCEPT !.child = Append(@, tokens)] ELSE write(w, tokens)

Joined(parts) ==
  FlattenSeq([i \in 1 .. Len(parts) |->
                IF i = 1 THEN parts[1] ELSE <<Sign(",")>> \o parts[i]])

Elements(v) == [i \in 1 .. size(v) |-> At(v, i - 1)]

\* isMultineArray's first test: too many elements, or one that is not empty.
Long(S, v) ==
  \/ size(v) * 3 >= S.rightMargin
  \/ \E i \in 1 .. size(v) : size(Elements(v)[i]) > 0

lineLength(parts) == 4 + (Len(parts) - 1) * 2 + Len(FlattenSeq(parts))

RECURSIVE writeValue(_, _, _)

\* The elements in turn, with Sep between them.
RECURSIVE EachOf(_, _, _, _)
EachOf(S, w, elements, Sep) ==
  IF elements = <<>> THEN w
  ELSE LET now == writeValue(S, w, Head(elements))
       IN  EachOf(S, IF Tail(elements) = <<>> THEN now ELSE write(now, Sep),
                  Tail(elements), Sep)

\* A slip: childValues_ keeps what an earlier array left.
isMultineArrayKeeps(S, w, v) ==
  IF Long(S, v) THEN [multi |-> TRUE, w |-> w]
  ELSE LET now == EachOf(S, [w EXCEPT !.child = <<>>, !.add = TRUE], Elements(v), <<>>)
       IN  [multi |-> lineLength(now.child) >= S.rightMargin,
            w |-> [now EXCEPT !.add = FALSE]]

isMultineArray(S, w, v) ==
  LET clear == [w EXCEPT !.child = <<>>]
      now   == EachOf(S, [clear EXCEPT !.add = TRUE], Elements(v), <<>>)
  IN  IF Long(S, v) THEN [multi |-> TRUE, w |-> clear]
      ELSE [multi |-> lineLength(now.child) >= S.rightMargin,
            w |-> [now EXCEPT !.add = FALSE]]

writeArrayValue(S, w, v) ==
  LET m == IF S.commentStyle = "All" THEN [multi |-> TRUE, w |-> w]
                                     ELSE isMultineArray(S, w, v)
      open == write(m.w, <<Sign("[")>>)
      all  == IF ~m.multi \/ m.w.child # <<>>
              THEN write(open, Joined(m.w.child))
              ELSE EachOf(S, open, Elements(v), <<Sign(",")>>)
  IN  IF size(v) = 0 THEN pushValue(w, <<Sign("["), Sign("]")>>)
                     ELSE write(all, <<Sign("]")>>)

\* valueToQuotedString(name.c_str()) sees a name up to its first NUL.
CString(key) == SubSeq(key, 1, Min({i \in 1 .. Len(key) + 1 : CharAt(key, i) = 0}) - 1)
NameOf(S, key) == Name(IF S.cNames THEN CString(key) ELSE key)

\* The members from the set keys on; getMemberNames gives them in some order.
RECURSIVE writeMembers(_, _, _, _)
writeMembers(S, w, v, keys) ==
  LET key == CHOOSE k \in keys : TRUE
      now == writeValue(S, write(w, <<NameOf(S, key), Sign(":")>>), v.fields[key])
      rest == keys \ {key}
  IN  IF rest = {} THEN now ELSE writeMembers(S, write(now, <<Sign(",")>>), v, rest)

writeValue(S, w, v) ==
  CASE v = Null           -> pushValue(w, <<null>>)
    [] v.type = "array"   -> writeArrayValue(S, w, v)
    [] v.type = "object" /\ size(v) = 0 -> pushValue(w, <<Sign("{"), Sign("}")>>)
    [] v.type = "object" /\ size(v) > 0 ->
         write(writeMembers(S, write(w, <<Sign("{")>>), v, DOMAIN v.fields),
               <<Sign("}")>>)
    [] OTHER              -> pushValue(w, <<v>>)

\* StreamWriterBuilder::setDefaults, as toStyledString uses it.
Styled(margin)  == [commentStyle |-> "All", rightMargin |-> margin, cNames |-> FALSE]
Compact(margin) == [commentStyle |-> "None", rightMargin |-> margin, cNames |-> FALSE]

writeString(S, root) == writeValue(S, NewWriter, root).out

-----------------------------------------------------------------------------
(* The three writers of old, whose settings cannot be changed but for      *)
(* FastWriter's, which are off.                                            *)

\* No array is put on lines of its own for its comments' sake.
OldStyle(margin) == [commentStyle |-> "Kept", rightMargin |-> margin, cNames |-> TRUE]

\* Two copies of the code above: isMultineArray judges every array, and names
\* are C strings.
StyledWriter(margin, root) == writeValue(OldStyle(margin), NewWriter, root).out
StyledStreamWriter(margin, root) == writeValue(OldStyle(margin), NewWriter, root).out

RECURSIVE FastWriter(_)
FastWriter(v) ==
  LET Member(key) == <<Name(key), Sign(":")>> \o FastWriter(v.fields[key])
      keys == SetToSeq(IF v.type = "object" THEN DOMAIN v.fields ELSE {})
      Between(open, parts, close) == <<Sign(open)>> \o Joined(parts) \o <<Sign(close)>>
  IN  CASE v = Null          -> <<null>>
        [] v.type = "array"  -> Between("[", [i \in 1 .. size(v) |-> FastWriter(Elements(v)[i])], "]")
        [] v.type = "object" -> Between("{", [i \in 1 .. Len(keys) |-> Member(keys[i])], "}")
        [] OTHER             -> <<v>>

-----------------------------------------------------------------------------

\* The bytes of tokens on the stream.  Around each the writer may leave gap:
\* nothing, or a line feed and the indentation.
Rendered(tokens, gap) ==
  LET BytesOf(tok) ==
        CASE tok.type = "string" -> valueToQuotedStringN(tok.text)
          [] tok.type = "literal" -> tok.text
          [] OTHER -> <<CHOOSE c \in DOMAIN Structural : Structural[c] = tok.type>>
  IN  FlattenSeq([i \in 1 .. Len(tokens) |-> gap \o BytesOf(tokens[i])]) \o gap
=============================================================================
