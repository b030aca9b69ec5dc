----------------------------- MODULE JsonReader -----------------------------
(***************************************************************************)
(* The recursive descent parser of jsoncpp.cpp, on documents that are      *)
(* already cut into tokens (readToken).  Two copies of it exist: Reader,   *)
(* used by the REST clients and simple_websocket, and OurReader behind     *)
(* CharReaderBuilder, used by base_websocket.h; they differ in the         *)
(* settings F.  Comments are skipped, and offsets left out; the settings   *)
(* allowNumericKeys, allowDroppedNullPlaceholders, allowSingleQuotes and   *)
(* allowSpecialFloats are off in every use and left out.                   *)
(*                                                                         *)
(* The parser fills the caller's Value in place, so what it has read stays *)
(* there when it fails.  A reading is a record: ok, the position after it, *)
(* the value left behind, the errors added and the token they name, and    *)
(* thrown for an exception.                                                *)
(***************************************************************************)
EXTENDS JsonValue, JsonText, SequencesExt, TLC

\* Features::all, CharReaderBuilder::setDefaults and ::strictMode.
Features(limit) ==
  [allowComments |-> TRUE, strictRoot |-> FALSE, failIfExtra |-> FALSE,
   rejectDupKeys |-> FALSE, stackLimit |-> limit]
strictMode(limit) ==
  [allowComments |-> FALSE, strictRoot |-> TRUE, failIfExtra |-> TRUE,
   rejectDupKeys |-> TRUE, stackLimit |-> limit]

Scalars == {"string", "literal"}  \* "literal": a number, true, false or null
null == [type |-> "literal", text |-> <<110, 117, 108, 108>>]
Sign(c) == [type |-> c, text |-> <<>>]  \* a token without a value
EndOfStream == Sign("eos")
Tok(doc, i) == IF i <= Len(doc) THEN doc[i] ELSE EndOfStream
After(doc, i) == IF i <= Len(doc) THEN i + 1 ELSE i

\* readToken until it is no comment.
skipComments(doc, i) ==
  Min({j \in i .. Len(doc) + 1 : Tok(doc, j).type # "comment"})
skipCommentTokens(F, doc, i) == IF F.allowComments THEN skipComments(doc, i) ELSE i

\* decodeString, decodeNumber: a bad escape or number is an error.
Decodes(tok) == tok.text # Bad

Done(i, v) ==
  [ok |-> TRUE, at |-> i, value |-> v, errors |-> 0, where |-> 0, thrown |-> FALSE]
Throw(v) == [Done(0, v) EXCEPT !.ok = FALSE, !.thrown = TRUE]

\* An error at token j.
addError(j, i, v) == [Done(i, v) EXCEPT !.ok = FALSE, !.errors = 1, !.where = j]

\* recoverFromError: the position after the closing token, or the end.
recoverFromError(doc, i, close) ==
  After(doc, Min({j \in i .. Len(doc) + 1 : Tok(doc, j).type \in {close, "eos"}}))
addErrorAndRecover(doc, j, i, close, v) == addError(j, recoverFromError(doc, i, close), v)

\* A reading r of a part failed: what is left of the whole is v.
Failed(doc, r, close, v) ==
  IF r.thrown THEN Throw(v)
  ELSE [r EXCEPT !.at = recoverFromError(doc, r.at, close), !.value = v]

RECURSIVE readValue(_, _, _, _, _), readArray(_, _, _, _, _),
          readObject(_, _, _, _, _, _)

\* readValue, with nodes on the stack nodes_ and old in the value to fill.
readValue(F, doc, i, nodes, old) ==
  IF nodes > F.stackLimit THEN Throw(old)
  ELSE LET j == skipCommentTokens(F, doc, i)
           k == Tok(doc, j)
       IN  CASE k.type = "{" -> readObject(F, doc, j + 1, nodes, Object(Empty), <<>>)
             [] k.type = "[" -> IF Tok(doc, j + 1).type = "]"
                                THEN Done(j + 2, Array(Empty))
                                ELSE readArray(F, doc, j + 1, nodes, Array(Empty))
             [] k.type \in Scalars ->
                  IF Decodes(k) THEN Done(j + 1, IF k = null THEN Null ELSE k)
                                ELSE addError(j, j + 1, old)
             [] OTHER -> addError(j, After(doc, j), old)

\* A slip: whatever is no comma ends the array.
readArrayLenient(F, doc, i, nodes, v) ==
  LET r   == readValue(F, doc, i, nodes + 1, Null)
      now == append(v, r.value)
      j   == skipComments(doc, r.at)
  IN  CASE ~r.ok                    -> Failed(doc, r, "]", now)
        [] Tok(doc, j).type # ","   -> Done(After(doc, j), now)
        [] OTHER                    -> readArray(F, doc, j + 1, nodes, now)

\* The elements from i on, after those in v.
readArray(F, doc, i, nodes, v) ==
  LET r   == readValue(F, doc, i, nodes + 1, Null)
      now == append(v, r.value)
      j   == skipComments(doc, r.at)
      k   == Tok(doc, j)
  IN  CASE ~r.ok        -> Failed(doc, r, "]", now)
        [] k.type = "]" -> Done(j + 1, now)
        [] k.type = "," -> readArray(F, doc, j + 1, nodes, now)
        [] OTHER        -> addErrorAndRecover(doc, j, After(doc, j), "]", now)

\* The members from i on, after those in v, of which name was the last.  An
\* object may end after a comma if that name was empty, and a comment after a
\* member is not followed by a check of the token after it.
readObject(F, doc, i, nodes, v, name) ==
  LET j == skipComments(doc, i)
      k == Tok(doc, j)
      Reject(n, at) == addErrorAndRecover(doc, n, at, "}", v)
  IN  IF k.type = "}" /\ name = <<>> THEN Done(j + 1, v)
      ELSE IF k.type # "string" \/ ~Decodes(k) THEN Reject(j, After(doc, j))
      ELSE IF Tok(doc, j + 1).type # ":" THEN Reject(j + 1, After(doc, j + 1))
      ELSE IF F.rejectDupKeys /\ k.text \in DOMAIN v.fields THEN Reject(j, j + 2)
      ELSE LET old == RefMember(v, k.text).fields[k.text]
               r   == readValue(F, doc, j + 2, nodes + 1, old)
               now == Object(Put(v.fields, k.text, r.value))
               m   == Tok(doc, r.at)
               e   == skipComments(doc, r.at)
           IN  IF ~r.ok THEN Failed(doc, r, "}", now)
               ELSE IF m.type \notin {"}", ",", "comment"}
               THEN addErrorAndRecover(doc, r.at, After(doc, r.at), "}", now)
               ELSE IF Tok(doc, e).type = "}" THEN Done(e + 1, now)
               ELSE readObject(F, doc, After(doc, e), nodes, now, k.text)

\* A slip: strict reading, too, stops at the end of the value.
parseNoExtra(F, doc, root) ==
  LET r == readValue(F, doc, 1, 1, root)
  IN  IF ~r.thrown /\ F.strictRoot /\ r.value.type \notin {"array", "object"}
      THEN [r EXCEPT !.ok = FALSE, !.errors = r.errors + 1]
      ELSE r

\* OurReader::parse; Reader::parse is the same where failIfExtra is off.
parse(F, doc, root) ==
  LET r   == readValue(F, doc, 1, 1, root)
      end == Tok(doc, skipCommentTokens(F, doc, r.at))
  IN  IF r.thrown THEN r
      ELSE IF \/ /\ F.failIfExtra /\ end.type # "eos"
                 /\ F.strictRoot \/ end.type # "error"
              \/ F.strictRoot /\ r.value.type \notin {"array", "object"}
      THEN [r EXCEPT !.ok = FALSE, !.errors = r.errors + 1]
      ELSE r
=============================================================================
