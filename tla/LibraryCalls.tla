---------------------------- MODULE LibraryCalls ----------------------------
(***************************************************************************)
(* Calls of the libraries' pure functions.  In the initial state nothing   *)
(* has been called; a call takes its arguments from small sets and leaves  *)
(* its name, its arguments and its results in call, where the properties   *)
(* compare them with what the function is for.  The operations on the      *)
(* array of JsonArray and on the values of JsonMemory can follow one       *)
(* another.                                                                *)
(***************************************************************************)
EXTENDS JsonWriter, JsonPath, JsonOrder, JsonMemory, JsonArray,
        NumberCalls, TextCalls, DecimalCalls

CONSTANTS
  Values,      \* Json::Values to write and to read
  Writers, Margin,        \* writers and their margin
  Limits,      \* stackLimit
  Gaps,        \* white space and comments between tokens
  Words, MaxWords,        \* tokens, and a bound on a sequence of them
  Tokens, MaxTokens,      \* documents: sequences of at most MaxTokens tokens
  Documents               \* and longer ones

vars == <<call, arrayVars, memory>>

Init == CallInit /\ ArrayInit /\ InitMemory

Unused == ~shared /\ \A x \in Slots : slot[x] = Plain("null")
Ready == call = NoCall /\ list = <<>> /\ Unused

Called(c) ==
  /\ call' = c
  /\ UNCHANGED <<arrayVars, memory>>

-----------------------------------------------------------------------------
(* Json::Value to text and back.                                           *)

Blanks == {gap \in Gaps : ToSet(gap) \subseteq Spaces}

Written1(writer, v) ==
  CASE writer = "FastWriter"         -> FastWriter(v)
    [] writer = "StyledWriter"       -> StyledWriter(Margin, v)
    [] writer = "StyledStreamWriter" -> StyledStreamWriter(Margin, v)
    [] writer = "Styled"             -> writeString(Styled(Margin), v)
    [] writer = "Compact"            -> writeString(Compact(Margin), v)

\* The reader is Reader or, where our, OurReader.
WriteAndRead ==
  /\ Ready
  /\ \E v \in Values, writer \in Writers, gap \in Blanks, limit \in Limits, our \in BOOLEAN :
       LET text == Rendered(Written1(writer, v), gap)
       IN  Called([f |-> "write", v |-> v, writer |-> writer, limit |-> limit,
                   r |-> parse(Features(limit), TokensFrom(our, text, 1), Null)])

\* WSClient::OnDataReady: what the callback is given, whatever parse returns;
\* an exception is caught, and the callback not called.
OnDataReady(limit, data) ==
  LET r == parse(Features(limit), TokensFrom(TRUE, data, 1), Null)
  IN  IF r.thrown THEN {} ELSE {r.value}

\* A message cut before its end.
ReadTorn ==
  /\ Ready
  /\ \E v \in {x \in Values : x.type \in {"array", "object"}}, our \in BOOLEAN :
       LET whole == Rendered(writeString(Styled(Margin), v), <<>>)
       IN  \E n \in 0 .. Len(whole) - 1 :
             LET text == SubSeq(whole, 1, n)
                 r    == parse(Features(Max(Limits)), TokensFrom(our, text, 1), Null)
             IN  Called([f |-> "torn", v |-> v, n |-> n, r |-> r,
                         given |-> OnDataReady(Max(Limits), text),
                         errs |-> getFormattedErrorMessages(our, text, r),
                         last |-> Max({i \in {0} \cup ToSet(StartsFrom(our, whole, 1)) : i <= n})])

\* Words written one after another, whether they make a document or not.
Lex ==
  /\ Ready
  /\ \E words \in SeqOf(Words, MaxWords), gap \in Gaps, our \in BOOLEAN :
       Called([f |-> "lex", words |-> words, gap |-> gap,
               tokens |-> TokensFrom(our, Rendered(words, gap), 1)])

Read ==
  /\ Ready
  /\ \E doc \in SeqOf(Tokens, MaxTokens) \cup Documents :
       Called([f |-> "read", doc |-> doc,
               r |-> parse(Features(Max(Limits)), doc, Null),
               strict |-> parse(strictMode(Max(Limits)), doc, Null)])

\* A number's text, or a conversion.
OnNumbers == Ready /\ NumberNext /\ UNCHANGED <<arrayVars, memory>>

\* A string's text, or an encoding.
OnTexts == Ready /\ TextNext /\ UNCHANGED <<arrayVars, memory>>

OnOrder == Ready /\ Comparison /\ UNCHANGED <<arrayVars, memory>>

OnPath == Ready /\ PathCall /\ UNCHANGED <<arrayVars, memory>>

-----------------------------------------------------------------------------
(* Arrays.                                                                 *)

OnArray ==
  /\ call = NoCall /\ Unused
  /\ ArrayNext
  /\ UNCHANGED <<call, memory>>

\* An operation on the program's other Values.
OnSlots ==
  /\ call = NoCall /\ list = <<>>
  /\ NextMemory
  /\ UNCHANGED <<call, arrayVars>>

-----------------------------------------------------------------------------
(* Decimals.                                                               *)

\* A rounding, multDiv, or an operation of decimals.
OnDecimals == Ready /\ DecimalNext /\ UNCHANGED <<arrayVars, memory>>

Next ==
  \/ WriteAndRead \/ ReadTorn \/ Lex \/ Read
  \/ OnNumbers \/ OnTexts \/ OnOrder \/ OnPath
  \/ OnArray \/ OnSlots
  \/ OnDecimals

Spec == Init /\ [][Next]_vars

-----------------------------------------------------------------------------
(* JSON.                                                                   *)

RECURSIVE Depth(_)
Depth(v) ==
  LET parts == CASE v.type = "array"  -> {Depth(x) : x \in {v.items[i] : i \in DOMAIN v.items}}
                 [] v.type = "object" -> {Depth(x) : x \in {v.fields[k] : k \in DOMAIN v.fields}}
                 [] OTHER             -> {}
  IN  1 + Max(parts \cup {0})

CutsNames(writer, v) ==
  /\ writer \in {"StyledWriter", "StyledStreamWriter"} /\ v.type = "object"
  /\ \E key \in DOMAIN v.fields : 0 \in ToSet(key)

\* A value that is written, by any writer, and read again is the same value,
\* with two exceptions: a value nested deeper than the reader's stack limit is
\* refused by an exception, and the two older styled writers cut a member's
\* name at a NUL.  Requests are written by the REST clients and
\* every answer is read with these two functions.
ReadsBack ==
  (call.f = "write" /\ ~CutsNames(call.writer, call.v)) =>
    IF Depth(call.v) <= call.limit
    THEN call.r = [Done(call.r.at, call.v) EXCEPT !.at = call.r.at]
    ELSE call.r.thrown

\* v could be what was read of w before its text ended.
RECURSIVE PartOf(_, _)
PartOf(v, w) ==
  \/ v \in {w, Null}
  \/ v.type = "literal" /\ w.type = "literal" /\ IsPrefix(v.text, w.text)
  \/ /\ v.type = "array" /\ w.type = "array"
     /\ \A i \in DOMAIN v.items : PartOf(v.items[i], At(w, i))
  \/ /\ v.type = "object" /\ w.type = "object" /\ DOMAIN v.fields \subseteq DOMAIN w.fields
     /\ \A k \in DOMAIN v.fields : PartOf(v.fields[k], w.fields[k])

\* An array or object whose text is cut at any byte before its end is refused
\* with exactly one error, and what is left in the caller's value holds nothing
\* that the whole text does not say, but for nulls and for a last number that
\* is cut itself: a reader that ignores the result, as event_cb of
\* simple_websocket.cpp and OnDataReady of base_websocket.h do, works on a part
\* of the message.  The error is reported at the last word that arrived or
\* behind it.
TornIsRefused ==
  call.f = "torn" =>
    /\ ~call.r.ok /\ ~call.r.thrown /\ call.r.errors = 1
    /\ \A v \in {call.r.value} \cup call.given : PartOf(v, call.v)
    /\ call.errs[1].line = 1 /\ call.errs[1].column >= call.last

\* Two words with nothing between them can be one.
Runs(a, b) == a.type = "literal" /\ Last(a.text) \in DigitBytes
              /\ b.type = "literal" /\ b.text[1] \in DigitBytes

\* A line ends with LF, with CR LF or with CR.
LineEnds(text) ==
  {i \in 1 .. Len(text) : text[i] = 10 \/ (text[i] = 13 /\ CharAt(text, i + 1) # 10)}

\* A text is cut into the words it was written from, whatever is between them
\* and whatever bytes its strings hold: quotes, backslashes, brackets, slashes
\* and stars in a string end nothing and begin no comment.  The line and the
\* column that an error would name are those of the word, whichever of the three
\* line ends the text has.
TokensReadBack ==
  call.f = "lex" =>
    LET text == Rendered(call.words, call.gap)
    IN  /\ \/ SelectSeq(call.tokens, LAMBDA tok : tok.type # "comment") = call.words
           \/ /\ call.gap = <<>>
              /\ \E i \in 1 .. Len(call.words) - 1 : Runs(call.words[i], call.words[i + 1])
        /\ \A i \in ToSet(StartsFrom(FALSE, text, 1)) :
             LET before == {e \in LineEnds(text) : e < i}
             IN  getLocationLineAndColumn(text, i) =
                   [line |-> Cardinality(before) + 1, column |-> i - Max({0} \cup before)]

\* What JSON is: a value, the elements of an array and the members of an
\* object.  Where strict, no name may be among those that came before.
RECURSIVE IsValue(_, _), IsElements(_, _), IsMembers(_, _, _)
IsValue(strict, doc) ==
  LET first == doc[1]
      inner == SubSeq(doc, 2, Len(doc) - 1)
  IN  \/ Len(doc) = 1 /\ first.type \in Scalars /\ first.text # Bad
      \/ /\ Len(doc) > 1 /\ first.type = "[" /\ Last(doc).type = "]"
         /\ inner = <<>> \/ IsElements(strict, inner)
      \/ /\ Len(doc) > 1 /\ first.type = "{" /\ Last(doc).type = "}"
         /\ inner = <<>> \/ IsMembers(strict, {}, inner)
IsElements(strict, doc) ==
  \/ IsValue(strict, doc)
  \/ \E n \in 2 .. Len(doc) - 1 :
       /\ doc[n].type = "," /\ IsValue(strict, SubSeq(doc, 1, n - 1))
       /\ IsElements(strict, SubSeq(doc, n + 1, Len(doc)))
IsMembers(strict, names, doc) ==
  /\ Len(doc) >= 3 /\ doc[1].type = "string" /\ doc[1].text # Bad /\ doc[2].type = ":"
  /\ strict => doc[1].text \notin names
  /\ \/ IsValue(strict, SubSeq(doc, 3, Len(doc)))
     \/ \E n \in 4 .. Len(doc) - 1 :
          /\ doc[n].type = "," /\ IsValue(strict, SubSeq(doc, 3, n - 1))
          /\ IsMembers(strict, names \cup {doc[1].text}, SubSeq(doc, n + 1, Len(doc)))

\* The reader accepts the texts that begin with a JSON value, and the strict
\* one those that are an array or an object with no name twice.
ParsesJson ==
  call.f = "read" =>
    /\ call.r.ok <=> \E n \in 1 .. Len(call.doc) : IsValue(FALSE, SubSeq(call.doc, 1, n))
    /\ call.strict.ok <=> /\ call.doc # <<>> /\ call.doc[1].type \in {"[", "{"}
                          /\ IsValue(TRUE, call.doc)
=============================================================================
