----------------------------- MODULE JsonLexer ------------------------------
(***************************************************************************)
(* readToken of jsoncpp.cpp: a text of bytes cut into the tokens that      *)
(* JsonReader parses.  The two copies differ in the end of a '-' and in an *)
(* apostrophe, which OurReader takes for the slash of a comment where      *)
(* single quotes are not allowed.  What a comment says is left out.        *)
(***************************************************************************)
EXTENDS JsonReader

Spaces == {9, 10, 13, 32}
Structural ==
  123 :> "{" @@ 125 :> "}" @@ 91 :> "[" @@ 93 :> "]" @@ 44 :> "," @@ 58 :> ":"
Literals ==
  116 :> <<116, 114, 117, 101>> @@ 102 :> <<102, 97, 108, 115, 101>> @@ 110 :> null.text
Dash == 45
Slash == 47
Star == 42

skipSpaces(t, i) == Beyond(t, i, Spaces)

\* Each of the following is given the position after the token's first byte
\* and gives that after the token, and whether it is one.
Ends(i) == [ok |-> TRUE, at |-> i]
Breaks(i) == [ok |-> FALSE, at |-> i]

match(t, i, word) ==
  LET n == Len(word) - 1
  IN  IF i + n - 1 <= Len(t) /\ SubSeq(t, i, i + n - 1) = Tail(word) THEN Ends(i + n)
                                                                     ELSE Breaks(i)

readNumber(t, i) ==
  LET whole    == Beyond(t, i, DigitBytes)
      fraction == IF CharAt(t, whole) = 46 THEN Beyond(t, whole + 1, DigitBytes) ELSE whole
      sign     == IF CharAt(t, fraction + 1) \in {43, Dash} THEN 1 ELSE 0
  IN  IF CharAt(t, fraction) \in {69, 101}
      THEN Ends(Beyond(t, fraction + 1 + sign, DigitBytes))
      ELSE Ends(fraction)

\* OurReader::readNumber(true), which takes -I for the start of -Infinity.
readNegative(t, i) == IF CharAt(t, i) = 73 THEN Breaks(i + 1) ELSE readNumber(t, i)

\* A slip: an escape does not take the byte after it with it.
RECURSIVE readString(_, _), readStringBare(_, _)
readStringBare(t, i) ==
  CASE i > Len(t)   -> Breaks(i)
    [] CharAt(t, i) = Quote -> Ends(i + 1)
    [] OTHER        -> readStringBare(t, i + 1)

readString(t, i) ==
  CASE i > Len(t)               -> Breaks(i)
    [] CharAt(t, i) = Quote     -> Ends(i + 1)
    [] CharAt(t, i) = Backslash -> readString(t, IF i < Len(t) THEN i + 2 ELSE i + 1)
    [] OTHER                    -> readString(t, i + 1)

\* The comment ends where a star meets a slash, or with a slash that is the
\* last byte of the text.
readCStyleComment(t, i) ==
  LET close == {j \in i .. Len(t) - 1 : t[j] = Star /\ t[j + 1] = Slash}
      last  == IF i < Len(t) THEN Len(t) ELSE i
  IN  IF close # {} THEN Ends(Min(close) + 2)
      ELSE [ok |-> CharAt(t, last) = Slash, at |-> Min({last + 1, Len(t) + 1})]

readCppStyleComment(t, i) ==
  LET eol == Min({j \in i .. Len(t) + 1 : j > Len(t) \/ t[j] \in {10, 13}})
  IN  Ends(IF CharAt(t, eol) = 13 /\ CharAt(t, eol + 1) = 10 THEN eol + 2
           ELSE IF eol > Len(t) THEN eol ELSE eol + 1)

readComment(t, i) ==
  CASE CharAt(t, i) = Star  -> readCStyleComment(t, i + 1)
    [] CharAt(t, i) = Slash -> readCppStyleComment(t, i + 1)
    [] OTHER                -> Breaks(Min({i + 1, Len(t) + 1}))

Lexeme(type, first, end) ==
  [type |-> IF end.ok THEN type ELSE "error", first |-> first, at |-> end.at]

\* Reader::readToken, from i on: the kind of the token, its first byte and
\* the position after it.
readToken(t, i) ==
  LET first == skipSpaces(t, i)
      c     == CharAt(t, first)
      next  == first + 1
      L(type, end) == Lexeme(type, first, end)
  IN  CASE first > Len(t) \/ c = 0  -> L("eos", Ends(Min({next, Len(t) + 1})))
        [] c \in DOMAIN Structural  -> L(Structural[c], Ends(next))
        [] c = Quote                -> L("string", readString(t, next))
        [] c = Slash                -> L("comment", readComment(t, next))
        [] c \in DigitBytes \cup {Dash} -> L("number", readNumber(t, next))
        [] c \in DOMAIN Literals    -> L("literal", match(t, next, Literals[c]))
        [] OTHER                    -> L("error", Ends(next))

\* OurReader::readToken.
ourReadToken(t, i) ==
  LET first == skipSpaces(t, i)
      c     == CharAt(t, first)
  IN  CASE c = 39   -> Lexeme("comment", first, readComment(t, first + 1))
        [] c = Dash -> Lexeme("number", first, readNegative(t, first + 1))
        [] OTHER    -> readToken(t, i)

\* decodeDouble, of a token with more than digits: digits before its exponent
\* and, where there is one, in it.
decodesDouble(number) ==
  LET e == Min({j \in 1 .. Len(number) + 1 : CharAt(number, j) \in {0, 69, 101}})
      HasDigit(s) == \E k \in 1 .. Len(s) : s[k] \in DigitBytes
  IN  /\ HasDigit(SubSeq(number, 1, e - 1))
      /\ e <= Len(number) => HasDigit(SubSeq(number, e + 1, Len(number)))

\* What JsonReader is given of a lexeme: its kind and what it decodes to.
Decoded(t, l) ==
  LET bytes == SubSeq(t, l.first, l.at - 1)
  IN  CASE l.type = "string"  -> [type |-> "string", text |-> decodeString[Unquoted(bytes)]]
        [] l.type = "number"  ->
             [type |-> "literal",
              text |-> IF ToSet(Tail(bytes)) \subseteq DigitBytes \/ decodesDouble(bytes) THEN bytes
                       ELSE Bad]
        [] l.type = "literal" -> [type |-> "literal", text |-> bytes]
        [] OTHER              -> Sign(l.type)

\* The tokens of a text, up to the end of the stream, as either reader has them.
RECURSIVE TokensFrom(_, _, _)
TokensFrom(our, t, i) ==
  LET l == IF our THEN ourReadToken(t, i) ELSE readToken(t, i)
  IN  IF l.type = "eos" THEN <<>> ELSE <<Decoded(t, l)>> \o TokensFrom(our, t, l.at)

-----------------------------------------------------------------------------
(* Where an error is reported.                                             *)

\* start_ of the tokens, and of the end of the stream.
RECURSIVE StartsFrom(_, _, _)
StartsFrom(our, t, i) ==
  LET l == IF our THEN ourReadToken(t, i) ELSE readToken(t, i)
  IN  <<l.first>> \o IF l.type = "eos" THEN <<>> ELSE StartsFrom(our, t, l.at)

\* getLocationLineAndColumn, from position i on in a line that began at start.
RECURSIVE LineAndColumnFrom(_, _, _, _, _)
LineAndColumnFrom(t, location, i, start, line) ==
  LET c     == CharAt(t, i)
      after == IF c = 13 /\ CharAt(t, i + 1) = 10 THEN i + 2 ELSE i + 1
  IN  CASE i >= location \/ i > Len(t) ->
             [line |-> line, column |-> location - start + 1]
        [] c \in {10, 13} -> LineAndColumnFrom(t, location, after, after, line + 1)
        [] OTHER -> LineAndColumnFrom(t, location, after, start, line)

getLocationLineAndColumn(t, location) == LineAndColumnFrom(t, location, 1, 1, 1)

\* getFormattedErrorMessages of a reading that added one error at most.
getFormattedErrorMessages(our, t, r) ==
  IF r.errors = 0 THEN <<>>
  ELSE <<getLocationLineAndColumn(t, StartsFrom(our, t, 1)[r.where])>>
=============================================================================
