----------------------------- MODULE DecimalText ----------------------------
(***************************************************************************)
(* Decimals and texts (decimal.h): the formats, toStream and fromStream,   *)
(* and what is made of a number or a text that a decimal is constructed    *)
(* from or compared with.  A text is a sequence of characters: digits are  *)
(* 0 to 9, the others have the numbers below.                              *)
(***************************************************************************)
EXTENDS DecimalClass, SequencesExt

Digits == 0 .. 9
Minus == 10
Plus  == 11
Point == 12
Blank == 13
Comma == 14
Nul   == 15

-----------------------------------------------------------------------------
(* Formats.  grouping holds the sizes of the groups of digits from the     *)
(* right; the last is repeated.                                            *)

basic_decimal_format ==
  [point |-> Point, sep |-> Comma, thousands |-> FALSE, grouping |-> <<>>]

OfPoint(point) == [basic_decimal_format EXCEPT !.point = point]

OfSeparator(point, sep) ==
  [point |-> point, sep |-> sep, thousands |-> sep # Nul,
   grouping |-> IF sep # Nul THEN <<3>> ELSE <<>>]

OfThousands(point, sep, thousands) ==
  [point |-> point, sep |-> sep, thousands |-> thousands,
   grouping |-> IF thousands THEN <<3>> ELSE <<>>]

decimal_format(point, sep, thousands, grouping) ==
  [point |-> point, sep |-> sep, thousands |-> thousands, grouping |-> grouping]

\* facets: the numpunct facets of the stream's locale, none or one.  (Every
\* locale has one; a stream is stood for by its facet.)
format_from_stream(facets) ==
  IF facets = {} THEN basic_decimal_format
  ELSE LET facet == CHOOSE f \in facets : TRUE
       IN  decimal_format(facet.point, facet.sep, facet.grouping # <<>>, facet.grouping)

\* operator<< of an integer that is not negative: its digits, and those in the
\* groups of a facet or a format.
Written[x \in Nat] == IF x < 10 THEN <<x>> ELSE Append(Written[x \div 10], x % 10)

DigitGroups == [digits : Seq(Digits), grouping : Seq(Nat \ {0}), sep : Nat]
Grouped[g \in DigitGroups] ==
  LET sizes == g.grouping
      n == Len(g.digits) - sizes[1]
      left == [g EXCEPT !.digits = SubSeq(g.digits, 1, n),
                        !.grouping = IF Len(sizes) > 1 THEN Tail(sizes) ELSE sizes]
  IN  IF sizes = <<>> \/ n <= 0 THEN g.digits
      ELSE Grouped[left] \o <<g.sep>> \o SubSeq(g.digits, n + 1, Len(g.digits))

InGroups(x, facet) ==
  Grouped[[digits |-> Written[x], grouping |-> facet.grouping, sep |-> facet.sep]]

\* The format's groups are written with a facet made for them, others, and the
\* digits after the point, with the stream's own.
BeforePoint(x, format, stream) == InGroups(x, IF format.thousands THEN format ELSE stream)

\* n characters at least, with zeros in front (setw and setfill).
Fill(n) == [k \in 1 .. n |-> 0]
Padded(text, n) == Fill(n - Len(text)) \o text

AfterPoint(x, P, stream) == Padded(InGroups(x, stream), P)

\* A slip: the sign is that of the part before the point.
toStreamBefore(P, format, stream, v) ==
  LET u == unpack(P, v)
  IN  (IF u.before < 0 THEN <<Minus>> ELSE <<>>)
        \o BeforePoint(abs(u.before), format, stream)
        \o (IF P > 0 THEN <<format.point>> \o AfterPoint(abs(u.after), P, stream) ELSE <<>>)

toStream(P, format, stream, v) ==
  LET u == unpack(P, v)
  IN  (IF u.before < 0 \/ u.after < 0 THEN <<Minus>> ELSE <<>>)
        \o BeforePoint(abs(u.before), format, stream)
        \o (IF P > 0 THEN <<format.point>> \o AfterPoint(abs(u.after), P, stream) ELSE <<>>)

\* toString, whose stream has the classic locale.
Classic == [point |-> Point, sep |-> Comma, grouping |-> <<>>]
toString(P, v) == toStream(P, format_from_stream({Classic}), Classic, v)

-----------------------------------------------------------------------------
(* Reading.                                                                *)

\* How many characters of text from position i on are in S.
RunOf(S, text, i) ==
  CHOOSE n \in 0 .. Len(text) - i + 1 :
    /\ \A k \in i .. i + n - 1 : text[k] \in S
    /\ i + n <= Len(text) => text[i + n] \notin S

\* Before the point there is a digit, then digits and separators.
BeforeFrom(format, text, i) ==
  LET seps == IF format.thousands THEN {format.sep} \ {format.point} ELSE {}
  IN  IF i <= Len(text) /\ text[i] \in Digits THEN RunOf(Digits \cup seps, text, i) ELSE 0

\* What the digits among the characters of text make.
Amount[text \in Seq(Nat)] ==
  IF text = <<>> THEN 0
  ELSE IF Last(text) \in Digits THEN 10 * Amount[Front(text)] + Last(text)
  ELSE Amount[Front(text)]

ValueOf(text, i, n) == Amount[SubSeq(text, i, i + n - 1)]

Failure == [ok |-> FALSE, before |-> 0, after |-> 0, digits |-> 0]

\* parse_unpacked.  The number ends at the first character that does not fit;
\* with no digit before the point it is an error to end after it, unless the
\* digits there are as many as are read at all.  before and after wrap around.
parse_unpacked(format, text) ==
  LET first  == 1 + RunOf({Blank}, text, 1)
      signed == first <= Len(text) /\ text[first] \in {Minus, Plus}
      sign1  == IF signed /\ text[first] = Minus THEN -1 ELSE 1
      start  == IF signed THEN first + 1 ELSE first
      whole  == BeforeFrom(format, text, start)
      point  == start + whole
      isPoint == point <= Len(text) /\ text[point] = format.point
      all    == IF isPoint THEN RunOf(Digits, text, point + 1) ELSE 0
      part   == IF all > MaxPoints THEN MaxPoints ELSE all
  IN  IF whole = 0 /\ (~isPoint \/ part < MaxPoints) THEN Failure
      ELSE [ok |-> TRUE, digits |-> part,
            before |-> Wrapped(sign1 * ValueOf(text, start, whole)),
            after |-> Wrapped(sign1 * ValueOf(text, point + 1, part))]

\* 0 on error.
fromStream(P, policy, format, text) ==
  LET p == parse_unpacked(format, text)
  IN  IF p.digits <= P THEN pack(P, p.before, Wrapped(p.after * F(P - p.digits)))
      ELSE initWithPrec(P, policy, Wrapped(p.before * F(p.digits) + p.after), F(p.digits))

fromString(P, policy, text) == fromStream(P, policy, format_from_stream({Classic}), text)

-----------------------------------------------------------------------------
(* Construction and comparison.  An argument is an integer, a fraction n/d *)
(* (a double), a text in its parts, or m_value of a decimal of precision   *)
(* P.                                                                      *)

\* A number typed with a sign, digits, perhaps a point, and digits.
TextOf(x) == x.sign \o x.whole \o x.point \o x.fraction

Constructed(P, policy, x) ==
  CASE x.type = "int"    -> Wrapped(F(P) * x.n)
    [] x.type = "double" -> fpToStorage(P, policy, x.n, x.d)
    [] x.type = "text"   -> fromString(P, policy, TextOf(x))

decimal_cast(P, policy, x) ==
  IF x.type = "decimal" THEN initWithPrec(P, policy, x.m_value, F(x.P))
                        ELSE Constructed(P, policy, x)

\* operator= of a number.
Assigned(P, policy, x) ==
  IF x.type = "int" THEN Wrapped(F(P) * x.n) ELSE fpToStorage(P, policy, x.n, x.d)

\* operator< and ==, from which the others follow.
LessThan(P, policy, v, x) == v < Constructed(P, policy, x)
EqualTo(P, policy, v, x) == v = Constructed(P, policy, x)
=============================================================================
