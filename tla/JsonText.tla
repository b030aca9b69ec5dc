------------------------------ MODULE JsonText ------------------------------
(***************************************************************************)
(* How jsoncpp.cpp writes and reads the text of a string, which is a       *)
(* sequence of bytes.                                                      *)
(***************************************************************************)
EXTENDS Integers, Sequences, FiniteSetsExt

Byte == 0 .. 255
DigitBytes == 48 .. 57

\* *current_, or 0 behind the end.
CharAt(t, i) == IF i <= Len(t) THEN t[i] ELSE 0

\* The first position from i on that is behind the end or not in S.
Beyond(t, i, S) == Min({j \in i .. Len(t) + 1 : j > Len(t) \/ t[j] \notin S})

-----------------------------------------------------------------------------
(* UTF-8.                                                                  *)

Replacement == 65533                                      \* U+FFFD

\* A byte for the last six bits of x.
Trail(x) == 128 + (x % 64)

codePointToUTF8(cp) ==
  IF cp <= 127 THEN <<cp>>
  ELSE IF cp <= 2047 THEN <<192 + cp \div 64, Trail(cp)>>
  ELSE IF cp <= 65535 THEN <<224 + cp \div 4096, Trail(cp \div 64), Trail(cp)>>
  ELSE IF cp <= 1114111
  THEN <<240 + cp \div 262144, Trail(cp \div 4096), Trail(cp \div 64), Trail(cp)>>
  ELSE <<>>

\* What the bits of the first bytes of s say.  The first byte of four loses its
\* bits to a shift by 24.
OfTwo(s)   == (s[1] % 32) * 64 + (s[2] % 64)
OfThree(s) == (s[1] % 16) * 4096 + (s[2] % 64) * 64 + (s[3] % 64)
OfFour(s)  == (s[1] % 8) * 16777216 + (s[2] % 64) * 4096 + (s[3] % 64) * 64 + (s[4] % 64)

\* A code point of n bytes, which is none when fewer would do.
Char(cp, n, low) == [cp |-> IF cp < low THEN Replacement ELSE cp, bytes |-> n]
Short == [cp |-> Replacement, bytes |-> 1]

\* The code point that s begins with and the bytes taken.  All of the range from
\* U+DFFF to U+FFFF counts as surrogates.
utf8ToCodepoint(s) ==
  IF s[1] < 128 THEN [cp |-> s[1], bytes |-> 1]
  ELSE IF s[1] < 224 THEN IF Len(s) < 2 THEN Short ELSE Char(OfTwo(s), 2, 128)
  ELSE IF s[1] < 240
  THEN IF Len(s) < 3 THEN Short
       ELSE IF OfThree(s) >= 57343 THEN [cp |-> Replacement, bytes |-> 3]
       ELSE Char(OfThree(s), 3, 2048)
  ELSE IF s[1] < 248 THEN IF Len(s) < 4 THEN Short ELSE Char(OfFour(s), 4, 65536)
  ELSE Short

-----------------------------------------------------------------------------
(* Strings between quotes.                                                 *)

Backslash == 92
Quote == 34
U == 117

Hex(d) == IF d < 10 THEN 48 + d ELSE 87 + d
toHex16Bit(x) ==
  <<Hex((x \div 4096) % 16), Hex((x \div 256) % 16), Hex((x \div 16) % 16), Hex(x % 16)>>
Unicode(x) == <<Backslash, U>> \o toHex16Bit(x)

\* The characters with an escape of one letter: ", \, \b, \t, \n, \f and \r.
Escapes ==
  [c \in {Quote, Backslash, 8, 9, 10, 12, 13} |->
     CASE c = 8  -> 98
       [] c = 9  -> 116
       [] c = 10 -> 110
       [] c = 12 -> 102
       [] c = 13 -> 114
       [] OTHER  -> c]

\* A slip: characters beyond the BMP are written without the offset.
EscapedNoOffset(cp) ==
  IF cp \in 32 .. 127 THEN <<cp>>
  ELSE IF cp < 65536 THEN Unicode(cp)
  ELSE Unicode(cp \div 1024 + 55296) \o Unicode((cp % 1024) + 56320)

Escaped(cp) ==
  IF cp \in 32 .. 127 THEN <<cp>>
  ELSE IF cp < 65536 THEN Unicode(cp)
  ELSE LET low == cp - 65536
       IN  Unicode(low \div 1024 + 55296) \o Unicode((low % 1024) + 56320)

\* What is left of s is written.
EscapedFrom[s \in Seq(Byte)] ==
  IF s = <<>> THEN <<>>
  ELSE IF s[1] \in DOMAIN Escapes
  THEN <<Backslash, Escapes[s[1]]>> \o EscapedFrom[Tail(s)]
  ELSE LET c == utf8ToCodepoint(s) IN Escaped(c.cp) \o EscapedFrom[SubSeq(s, c.bytes + 1, Len(s))]

\* valueToQuotedStringN; char is signed, so that every character needs quoting.
valueToQuotedStringN(s) == <<Quote>> \o EscapedFrom[s] \o <<Quote>>

HexDigits == (48 .. 57) \cup (97 .. 102) \cup (65 .. 70)
HexValue(c) ==
  IF c <= 57 THEN c - 48 ELSE IF c >= 97 THEN c - 87 ELSE c - 55

\* decodeUnicodeEscapeSequence: the four digits from i on, or an error (-1).
decodeUnicodeEscapeSequence(t, i) ==
  IF i + 3 > Len(t) \/ \E n \in i .. i + 3 : t[n] \notin HexDigits THEN -1
  ELSE HexValue(t[i]) * 4096 + HexValue(t[i + 1]) * 256 + HexValue(t[i + 2]) * 16 + HexValue(t[i + 3])

\* decodeUnicodeCodePoint: the code point and the next position.  The second
\* of a pair is not checked to be a low surrogate.
decodeUnicodeCodePoint(t, i) ==
  LET first  == decodeUnicodeEscapeSequence(t, i)
      second == decodeUnicodeEscapeSequence(t, i + 6)
      paired == /\ i + 9 <= Len(t) /\ t[i + 4] = Backslash /\ t[i + 5] = U
                /\ second # -1
  IN  IF first < 55296 \/ first > 56319 THEN [cp |-> first, at |-> i + 4]
      ELSE IF ~paired THEN [cp |-> -1, at |-> i]
      ELSE [cp |-> 65536 + (first % 1024) * 1024 + (second % 1024), at |-> i + 10]

\* The escapes of one letter as they are read: / has one, too.
Letters ==
  [c \in {Quote, Backslash, 47, 98, 102, 110, 114, 116} |->
     CASE c = 98  -> 8
       [] c = 102 -> 12
       [] c = 110 -> 10
       [] c = 114 -> 13
       [] c = 116 -> 9
       [] OTHER   -> c]

Bad == <<-1>>

\* What has been decoded, before what is decoded of the rest.
Prefixed(decoded, rest) == IF rest = Bad THEN Bad ELSE decoded \o rest

\* decodeString, of what is between the quotes; Bad when there is an error.
decodeString[t \in Seq(Byte)] ==
  LET From(n) == decodeString[SubSeq(t, n, Len(t))]
  IN  IF t = <<>> THEN <<>>
      ELSE IF t[1] = Quote THEN <<>>
      ELSE IF t[1] # Backslash THEN Prefixed(<<t[1]>>, From(2))
      ELSE IF Len(t) = 1 THEN Bad
      ELSE IF t[2] \in DOMAIN Letters THEN Prefixed(<<Letters[t[2]]>>, From(3))
      ELSE IF t[2] # U THEN Bad
      ELSE LET c == decodeUnicodeCodePoint(t, 3)
           IN  IF c.cp = -1 THEN Bad ELSE Prefixed(codePointToUTF8(c.cp), From(c.at))

\* The text of a string with its quotes.
Unquoted(t) == SubSeq(t, 2, Len(t) - 1)
=============================================================================
