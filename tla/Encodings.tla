------------------------------ MODULE Encodings -----------------------------
(***************************************************************************)
(* The encodings of utils.h and binacpp_utils.cpp that signatures and      *)
(* query strings go through.  Texts are sequences of bytes.                *)
(***************************************************************************)
EXTENDS Integers, Sequences

Upper == 65 .. 90
Lower == 97 .. 122
Digit == 48 .. 57

base64_chars ==
  [n \in 0 .. 63 |-> CASE n < 26 -> 65 + n
                       [] n \in 26 .. 51 -> 71 + n
                       [] n \in 52 .. 61 -> n - 4
                       [] n = 62 -> 43
                       [] n = 63 -> 47]

\* The four 6-bit groups of three bytes.
Groups(a, b, c) ==
  <<a \div 4, (a % 4) * 16 + b \div 16, (b % 16) * 4 + c \div 64, c % 64>>

\* The bytes in threes; what is left is filled with 0 and the groups that
\* hold nothing are replaced by '='.
base64_encode[bytes \in Seq(0 .. 255)] ==
  LET n == Len(bytes)
      At(i) == IF i <= n THEN bytes[i] ELSE 0
      groups == Groups(At(1), At(2), At(3))
      text == [k \in 1 .. 4 |-> IF k <= n + 1 THEN base64_chars[groups[k]] ELSE 61]
  IN  IF n = 0 THEN <<>>
      ELSE text \o (IF n > 3 THEN base64_encode[SubSeq(bytes, 4, n)] ELSE <<>>)

ToHex(x) == IF x > 9 THEN x + 55 ELSE x + 48

\* A slip: + is taken for one of the characters that stay.
UrlEncodedPlus(c) ==
  CASE c \in Upper \cup Lower \cup Digit \cup {43, 45, 95, 46, 126} -> <<c>>
    [] c = 32 -> <<43>>
    [] OTHER  -> <<37, ToHex(c \div 16), ToHex(c % 16)>>

\* Letters, digits and - _ . ~ stay, a blank is +.
UrlEncoded(c) ==
  CASE c \in Upper \cup Lower \cup Digit \cup {45, 95, 46, 126} -> <<c>>
    [] c = 32 -> <<43>>
    [] OTHER  -> <<37, ToHex(c \div 16), ToHex(c % 16)>>

UrlEncode[str \in Seq(0 .. 255)] ==
  IF str = <<>> THEN <<>> ELSE UrlEncoded(str[1]) \o UrlEncode[Tail(str)]

HexCode(x) == IF x < 10 THEN 48 + x ELSE 87 + x
b2a_hex[bytes \in Seq(0 .. 255)] ==
  IF bytes = <<>> THEN <<>>
  ELSE <<HexCode(bytes[1] \div 16), HexCode(bytes[1] % 16)>> \o b2a_hex[Tail(bytes)]

string_toupper(str) ==
  [i \in 1 .. Len(str) |-> IF str[i] \in Lower THEN str[i] - 32 ELSE str[i]]
=============================================================================
