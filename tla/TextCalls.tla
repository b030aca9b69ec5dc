------------------------------ MODULE TextCalls ------------------------------
(***************************************************************************)
(* A text that is put between quotes and read again by jsoncpp.cpp, and    *)
(* one that is encoded for a signature or for a URL.                       *)
(***************************************************************************)
EXTENDS JsonText, Encodings, SequencesExt, Calls

CONSTANTS
  CodePoints, MaxText,    \* strings: at most MaxText code points
  Bytes, MaxBytes         \* texts to encode

\* The code points that the writer knows in UTF-8: not those beyond U+3FFFF,
\* whose first byte it misreads, and from U+D800 to U+FFFF only the one that
\* stands for all that it does not know.
Known == {cp \in Nat : cp < 55296 \/ cp = Replacement \/ (65536 <= cp /\ cp < 262144)}

ASSUME TextCallsAssumption ==
  CodePoints \subseteq Known /\ MaxText \in Nat /\ Bytes \subseteq Byte /\ MaxBytes \in Nat

Utf8[text \in Seq(Known)] ==
  IF text = <<>> THEN <<>> ELSE codePointToUTF8(text[1]) \o Utf8[Tail(text)]

Quoted ==
  /\ call = NoCall
  /\ \E text \in SeqOf(CodePoints, MaxText) :
       LET q == valueToQuotedStringN(Utf8[text])
       IN  call' = [f |-> "quote", bytes |-> Utf8[text], quoted |-> q,
                    read |-> decodeString[Unquoted(q)]]

Encode ==
  /\ call = NoCall
  /\ \E s \in SeqOf(Bytes, MaxBytes) :
       call' = [f |-> "encode", s |-> s, base64 |-> base64_encode[s], url |-> UrlEncode[s],
                hex |-> b2a_hex[s], upper |-> string_toupper(s)]

TextNext == Quoted \/ Encode

TextSpec == CallInit /\ [][TextNext]_call

-----------------------------------------------------------------------------
\* Text between quotes: every string of code points that the UTF-8 reader of
\* the writer knows is read back as it was, although each character is first
\* decoded, then written as an escape, and beyond the BMP as two.
QuotedReadsBack ==
  call.f = "quote" => call.read = call.bytes

Chars == DOMAIN base64_chars
Value64(c) == IF c = 61 THEN 0 ELSE CHOOSE n \in Chars : base64_chars[n] = c

\* The bytes of a base64 text, of four characters three at most.
Decoded64[t \in Seq(Byte)] ==
  LET V(k)   == Value64(t[k])
      first  == V(1) * 4 + V(2) \div 16
      second == (V(2) % 16) * 16 + V(3) \div 4
      third  == (V(3) % 4) * 64 + V(4)
      bytes  == IF t[3] = 61 THEN <<first>> ELSE IF t[4] = 61 THEN <<first, second>>
                ELSE <<first, second, third>>
  IN  IF t = <<>> THEN <<>> ELSE bytes \o Decoded64[SubSeq(t, 5, Len(t))]

Pair(c, d) == HexValue(c) * 16 + HexValue(d)

DecodedUrl[t \in Seq(Byte)] ==
  CASE t = <<>>                 -> <<>>
    [] t # <<>> /\ t[1] = 43 -> <<32>> \o DecodedUrl[Tail(t)]
    [] t # <<>> /\ t[1] = 37 -> <<Pair(t[2], t[3])>> \o DecodedUrl[SubSeq(t, 4, Len(t))]
    [] OTHER                    -> <<t[1]>> \o DecodedUrl[Tail(t)]

DecodedHex[t \in Seq(Byte)] ==
  IF t = <<>> THEN <<>> ELSE <<Pair(t[1], t[2])>> \o DecodedHex[SubSeq(t, 3, Len(t))]

\* base64, url and hex encoding lose nothing: a decoder finds the bytes again.
\* The first makes the OKX signature, the last every other.
EncodingsReadBack ==
  call.f = "encode" =>
    /\ Decoded64[call.base64] = call.s
    /\ DecodedUrl[call.url] = call.s
    /\ DecodedHex[call.hex] = call.s
=============================================================================
