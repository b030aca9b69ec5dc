----------------------------- MODULE JsonNumber ------------------------------
(***************************************************************************)
(* How jsoncpp.cpp writes and reads the text of an integer: a sign and a   *)
(* sequence of digits.                                                     *)
(***************************************************************************)
EXTENDS Integers, Sequences, SequencesExt

\* uintToString
uintToString[value \in Nat] ==
  IF value < 10 THEN <<value>> ELSE Append(uintToString[value \div 10], value % 10)

\* valueToString of an integer.
valueToString(value) ==
  [neg |-> value < 0, digits |-> uintToString[IF value < 0 THEN -value ELSE value]]

\* What the loop of decodeNumber makes of digits that all fit.
Value[digits \in Seq(0 .. 9)] ==
  IF digits = <<>> THEN 0 ELSE 10 * Value[Front(digits)] + Last(digits)

\* The value of the digits before digits[i].
Before(digits, i) == Value[SubSeq(digits, 1, i - 1)]

\* A slip: the last digit is not looked at.
decodeDigitsOver(max, digits) ==
  IF \A i \in 1 .. Len(digits) : Before(digits, i) <= max \div 10
  THEN [double |-> FALSE, value |-> Value[digits]] ELSE [double |-> TRUE, value |-> 0]

\* The loop: the integer of digits, or "double" at the first that makes it
\* exceed max.
decodeDigits(max, digits) ==
  LET threshold == max \div 10
      fits(i) == \/ Before(digits, i) < threshold
                 \/ Before(digits, i) = threshold /\ i = Len(digits) /\ digits[i] <= max % 10
  IN  IF \A i \in 1 .. Len(digits) : fits(i)
      THEN [double |-> FALSE, value |-> Value[digits]] ELSE [double |-> TRUE, value |-> 0]
=============================================================================
