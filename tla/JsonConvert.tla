---------------------------- MODULE JsonConvert -----------------------------
(***************************************************************************)
(* The numbers of a Json::Value (jsoncpp.cpp): what a number's text is     *)
(* decoded to, and what asInt and its like make of a value.  Int and UInt  *)
(* have Narrow bits (32 in the code), Int64 and UInt64 Wide ones, and a    *)
(* double's mantissa has Mantissa.  A double is counted in halves, so that *)
(* some are no integers.                                                   *)
(*                                                                         *)
(* A conversion is the set of its possible results: empty when it throws,  *)
(* and every value of the type where C++ leaves the result open.           *)
(***************************************************************************)
EXTENDS JsonNumber

CONSTANTS Narrow, Wide, Mantissa

\* A double holds every Int and UInt.
ASSUME WidthAssumption ==
  /\ Narrow \in Nat \ {0} /\ Wide \in Nat /\ Mantissa \in Nat
  /\ Narrow < Wide /\ Narrow <= Mantissa

\* 2^n
Two[n \in Nat] == IF n = 0 THEN 1 ELSE 2 * Two[n - 1]

MinInt(w)  == -Two[w - 1]
MaxInt(w)  == Two[w - 1] - 1
MaxUInt(w) == Two[w] - 1

\* The multiple of step next to x >= 0, of two the even one.
RoundTo(x, step) ==
  LET q == x \div step  r == x % step
  IN  step * (IF 2 * r > step \/ (2 * r = step /\ q % 2 = 1) THEN q + 1 ELSE q)

\* The double nearest to x halves.
Double(x) ==
  LET a == IF x < 0 THEN -x ELSE x
      n == CHOOSE k \in 0 .. 2 * Wide : (\A j \in 0 .. k - 1 : a >= Two[Mantissa + j])
                                          /\ a < Two[Mantissa + k]
  IN  IF x < 0 THEN -RoundTo(a, Two[n]) ELSE RoundTo(a, Two[n])

IsIntegral(x) == x % 2 = 0
Truncated(x) == IF x < 0 THEN -((-x) \div 2) ELSE x \div 2

InRange(x, min, max) == Double(2 * min) <= x /\ x <= Double(2 * max)

-----------------------------------------------------------------------------
(* What a value is.  n is its number, in halves for "real", 0 or 1 for     *)
(* "boolean", and the number of bytes or elements of the other types.      *)

isInt(v) ==
  CASE v.type = "int"  -> v.n \in MinInt(Narrow) .. MaxInt(Narrow)
    [] v.type = "uint" -> v.n <= MaxInt(Narrow)
    [] v.type = "real" -> InRange(v.n, MinInt(Narrow), MaxInt(Narrow)) /\ IsIntegral(v.n)
    [] OTHER           -> FALSE

isUInt(v) ==
  CASE v.type = "int"  -> v.n >= 0 /\ v.n <= MaxUInt(Narrow)
    [] v.type = "uint" -> v.n <= MaxUInt(Narrow)
    [] v.type = "real" -> InRange(v.n, 0, MaxUInt(Narrow)) /\ IsIntegral(v.n)
    [] OTHER           -> FALSE

\* A slip: the limit itself, which a double rounds up, is let through.
isInt64AtLimit(v) ==
  CASE v.type = "int"  -> TRUE
    [] v.type = "uint" -> v.n <= MaxInt(Wide)
    [] v.type = "real" -> InRange(v.n, MinInt(Wide), MaxInt(Wide)) /\ IsIntegral(v.n)
    [] OTHER           -> FALSE

isInt64(v) ==
  CASE v.type = "int"  -> TRUE
    [] v.type = "uint" -> v.n <= MaxInt(Wide)
    [] v.type = "real" -> /\ v.n >= Double(2 * MinInt(Wide)) /\ v.n < Double(2 * MaxInt(Wide))
                          /\ IsIntegral(v.n)
    [] OTHER           -> FALSE

isUInt64(v) ==
  CASE v.type = "int"  -> v.n >= 0
    [] v.type = "uint" -> TRUE
    [] v.type = "real" -> v.n >= 0 /\ v.n < Double(2 * MaxUInt(Wide)) /\ IsIntegral(v.n)
    [] OTHER           -> FALSE

isIntegral(v) ==
  \/ v.type \in {"int", "uint"}
  \/ /\ v.type = "real" /\ IsIntegral(v.n)
     /\ v.n >= Double(2 * MinInt(Wide)) /\ v.n < Double(2 * MaxUInt(Wide))

isNumeric(v) == v.type \in {"int", "uint", "real"}

-----------------------------------------------------------------------------
(* What a value is converted to.                                           *)

Throws == {}

\* The cast of n to the type from min to max.
Cast(n, min, max) == ((n - min) % (max - min + 1)) + min

\* A double cast to that type: undefined where it does not fit.
CastReal(x, min, max) ==
  IF Truncated(x) \in min .. max THEN {Truncated(x)} ELSE min .. max

\* The shape of the four conversions: an integer is asserted to fit.
Convert(v, fits, min, max) ==
  CASE v.type \in {"int", "uint"} -> IF fits THEN {Cast(v.n, min, max)} ELSE Throws
    [] v.type = "real"            -> IF InRange(v.n, min, max) THEN CastReal(v.n, min, max)
                                                               ELSE Throws
    [] v.type = "null"            -> {0}
    [] v.type = "boolean"         -> {v.n}
    [] OTHER                      -> Throws

asInt(v)    == Convert(v, isInt(v), MinInt(Narrow), MaxInt(Narrow))
asUInt(v)   == Convert(v, isUInt(v), 0, MaxUInt(Narrow))
asInt64(v)  == Convert(v, v.type = "int" \/ isInt64(v), MinInt(Wide), MaxInt(Wide))
asUInt64(v) == Convert(v, v.type = "uint" \/ isUInt64(v), 0, MaxUInt(Wide))

\* asDouble, in halves.
asDouble(v) ==
  CASE v.type \in {"int", "uint"}     -> {Double(2 * v.n)}
    [] v.type = "real"                -> {v.n}
    [] v.type \in {"null", "boolean"} -> {2 * v.n}
    [] OTHER                          -> Throws

asBool(v) == IF isNumeric(v) \/ v.type \in {"null", "boolean"} THEN {v.n # 0} ELSE Throws

\* asString: which value's text it is.
asString(v) == IF v.type \in {"array", "object"} THEN Throws ELSE {v}

isConvertibleTo(v, type) ==
  CASE type = "null"    -> v.n = 0
    [] type = "int"     -> \/ isInt(v) \/ v.type \in {"boolean", "null"}
                           \/ v.type = "real" /\ InRange(v.n, MinInt(Narrow), MaxInt(Narrow))
    [] type = "uint"    -> \/ isUInt(v) \/ v.type \in {"boolean", "null"}
                           \/ v.type = "real" /\ InRange(v.n, 0, MaxUInt(Narrow))
    [] type \in {"real", "boolean"} -> isNumeric(v) \/ v.type \in {"boolean", "null"}
    [] type = "string"  -> isNumeric(v) \/ v.type \in {"boolean", "null", "string"}
    [] OTHER            -> v.type \in {type, "null"}

-----------------------------------------------------------------------------
(* What a number's text is decoded to.                                     *)

\* A LargestInt negated.  OurReader negates minLargestInt, too, which C++
\* leaves open and two's complement leaves as it is; Reader goes round it.
Negated(n) == Cast(-n, MinInt(Wide), MaxInt(Wide))

\* decodeNumber of a text of digits: an integer, or the nearest double when
\* that would not fit.  A lone sign is 0.
decodeNumber(text) ==
  LET max == IF text.neg THEN Cast(Negated(MinInt(Wide)), 0, MaxUInt(Wide))
                         ELSE MaxUInt(Wide)
      d   == decodeDigits(max, text.digits)
      all == Value[text.digits]
  IN  IF d.double THEN [type |-> "real", n |-> Double(2 * IF text.neg THEN -all ELSE all)]
      ELSE IF text.neg
      THEN [type |-> "int", n |-> Negated(Cast(d.value, MinInt(Wide), MaxInt(Wide)))]
      ELSE [type |-> IF d.value <= MaxInt(Narrow) THEN "int" ELSE "uint", n |-> d.value]
=============================================================================
