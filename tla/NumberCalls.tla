----------------------------- MODULE NumberCalls -----------------------------
(***************************************************************************)
(* An integer that is written and read again, and the conversions of a     *)
(* Json::Value that is no array and no object.                             *)
(***************************************************************************)
EXTENDS JsonConvert, Calls

CONSTANTS
  Numbers,    \* integers to write and read
  Scalars1    \* Values to convert

\* The Values that a Json::Value can be.
ScalarOf(v) ==
  /\ v.n \in Int
  /\ CASE v.type = "int"     -> v.n \in MinInt(Wide) .. MaxInt(Wide)
       [] v.type = "uint"    -> v.n \in 0 .. MaxUInt(Wide)
       [] v.type = "null"    -> v.n = 0
       [] v.type = "boolean" -> v.n \in {0, 1}
       [] OTHER -> v.type \in {"real", "string", "array", "object"}

\* The numbers are well within the range of a double.
ASSUME NumberCallsAssumption ==
  /\ \A n \in Numbers : n \in Int /\ -Two[2 * Wide] < n /\ n < Two[2 * Wide]
  /\ \A v \in Scalars1 : ScalarOf(v)

Number ==
  /\ call = NoCall
  /\ \E n \in Numbers :
       call' = [f |-> "number", n |-> n, v |-> decodeNumber(valueToString(n))]

Conversion ==
  /\ call = NoCall
  /\ \E v \in Scalars1 : call' = [f |-> "convert", v |-> v]

NumberNext == Number \/ Conversion

NumberSpec == CallInit /\ [][NumberNext]_call

-----------------------------------------------------------------------------
Or(results, n, fits) == results = IF fits THEN {n} ELSE Throws

\* An integer's digits are read back as that integer wherever it fits the
\* widest type, and are then refused in any type it does not fit.  Beyond the
\* widest type they are read as the nearest floating point number, which no
\* conversion takes for another integer, but for two: a number just below the
\* least Int64 is given as that least one, and one so little above the largest
\* UInt64 that its double is that of the largest is cast, with no defined
\* result.  Order and update ids are read in this way.
NumberReadsBack ==
  call.f = "number" =>
    LET n == call.n  v == call.v
        Fits(w) == n \in MinInt(w) .. MaxInt(w)
        FitsU(w) == n \in 0 .. MaxUInt(w)
    IN  IF Fits(Wide) \/ FitsU(Wide)
        THEN /\ Or(asInt(v), n, Fits(Narrow)) /\ Or(asUInt(v), n, FitsU(Narrow))
             /\ Or(asInt64(v), n, Fits(Wide)) /\ Or(asUInt64(v), n, FitsU(Wide))
        ELSE /\ v = [type |-> "real", n |-> Double(2 * n)]
             /\ asInt(v) = Throws /\ asUInt(v) = Throws
             /\ Or(asInt64(v), MinInt(Wide), v.n = Double(2 * MinInt(Wide)))
             /\ v.n # Double(2 * MaxUInt(Wide)) => asUInt64(v) = Throws

\* Reals at the very limit of the wide types: the limit is rounded up to a
\* double that does not fit, passes the test of asInt64 or asUInt64 and is cast.
AtLimit(v) == v.type = "real" /\ v.n \in {Double(2 * MaxInt(Wide)), Double(2 * MaxUInt(Wide))}

\* What isInt and its like promise: the conversion then does not throw and gives
\* the value itself; every conversion gives the value without its fraction or
\* throws; and it does not throw exactly where isConvertibleTo says so.
ConvertsExactly ==
  call.f = "convert" =>
    LET v == call.v
        exact == IF v.type = "real" THEN Truncated(v.n) ELSE v.n
        Holds(is, results) == is => /\ results = {exact}
                                    /\ v.type = "real" => v.n = 2 * exact
        Exactly(results) == results \in {Throws, {exact}}
    IN  /\ Holds(isInt(v), asInt(v)) /\ Holds(isUInt(v), asUInt(v))
        /\ Holds(isInt64(v), asInt64(v)) /\ Holds(isUInt64(v), asUInt64(v))
        /\ Exactly(asInt(v)) /\ Exactly(asUInt(v))
        /\ AtLimit(v) \/ (Exactly(asInt64(v)) /\ Exactly(asUInt64(v)))
        /\ isIntegral(v) <=> (isInt64(v) \/ isUInt64(v))
        /\ isInt(v) => isInt64(v)
        /\ isUInt(v) => isUInt64(v)
        /\ isConvertibleTo(v, "int") <=> asInt(v) # Throws
        /\ isConvertibleTo(v, "uint") <=> asUInt(v) # Throws
        /\ isConvertibleTo(v, "real") <=> asDouble(v) # Throws
        /\ isConvertibleTo(v, "boolean") <=> asBool(v) # Throws
        /\ isConvertibleTo(v, "string") <=> asString(v) # Throws
        /\ (isConvertibleTo(v, "null") /\ asBool(v) # Throws) => asBool(v) = {FALSE}
=============================================================================
