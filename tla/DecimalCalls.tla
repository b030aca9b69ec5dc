---------------------------- MODULE DecimalCalls ----------------------------
(***************************************************************************)
(* Calls of the rounding policies, of multDiv and of the operations of     *)
(* decimals, which leave their arguments and their results in call.        *)
(***************************************************************************)
EXTENDS DecimalText, Calls, FiniteSets

CONSTANTS
  Numerators, Divisors,  \* arguments of the roundings, and divisors of multDiv
  Factors1, Factors2,  \* arguments of multDiv
  Prec, Prec2, Units,  \* precisions and values m_value of decimals
  Formats, Streams,    \* formats of decimals, and facets of streams
  Arguments,           \* what a decimal is constructed from
  WholeParts, Fractions   \* digits typed before and after the point

ASSUME ArgumentsAssumption ==
  Numerators \subseteq IntMin .. IntMax /\ Divisors \subseteq 1 .. IntMax

ASSUME DecimalCallsAssumption ==
  /\ Factors1 \subseteq -IntMax .. IntMax /\ Factors2 \subseteq -IntMax .. IntMax
  /\ Units \subseteq -IntMax .. IntMax
  /\ Prec \subseteq 0 .. MaxPoints /\ Prec2 \subseteq 0 .. MaxPoints

Signs == {<<>>, <<Plus>>, <<Minus>>, <<Blank>>, <<Blank, Minus>>}

\* The parts of a typed number.
IsTyped(x) ==
  /\ x.sign \in Signs /\ x.point \in {<<>>, <<Point>>}
  /\ x.whole \in Seq(Digits) /\ x.fraction \in Seq(Digits)
  /\ x.fraction # <<>> => x.point # <<>>

ASSUME TextAssumption ==
  /\ WholeParts \subseteq Seq(Digits) /\ Fractions \subseteq Seq(Digits)
  /\ \A f \in Formats : /\ f.point \in Nat /\ f.sep \in Nat /\ f.thousands \in BOOLEAN
                        /\ f.grouping \in Seq(Nat \ {0})
  /\ \A s \in Streams : s.point \in Nat /\ s.sep \in Nat /\ s.grouping \in Seq(Nat \ {0})
  /\ \A x \in Arguments :
       \/ x.type = "int" /\ x.n \in IntMin .. IntMax
       \/ x.type = "double" /\ x.n \in Int /\ x.d \in Nat \ {0}
       \/ x.type = "decimal" /\ x.m_value \in -IntMax .. IntMax /\ x.P \in 0 .. MaxPoints
       \/ x.type = "text" /\ IsTyped(x) /\ x.whole # <<>>

\* A double is a fraction of a power of two, and its whole part an int64.
ASSUME DoubleAssumption ==
  \A x \in Arguments : x.type = "double" =>
    /\ \E k \in 0 .. x.d : x.d = 2^k
    /\ abs(x.n) <= IntMax * x.d

Round ==
  /\ call = NoCall
  /\ \E p \in Policies, a \in Numerators, b \in Divisors :
       call' = [f |-> "round", policy |-> p, a |-> a, b |-> b,
                r |-> div_rounded(p, a, b), float |-> round(p, a, b)]

MultDiv ==
  /\ call = NoCall
  /\ \E a \in Factors1, b \in Factors2, d \in Divisors :
       call' = [f |-> "multDiv", a |-> a, b |-> b, d |-> d, results |-> multDiv("def", a, b, d)]

\* The operators on v of precision P and w of precision P2.
Arithmetic ==
  /\ call = NoCall
  /\ \E P \in Prec, P2 \in Prec2, v \in Units, w \in Units :
       call' = [f |-> "arithmetic", P |-> P, P2 |-> P2, v |-> v, w |-> w,
                plus |-> plus(P, "def", v, P2, w), minus |-> minus(P, "def", v, P2, w),
                times |-> times(P, "def", v, P2, w),
                divide |-> divide(P, "def", v, P2, w),
                modulo |-> modulo(P, v, P2, w),
                packed |-> LET u == unpack(P2, w)
                           IN  pack_rounded(P, "def", P2, u.before, u.after)]

Whole ==
  /\ call = NoCall
  /\ \E P \in Prec, v \in Units :
       call' = [f |-> "whole", P |-> P, v |-> v, trunc |-> trunc(P, v),
                floor |-> floor(P, v), ceil |-> ceil(P, v),
                round |-> RoundedWhole(P, "def", v), unpacked |-> unpack(P, v),
                sign |-> signOf(v), abs |-> absolute(v),
                exponent |-> getWithExponent(P, v)]

\* A number or a text x is made a decimal, and compared with the decimal v.
Construction ==
  /\ call = NoCall
  /\ \E P \in Prec, x \in Arguments, v \in Units :
       /\ x.type = "double" => IsExact(P, x.d)
       /\ call' = [f |-> "cast", P |-> P, x |-> x, v |-> v,
                cast |-> decimal_cast(P, "def", x),
                assigned |-> IF x.type \in {"int", "double"} THEN {Assigned(P, "def", x)} ELSE {},
                comparable |-> x.type # "decimal",
                less |-> x.type # "decimal" /\ LessThan(P, "def", v, x),
                equal |-> x.type # "decimal" /\ EqualTo(P, "def", v, x)]

Text ==
  /\ call = NoCall
  /\ \E P \in Prec, v \in Units, stream \in Streams :
     \E format \in Formats \cup {format_from_stream({stream})} :
       LET text == toStream(P, format, stream, v)
       IN  call' = [f |-> "text", P |-> P, v |-> v, format |-> format, stream |-> stream,
                    text |-> text,
                    read |-> fromStream(P, "def", format, text),
                    plain |-> fromString(P, "def", toString(P, v))]

Typed ==
  /\ call = NoCall
  /\ \E P \in Prec, sign \in Signs, whole \in WholeParts, point \in {<<>>, <<Point>>},
        fraction \in Fractions :
       LET x == [sign |-> sign, whole |-> whole, point |-> point, fraction |-> fraction]
       IN  /\ IsTyped(x) /\ whole \o fraction # <<>>
           /\ call' = [f |-> "typed", P |-> P, x |-> x,
                       ok |-> parse_unpacked(basic_decimal_format, TextOf(x)).ok,
                       read |-> fromString(P, "def", TextOf(x))]

DecimalNext == Round \/ MultDiv \/ Arithmetic \/ Whole \/ Construction \/ Text \/ Typed

DecimalSpec == CallInit /\ [][DecimalNext]_call

-----------------------------------------------------------------------------
\* q is a/b rounded, b > 0: nearer than any other or, for the policies that
\* have a direction, the next one there.
Rounded(policy, q, a, b) ==
  LET diff == q * b - a
      nearest == 2 * abs(diff) <= b
      tie == 2 * abs(diff) = b
  IN  /\ abs(diff) < b
      /\ CASE policy = "null"      -> abs(q * b) <= abs(a)
           [] policy = "round_up"  -> abs(q * b) >= abs(a)
           [] policy = "ceiling"   -> diff >= 0
           [] policy = "floor"     -> diff <= 0
           [] policy = "def"       -> nearest /\ (tie => abs(q * b) > abs(a))
           [] policy = "half_up"   -> nearest /\ (tie => diff > 0)
           [] policy = "half_down" -> nearest /\ (tie => diff < 0)
           [] policy = "half_even" -> nearest /\ (tie => q % 2 = 0)

\* Each rounding policy rounds as its name says, both where it divides
\* integers and where it is given a floating point number, as long as there is
\* room for a divisor more below and above.  (half_even only by an even
\* divisor: of an odd one it takes less than a half for a half.)
PoliciesRound ==
  call.f = "round" =>
    /\ Rounded(call.policy, call.float, call.a, call.b)
    /\ (Room(call.a, call.b) /\ (call.policy # "half_even" \/ call.b % 2 = 0 \/ call.b = 1)) =>
         call.r.ok /\ Rounded(call.policy, call.r.output, call.a, call.b)
\* Where the last product of multDiv is too near the limit to be rounded: the
\* fraction is then lost.
NearLimit(a, b, d) ==
  LET x == Rem(a, d)
      y == Rem(b, d)
      r == Reduced(x, y, d)
  IN  IF ~isMultOverflow(x, y) THEN ~Room(x * y, abs(d))
      ELSE ~isMultOverflow(r.x, r.y) /\ ~Room(r.x * r.y, abs(r.d))

\* n/d is within the limits, with room for two units more.
Fits(n, d) == abs(n) <= (IntMax - 2) * abs(d)

\* x is within half a unit of n/d.
Nearest(x, n, d) == 2 * abs(x * d - n) <= abs(d)

\* results are those of a product a * b divided by d, if that fits: the nearest
\* integer, of two the one away from 0, and where floating point is used less
\* than two off.
Quotient(results, a, b, d) ==
  Fits(a * b, d) /\ ~NearLimit(a, b, d) =>
    \A q \in results :
      IF Cardinality(results) = 1 THEN Rounded("def", IF d < 0 THEN -q ELSE q, a * b, abs(d))
                                  ELSE abs(q * d - a * b) < 2 * abs(d)

\* multDiv gives the rounded quotient of a product that may itself overflow, and
\* with it the operators on decimals, of one precision or of two, give the
\* decimal nearest to the exact result, as long as that fits int64 and there is
\* room for a unit more; the remainder is off by less than a unit and has the sign
\* of the dividend, as long as each operand fits the other's precision too, into
\* which it is brought.
ArithmeticRounds ==
  /\ call.f = "multDiv" => Quotient(call.results, call.a, call.b, call.d)
  /\ call.f = "arithmetic" =>
       LET P == call.P  P2 == call.P2  v == call.v  w == call.w
           left == v * F(P2)      \* both in units of 10^-(P + P2)
           right == w * F(P)
       IN  /\ Room(w, F(P2)) =>
                /\ Fits(left + right, F(P2)) => Nearest(call.plus, left + right, F(P2))
                /\ Fits(left - right, F(P2)) => Nearest(call.minus, left - right, F(P2))
                /\ Fits(right, F(P2)) => Nearest(call.packed, right, F(P2))
           /\ Quotient(call.times, v, w, F(P2))
           /\ w # 0 => Quotient(call.divide, v, F(P2), w)
           /\ w # 0 /\ Fits(left, F(P)) /\ Fits(right, F(P2)) =>
                /\ call.modulo # {}
                /\ \A m \in call.modulo : /\ abs(m * F(P2) - Rem(left, right)) < F(P2)
                                          /\ m * v >= 0

\* trunc, floor, ceil and round of a decimal are whole numbers around it, and
\* its parts, its sign and amount, and its mantissa and exponent make it up
\* again.  (floor, ceil and round, as long as there is room for one more.)
WholeAround ==
  call.f = "whole" =>
    LET v == call.v  one == F(call.P)
    IN  /\ Rem(call.trunc, one) = 0 /\ abs(call.trunc - v) < one /\ abs(call.trunc) <= abs(v)
        /\ Room(v, one) =>
             /\ \A x \in {call.floor, call.ceil} : Rem(x, one) = 0 /\ abs(x - v) < one
             /\ call.floor <= v /\ v <= call.ceil
             /\ Rem(call.round, one) = 0 /\ 2 * abs(call.round - v) <= one
        /\ call.abs = call.sign * v
        /\ pack(call.P, call.unpacked.before, call.unpacked.after) = v
        /\ HasExponent(call.P, call.exponent.exponent) =>
             setWithExponent(call.P, "def", call.exponent.mantissa, call.exponent.exponent) = v

\* What a typed number means, in units of its last digit, and what any argument
\* of a constructor means, as the fraction n/d.
Meant(x) == IF Last(<<Plus>> \o x.sign) = Minus THEN -Amount[x.whole \o x.fraction]
                                             ELSE Amount[x.whole \o x.fraction]
Meaning(x) ==
  CASE x.type = "int"     -> [n |-> x.n, d |-> 1]
    [] x.type = "double"  -> [n |-> x.n, d |-> x.d]
    [] x.type = "text"    -> [n |-> Meant(x), d |-> F(Len(x.fraction))]
    [] x.type = "decimal" -> [n |-> x.m_value, d |-> F(x.P)]

\* n units of 10^-k can be rounded to P digits after the point.
CanRound(P, n, k) == k > P => Room(n, F(k - P))

\* No more digits follow the point than are read, the decimal is within the limits,
\* and there is room to round.
Typable(P, x) ==
  /\ Len(x.fraction) <= MaxPoints /\ CanRound(P, Meant(x), Len(x.fraction))
  /\ Fits(Meant(x) * F(P), F(Len(x.fraction)))
Constructible(P, x) ==
  /\ Fits(Meaning(x).n * F(P), Meaning(x).d)
  /\ x.type = "text" => Typable(P, x)
  /\ x.type = "decimal" => CanRound(P, x.m_value, x.P)

\* What was read of a typed number is the decimal nearest to it.
TypedIs(c) ==
  c.ok /\ (Typable(c.P, c.x) => Nearest(c.read, Meant(c.x) * F(c.P), F(Len(c.x.fraction))))

\* A decimal made of a number, of a text or of another precision is the nearest
\* one as long as it is within the limits, so that comparing it with a number may
\* then find them equal when they are not, but never puts them the wrong way.
ConstructedIs(c) ==
  LET n == Meaning(c.x).n * F(c.P)   \* in units of 1/d
      d == Meaning(c.x).d
  IN  Constructible(c.P, c.x) =>
        /\ Nearest(c.cast, n, d) /\ c.assigned \subseteq {c.cast}
        /\ c.less => c.v * d < n
        /\ c.comparable /\ ~c.less /\ ~c.equal => c.v * d > n

\* The reader can tell the point and the separators of a format from digits and
\* from each other.
Readable(format) ==
  /\ format.point \notin Digits
  /\ (format.thousands /\ format.grouping # <<>>) =>
       format.sep \notin Digits /\ format.sep # format.point

\* The stream's own groups appear in no digits: it has none, or the format has
\* others for those before the point and there are too few after it.
Ungrouped(P, format, stream) ==
  stream.grouping = <<>> \/ (format.thousands /\ P <= stream.grouping[1])

\* A decimal that is written is read back in the same format, with another
\* point or with its digits in groups, but for the groups that the stream's
\* locale makes of the digits after the point; and of a number typed with more
\* digits than the precision the nearest decimal is read, if it is within the
\* limits.  The number begins with a digit.  So it is with what else a decimal is
\* made of.
DecimalReadsBack ==
  /\ call.f = "cast" => ConstructedIs(call)
  /\ call.f = "text" =>
       /\ Readable(call.format) /\ Ungrouped(call.P, call.format, call.stream) =>
            call.read = call.v
       /\ call.plain = call.v
  /\ (call.f = "typed" /\ call.x.whole # <<>>) => TypedIs(call)

\* The comment of fromStream lists .123 and -.123 among the formats that are
\* handled (decimal.h:1858); the code refuses a number without a digit before
\* its point.
ReadsListedFormats ==
  call.f = "typed" => TypedIs(call)
=============================================================================
