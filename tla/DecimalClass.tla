----------------------------- MODULE DecimalClass ---------------------------
(***************************************************************************)
(* The operations of decimal<P, policy> (decimal.h) on m_value, with the   *)
(* configured DEC_TYPE_LEVEL of 2: operands of another precision P2 are    *)
(* converted.  m_value is never IntMin, of which there is no amount.       *)
(***************************************************************************)
EXTENDS Decimal

CONSTANT DoubleMax  \* the integers up to which are all doubles, 2^53

F(P) == DecimalFactor[P]

\* The operand of + and -.
Converted(P, policy, P2, v) ==
  IF P2 > P THEN div_rounded(policy, v, F(P2 - P)).output ELSE Wrapped(v * F(P - P2))

plus(P, policy, v, P2, w)   == Wrapped(v + Converted(P, policy, P2, w))
minus(P, policy, v, P2, w)  == Wrapped(v - Converted(P, policy, P2, w))
times(P, policy, v, P2, w)  == multDiv(policy, v, w, F(P2))
\* A slip: the factor of the result's precision instead of the divisor's.
divideOwn(P, policy, v, P2, w) == multDiv(policy, v, F(P), w)
divide(P, policy, v, P2, w) == multDiv(policy, v, F(P2), w)

\* a / b and a % b raise a signal.
Traps(a, b) == b = 0 \/ (a = IntMin /\ b = -1)

\* The set of its results, of which there is none where it traps.
modulo(P, v, P2, w) ==
  IF P2 > P
  THEN LET thisInRhsPrec == Wrapped(v * F(P2 - P))
       IN  IF Traps(thisInRhsPrec, w) THEN {} ELSE {Quot(Rem(thisInRhsPrec, w), F(P2 - P))}
  ELSE LET rhsInThisPrec == Wrapped(w * F(P - P2))
       IN  IF Traps(v, rhsInThisPrec) THEN {} ELSE {Rem(v, rhsInThisPrec)}

trunc(P, v) == v - Rem(v, F(P))
\* A slip: towards 0.
floorDown(P, v) == trunc(P, v)
floor(P, v) == IF Rem(v, F(P)) < 0 THEN Wrapped(trunc(P, v) - F(P)) ELSE trunc(P, v)
ceil(P, v)  == IF Rem(v, F(P)) > 0 THEN Wrapped(trunc(P, v) + F(P)) ELSE trunc(P, v)
getAsInteger(P, policy, v) == div_rounded(policy, v, F(P)).output
setAsInteger(P, i) == Wrapped(F(P) * i)
RoundedWhole(P, policy, v) == setAsInteger(P, getAsInteger(P, policy, v))

signOf(v) == IF v > 0 THEN 1 ELSE IF v < 0 THEN -1 ELSE 0
absolute(v) == IF v >= 0 THEN v ELSE 0 - v

unpack(P, v) == [before |-> Quot(trunc(P, v), F(P)), after |-> Rem(v, F(P))]
pack(P, before, after) ==
  Wrapped(before * F(P) + (IF P > 0 THEN Rem(after, F(P)) ELSE 0))

\* decimal(value, precFactor), and so decimal_cast of another precision.
initWithPrec(P, policy, value, precFactor) ==
  IF F(P) >= precFactor THEN Wrapped(value * Quot(F(P), precFactor))
  ELSE div_rounded(policy, value, Quot(precFactor, F(P))).output

\* Parts of precision P2, rounded.
pack_rounded(P, policy, P2, before, after) ==
  initWithPrec(P, policy, pack(P2, before, after), F(P2))

\* decimal(double), for the fraction n/d: IsExact says that no bit of it is lost
\* when its part after the point is multiplied and rounded.
IsExact(P, d) == 2 * F(P) * d <= DoubleMax
fpToStorage(P, policy, n, d) ==
  Wrapped(round(policy, F(P) * Rem(n, d), d) + F(P) * Quot(n, d))

\* An exponent within the table of pow10.
HasExponent(P, exponent) == abs(exponent + P) <= MaxPoints
setWithExponent(P, policy, mantissa, exponent) ==
  LET e == exponent + P
  IN  IF e < 0 THEN div_rounded(policy, mantissa, pow10(-e)).output
               ELSE Wrapped(mantissa * pow10(e))

\* The zeros at the end of v, which the loop of getWithExponent takes off.
Zeros(v) ==
  IF v = 0 THEN 0 ELSE CHOOSE n \in 0 .. abs(v) : Rem(v, F(n)) = 0 /\ Rem(v, F(n + 1)) # 0
getWithExponent(P, v) == [mantissa |-> Quot(v, F(Zeros(v))), exponent |-> Zeros(v) - P]
=============================================================================
