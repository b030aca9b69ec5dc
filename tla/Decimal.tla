------------------------------- MODULE Decimal ------------------------------
(***************************************************************************)
(* dec::decimal (decimal.h): fixed point numbers in one integer, counted   *)
(* in units of 10^-Prec, and how they are multiplied.  Prices and sizes of *)
(* orders are written with decimal<4>.                                     *)
(***************************************************************************)
EXTENDS Rounding

CONSTANT MaxPoints  \* max_decimal_points

\* DecimalFactor<n>::value and pow10(n), the latter with a limit.
DecimalFactor[n \in Nat] == IF n = 0 THEN 1 ELSE 10 * DecimalFactor[n - 1]

ASSUME DecimalAssumption == MaxPoints \in Nat /\ DecimalFactor[MaxPoints] <= IntMax

pow10(n) == IF n \in 0 .. MaxPoints THEN DecimalFactor[n] ELSE 0

-----------------------------------------------------------------------------
(* dec_utils: (value1 * value2) / divisor.                                 *)

isMultOverflow(x, y) ==
  /\ x # 0 /\ y # 0
  /\ CASE x = IntMin /\ y > 0  -> y > 1
       [] x = IntMin /\ y < 0  -> y < -1
       [] y = IntMin /\ x # IntMin -> IF x > 0 THEN x > 1 ELSE x < -1
       [] OTHER -> abs(x) > IntMax \div abs(y)

\* The loop of gcd, on its variables a and b.
Euclid[p \in Int \X Int] == IF p[1] = 0 THEN p[2] ELSE Euclid[<<Rem(p[2], p[1]), p[1]>>]
gcd(a, b) == Euclid[<<a, b>>]

\* What floating point makes of n/d, exact to within one.
Approximately(policy, n, d) ==
  {(IF d < 0 THEN round(policy, -n, -d) ELSE round(policy, n, d)) + e : e \in {-1, 0, 1}}

\* The remainders x and y and the divisor d without the factors they share.
Reduced(x, y, d) ==
  LET c1 == gcd(x, d)
      c2 == gcd(y, Quot(d, c1))
  IN  [x |-> Quot(x, c1), y |-> Quot(y, c2), d |-> Quot(Quot(d, c1), c2)]

\* The rest of the product, with remainders x and y: x * y / d is to be added to
\* result.  A policy that finds no room adds nothing; if the product of the
\* reduced remainders overflows, floating point takes its place.
AddFraction(policy, result, x, y, d) ==
  LET r == Reduced(x, y, d)
      whole == div_rounded(policy, x * y, d)
      reduced == div_rounded(policy, r.x * r.y, r.d)
  IN  IF ~isMultOverflow(x, y) THEN {result + whole.output}
      ELSE IF ~isMultOverflow(r.x, r.y) /\ reduced.ok THEN {result + reduced.output}
      ELSE {result + z : z \in Approximately(policy, r.x * r.y, r.d)}

\* multDiv without the limits of int64.
Product(policy, value1, value2, divisor) ==
  LET x == Rem(value1, divisor)
      y == Rem(value2, divisor)
      result == value1 * Quot(value2, divisor) + Quot(value1, divisor) * y
  IN  IF x = 0 \/ y = 0 THEN {result} ELSE AddFraction(policy, result, x, y, divisor)

\* multDiv: the set of its possible results; of none where it divides by 0.  Its
\* sums and products wrap around, which comes to the same at their end; the
\* product of the remainders is made only where it fits.
multDiv(policy, value1, value2, divisor) ==
  IF divisor = 0 THEN {}
  ELSE {Wrapped(q) : q \in Product(policy, value1, value2, divisor)}
=============================================================================
