---------------------------- MODULE Decimal_proof ---------------------------
(***************************************************************************)
(* Proofs about decimal.h, whatever the width of its integers, the         *)
(* precision and the arguments: every rounding policy rounds as it should, *)
(* the sums, products, quotients and remainders are as near to the exact   *)
(* ones as multDiv promises, the whole numbers around a value are the ones *)
(* that they are meant to be, and what is written is read back.            *)
(***************************************************************************)
EXTENDS DecimalCalls, WellFoundedInduction, FiniteSetTheorems, SequenceTheorems, TLAPS

-----------------------------------------------------------------------------
(* Induction.                                                              *)

\* Every set of natural numbers has a least: what induction rests on.
LEMMA LeastNatural ==
  ASSUME NEW T, T \subseteq Nat, T # {}
  PROVE  \E x \in T : \A y \in T : ~(y < x)
<1>1. \E x \in T : \A y \in T : ~(<<y, x>> \in OpToRel(<, Nat))
  BY NatLessThanWellFounded, WFMin
<1>2. \A x, y \in Nat : y < x => <<y, x>> \in OpToRel(<, Nat)
  BY DEF OpToRel
<1> QED
  BY <1>1, <1>2

\* Induction, over a set of numbers in place of a predicate.
LEMMA Induction ==
  ASSUME NEW S, 0 \in S, \A n \in Nat : n \in S => n + 1 \in S
  PROVE  \A n \in Nat : n \in S
<1> DEFINE T == Nat \ S
<1> SUFFICES ASSUME T # {} PROVE FALSE
  OBVIOUS
<1>1. PICK x \in T : \A y \in T : ~(y < x)
  BY LeastNatural
<1>2. x - 1 \in Nat /\ x - 1 \in S
  BY <1>1
<1> QED
  BY <1>1, <1>2

\* A measure that becomes smaller cannot do so for ever.
Smaller(mu, S) == {p \in S \X S : mu[p[1]] < mu[p[2]]}

LEMMA MeasureIsWellFounded ==
  ASSUME NEW S, NEW mu \in [S -> Nat]
  PROVE  IsWellFoundedOn(Smaller(mu, S), S)
<1> DEFINE R == Smaller(mu, S)
<1>1. \A T \in SUBSET S : T # {} => \E x \in T : \A y \in T : ~(<<y, x>> \in R)
  <2> TAKE T \in SUBSET S
  <2> HAVE T # {}
  <2> DEFINE M == {mu[x] : x \in T}
  <2>1. M \subseteq Nat /\ M # {}
    OBVIOUS
  <2> HIDE DEF M
  <2>2. PICK n \in M : \A m \in M : ~(m < n)
    BY <2>1, LeastNatural
  <2>3. PICK x \in T : mu[x] = n
    BY <2>2 DEF M
  <2>4. \A y \in T : mu[y] \in M
    BY DEF M
  <2> QED
    BY <2>2, <2>3, <2>4 DEF Smaller
<1> HIDE DEF R
<1>2. IsWellFoundedOn(R, S)
  BY <1>1, MinWF
<1> QED
  BY <1>2 DEF R

-----------------------------------------------------------------------------
(* Division.                                                               *)

\* The quotient is the only number that can be it.
LEMMA OneQuotient ==
  ASSUME NEW n \in Int, NEW b \in Nat \ {0}, NEW q \in Int,
         (b * q) <= n, n < (b * q) + b
  PROVE  n \div b = q
  OBVIOUS

\* The multiple of b that truncating division finds in n, and what it leaves.
Multiple(n, b) == b * Quot(n, b)
Remains(n, b)  == abs(n) % abs(b)

LEMMA TruncatedDivision ==
  ASSUME NEW n \in Int, NEW b \in Nat \ {0}
  PROVE  /\ Quot(n, b) \in Int /\ Multiple(n, b) \in Int
         /\ Remains(n, b) \in 0 .. b - 1
         /\ n >= 0 => Multiple(n, b) = n - Remains(n, b) /\ Multiple(n, b) >= 0
         /\ n <= 0 => Multiple(n, b) = n + Remains(n, b) /\ Multiple(n, b) <= 0
<1> DEFINE m == abs(n)
           q == m \div b
           r == m % b
<1>1. m \in Nat /\ abs(b) = b /\ (n >= 0 => m = n) /\ (n <= 0 => m = -n)
  BY DEF abs
<1>2. Quot(n, b) = (IF n < 0 THEN -q ELSE q) /\ Remains(n, b) = r
  BY <1>1 DEF Quot, Remains
<1> HIDE DEF m
<1>3. q \in Int /\ r \in 0 .. b - 1 /\ m = (b * q) + r /\ q >= 0
  BY <1>1
<1> HIDE DEF q, r
<1>4. b * (-q) = -(b * q) /\ b * q >= 0
  BY <1>3
<1>5. Multiple(n, b) = IF n < 0 THEN -(b * q) ELSE b * q
  BY <1>2, <1>4 DEF Multiple
<1>6. n = 0 => b * q = 0 /\ r = 0
  BY <1>1, <1>3, <1>4
<1> QED
  BY <1>1, <1>2, <1>3, <1>4, <1>5, <1>6

\* The same without the remainder.
LEMMA TruncatedBounds ==
  ASSUME NEW n \in Int, NEW b \in Nat \ {0}
  PROVE  /\ Quot(n, b) \in Int /\ Multiple(n, b) \in Int
         /\ n >= 0 => 0 <= Multiple(n, b) /\ Multiple(n, b) <= n /\ n < Multiple(n, b) + b
         /\ n <= 0 => Multiple(n, b) <= 0 /\ n <= Multiple(n, b) /\ Multiple(n, b) - b < n
  BY TruncatedDivision

\* The multiples of b are b apart.
LEMMA Apart ==
  ASSUME NEW n \in Int, NEW m \in Int, NEW b \in Nat \ {0},
         Multiple(n, b) < Multiple(m, b), Multiple(m, b) < Multiple(n, b) + 2 * b
  PROVE  Multiple(m, b) = Multiple(n, b) + b
<1>1. ASSUME NEW q \in Int, NEW k \in Int, b * q < b * k, b * k < (b * q) + 2 * b
      PROVE  b * k = (b * q) + b
  <2>1. q < k
    BY <1>1
  <2>2. b * (q + 2) = (b * q) + 2 * b
    OBVIOUS
  <2>3. b * k < b * (q + 2)
    BY <1>1, <2>2
  <2>4. k < q + 2
    BY <2>3
  <2>5. k = q + 1
    BY <2>1, <2>4
  <2> QED
    BY <2>5
<1> QED
  BY <1>1, TruncatedBounds DEF Multiple

\* A multiple of b is divided exactly.
LEMMA Exact ==
  ASSUME NEW b \in Nat \ {0}, NEW q \in Int
  PROVE  Quot(b * q, b) = q
<1>1. b * q \in Int /\ (q >= 0 => b * q >= 0) /\ (q < 0 => b * q < 0) /\ b * (-q) = -(b * q)
  OBVIOUS
<1>2. CASE q >= 0
  <2>1. (b * q) \div b = q
    BY <1>1, OneQuotient
  <2> QED
    BY <1>1, <1>2, <2>1 DEF Quot, abs
<1>3. CASE q < 0
  <2>1. (-(b * q)) \div b = -q
    BY <1>1, OneQuotient
  <2> QED
    BY <1>1, <1>3, <2>1 DEF Quot, abs
<1> QED
  BY <1>2, <1>3

\* So are the multiples next to one that was found.
LEMMA NextMultiple ==
  ASSUME NEW n \in Int, NEW b \in Nat \ {0}
  PROVE  /\ Quot(Multiple(n, b), b) = Quot(n, b)
         /\ Quot(Multiple(n, b) + b, b) = Quot(n, b) + 1
         /\ Quot(Multiple(n, b) - b, b) = Quot(n, b) - 1
         /\ Multiple(Multiple(n, b), b) = Multiple(n, b)
         /\ Multiple(Multiple(n, b) + b, b) = Multiple(n, b) + b
         /\ Multiple(Multiple(n, b) - b, b) = Multiple(n, b) - b
<1> DEFINE q == Quot(n, b)
<1>1. q \in Int /\ Multiple(n, b) = b * q
  BY TruncatedBounds DEF Multiple
<1>2. b * (q + 1) = (b * q) + b /\ b * (q - 1) = (b * q) - b
  BY <1>1
<1>3. Quot(b * q, b) = q /\ Quot(b * (q + 1), b) = q + 1 /\ Quot(b * (q - 1), b) = q - 1
  BY <1>1, Exact
<1> HIDE DEF q
<1>4. \A x \in Int : Multiple(x, b) = b * Quot(x, b)
  BY DEF Multiple
<1>5. b * q \in Int /\ b * (q + 1) \in Int /\ b * (q - 1) \in Int
  BY <1>1
<1> QED
  BY <1>1, <1>2, <1>3, <1>4, <1>5 DEF q

-----------------------------------------------------------------------------
(* div_rounded of each policy.  p is the multiple of b that is chosen.     *)

\* What Rounded asks, without a product of two unknowns.
Near(policy, p, even, a, b) ==
  LET diff == p - a
      nearest == 2 * abs(diff) <= b
      tie == 2 * abs(diff) = b
  IN  /\ abs(diff) < b
      /\ CASE policy = "null"      -> abs(p) <= abs(a)
           [] policy = "round_up"  -> abs(p) >= abs(a)
           [] policy = "ceiling"   -> diff >= 0
           [] policy = "floor"     -> diff <= 0
           [] policy = "def"       -> nearest /\ (tie => abs(p) > abs(a))
           [] policy = "half_up"   -> nearest /\ (tie => diff > 0)
           [] policy = "half_down" -> nearest /\ (tie => diff < 0)
           [] policy = "half_even" -> nearest /\ (tie => even)

\* A multiple that is near is the quotient of Rounded.
LEMMA RoundedIsNear ==
  ASSUME NEW policy, NEW n \in Int, NEW a \in Int, NEW b \in Nat \ {0},
         Near(policy, Multiple(n, b), Quot(n, b) % 2 = 0, a, b)
  PROVE  Rounded(policy, Quot(n, b), a, b)
<1>1. Quot(n, b) * b = Multiple(n, b)
  BY TruncatedDivision DEF Multiple
<1> QED
  BY <1>1 DEF Rounded, Near

\* Division of the magnitudes moves a towards 0 by less than b.
LEMMA NullRounds ==
  ASSUME NEW a \in Int, NEW b \in Nat \ {0}
  PROVE  Rounded("null", Quot(a, b), a, b)
<1>1. Near("null", Multiple(a, b), Quot(a, b) % 2 = 0, a, b)
  BY TruncatedDivision DEF Near, abs
<1> QED
  BY <1>1, TruncatedDivision, RoundedIsNear

\* The same, for policies that add half of b, rounded down, first.
LEMMA Half ==
  ASSUME NEW b \in Nat \ {0}
  PROVE  b \div 2 \in Nat /\ 2 * (b \div 2) <= b /\ b <= 2 * (b \div 2) + 1 /\ b \div 2 < b
  OBVIOUS

\* def rounds to the nearest, and a half away from 0.
LEMMA DefRounds ==
  ASSUME NEW a \in Int, NEW b \in Nat \ {0}, Room(a, b)
  PROVE  /\ def_div_rounded(a, b).ok
         /\ Rounded("def", def_div_rounded(a, b).output, a, b)
<1> DEFINE h == b \div 2
           x == Away(a, h)
           q == Quot(x, b)
<1>1. h \in Nat /\ 2 * h <= b /\ b <= 2 * h + 1 /\ h < b
  BY Half
<1>2. abs(b) = b
  BY DEF abs
<1> HIDE DEF h
<1>3. Room(a, h)
  BY <1>1, IntMaxAssumption DEF Room, IntMin
<1>4. def_div_rounded(a, b) = Output(q)
  BY <1>2, <1>3 DEF def_div_rounded, h
<1>5. x \in Int /\ (a >= 0 => x = a + h) /\ (a < 0 => x = a - h)
  BY <1>1 DEF Away
<1> HIDE DEF x
<1> DEFINE p == Multiple(x, b)
<1>p. p \in Int /\ (a >= 0 => p <= a + h /\ a + h < p + b) /\ (a < 0 => a - h <= p /\ p - b < a - h)
  <2>1. x >= 0 => p <= x /\ x < p + b
    BY <1>5, TruncatedBounds
  <2>2. x <= 0 => x <= p /\ p - b < x
    BY <1>5, TruncatedBounds
  <2>3. p \in Int
    BY <1>5, TruncatedBounds
  <2> QED
    BY <1>1, <1>5, <2>1, <2>2, <2>3
<1> HIDE DEF p
<1>6. Near("def", p, q % 2 = 0, a, b)
  BY <1>1, <1>p DEF Near, abs
<1>7. Rounded("def", q, a, b)
  BY <1>5, <1>6, RoundedIsNear DEF p
<1> QED
  BY <1>4, <1>7 DEF Output

\* half_down rounds to the nearest, and a half down.
LEMMA HalfDownRounds ==
  ASSUME NEW a \in Int, NEW b \in Nat \ {0}, Room(a, b)
  PROVE  /\ half_down_div_rounded(a, b).ok
         /\ Rounded("half_down", half_down_div_rounded(a, b).output, a, b)
<1> DEFINE h == b \div 2
           r == Remains(a, b)
           x == IF a >= 0 /\ r <= h THEN a ELSE Away(a, h)
           p == Multiple(x, b)
<1>1. h \in Nat /\ 2 * h <= b /\ b <= 2 * h + 1 /\ h < b
  BY Half
<1>2. abs(b) = b
  BY DEF abs
<1> HIDE DEF h
<1>3. Room(a, h)
  BY <1>1, IntMaxAssumption DEF Room, IntMin
<1>4. half_down_div_rounded(a, b) = Output(Quot(x, b))
  BY <1>2, <1>3 DEF half_down_div_rounded, h, Remains
<1>5. x \in Int /\ r \in 0 .. b - 1
      /\ (a >= 0 => x = IF r <= h THEN a ELSE a + h) /\ (a < 0 => x = a - h)
  BY <1>1, TruncatedDivision DEF Away
<1>6. a >= 0 /\ r <= h => p = a - r
  BY <1>5, TruncatedDivision
<1> HIDE DEF x
<1>7. /\ p \in Int
      /\ x >= 0 => p <= x /\ x < p + b
      /\ x <= 0 => x <= p /\ p - b < x
  BY <1>5, TruncatedBounds
<1>8. a >= 0 /\ r > h => p = a - r + b
  <2> SUFFICES ASSUME a >= 0, r > h PROVE p = a - r + b
    OBVIOUS
  <2>1. Multiple(a, b) = a - r
    BY TruncatedDivision
  <2>2. Multiple(a, b) < p /\ p < Multiple(a, b) + 2 * b
    BY <1>1, <1>5, <1>7, <2>1
  <2> QED
    BY <1>5, <2>1, <2>2, Apart
<1> HIDE DEF p, r
<1>9. Near("half_down", p, Quot(x, b) % 2 = 0, a, b)
  BY <1>1, <1>5, <1>6, <1>7, <1>8 DEF Near, abs
<1>10. Rounded("half_down", Quot(x, b), a, b)
  BY <1>5, <1>9, RoundedIsNear DEF p
<1> QED
  BY <1>4, <1>10 DEF Output

\* ceiling rounds up.
LEMMA CeilingRounds ==
  ASSUME NEW a \in Int, NEW b \in Nat \ {0}
  PROVE  /\ ceiling_div_rounded(a, b).ok
         /\ Rounded("ceiling", ceiling_div_rounded(a, b).output, a, b)
<1> DEFINE r == Remains(a, b)
           x == IF r # 0 /\ a >= 0 THEN a + b ELSE a
           p == Multiple(x, b)
<1>1. ceiling_div_rounded(a, b) = Output(Quot(x, b))
  BY DEF ceiling_div_rounded, Remains, abs
<1>2. x \in Int
  OBVIOUS
<1>3. r \in 0 .. b - 1 /\ (a >= 0 => Multiple(a, b) = a - r)
  BY TruncatedDivision
<1>4. r = 0 /\ a >= 0 => p = Multiple(a, b)
  OBVIOUS
<1>5. /\ p \in Int
      /\ x >= 0 => p <= x /\ x < p + b
      /\ x <= 0 => x <= p /\ p - b < x
  <2> HIDE DEF x
  <2> QED
    BY <1>2, TruncatedBounds
<1>6. r # 0 /\ a >= 0 => p = a - r + b
  BY <1>2, <1>3, <1>5, Apart
<1>7. a < 0 => a <= p /\ p - b < a
  BY <1>5
<1> HIDE DEF p, r, x
<1>8. Near("ceiling", p, Quot(x, b) % 2 = 0, a, b)
  BY <1>3, <1>4, <1>5, <1>6, <1>7 DEF Near, abs
<1>9. Rounded("ceiling", Quot(x, b), a, b)
  BY <1>2, <1>8, RoundedIsNear DEF p
<1> QED
  BY <1>1, <1>9 DEF Output

\* floor rounds down.
LEMMA FloorRounds ==
  ASSUME NEW a \in Int, NEW b \in Nat \ {0}
  PROVE  /\ floor_div_rounded(a, b).ok
         /\ Rounded("floor", floor_div_rounded(a, b).output, a, b)
<1> DEFINE r == Remains(a, b)
           x == IF r # 0 /\ a < 0 THEN a + r - b ELSE a
<1>1. floor_div_rounded(a, b) = Output(Quot(x, b))
  BY DEF floor_div_rounded, Remains, abs
<1>2. r \in 0 .. b - 1 /\ (a <= 0 => Multiple(a, b) = a + r)
  BY TruncatedDivision
<1>3. CASE r # 0 /\ a < 0
  <2>1. x = Multiple(a, b) - b
    BY <1>2, <1>3
  <2>2. x \in Int /\ Multiple(x, b) = x
    BY <1>2, <2>1, NextMultiple
  <2>3. x = a + r - b
    BY <1>3
  <2> HIDE DEF x, r
  <2>4. Near("floor", Multiple(x, b), Quot(x, b) % 2 = 0, a, b)
    BY <1>2, <1>3, <2>2, <2>3 DEF Near, abs
  <2> QED
    BY <1>1, <2>2, <2>4, RoundedIsNear DEF Output
<1>4. CASE r = 0 \/ a >= 0
  <2>1. Near("floor", Multiple(a, b), Quot(a, b) % 2 = 0, a, b)
    BY <1>2, <1>4, TruncatedBounds DEF Near, abs
  <2>2. x = a
    BY <1>4
  <2> QED
    BY <1>1, <2>1, <2>2, RoundedIsNear DEF Output
<1> QED
  BY <1>2, <1>3, <1>4

\* round_up rounds away from 0.
LEMMA RoundUpRounds ==
  ASSUME NEW a \in Int, NEW b \in Nat \ {0}
  PROVE  /\ round_up_div_rounded(a, b).ok
         /\ Rounded("round_up", round_up_div_rounded(a, b).output, a, b)
<1> DEFINE r == Remains(a, b)
           x == IF r = 0 THEN a ELSE IF a >= 0 THEN a + b ELSE a - b
           p == Multiple(x, b)
<1>1. round_up_div_rounded(a, b) = Output(Quot(x, b))
  BY DEF round_up_div_rounded, Remains, abs, Away
<1>2. x \in Int
  OBVIOUS
<1>3. /\ r \in 0 .. b - 1
      /\ a >= 0 => Multiple(a, b) = a - r
      /\ a <= 0 => Multiple(a, b) = a + r
  BY TruncatedDivision
<1>4. r = 0 => p = Multiple(a, b)
  OBVIOUS
<1>5. /\ p \in Int
      /\ x >= 0 => p <= x /\ x < p + b
      /\ x <= 0 => x <= p /\ p - b < x
  <2> HIDE DEF x
  <2> QED
    BY <1>2, TruncatedBounds
<1>6. r # 0 /\ a >= 0 => p = a - r + b
  BY <1>2, <1>3, <1>5, Apart
<1>7. r # 0 /\ a < 0 => p = a + r - b
  <2> SUFFICES ASSUME r # 0, a < 0 PROVE p = a + r - b
    OBVIOUS
  <2>1. p < Multiple(a, b) /\ Multiple(a, b) < p + 2 * b
    BY <1>3, <1>5
  <2>2. Multiple(a, b) = p + b
    <3> HIDE DEF x
    <3> QED
      BY <1>2, <2>1, Apart
  <2> QED
    BY <1>3, <1>5, <2>2
<1> HIDE DEF p, r, x
<1>8. Near("round_up", p, Quot(x, b) % 2 = 0, a, b)
  BY <1>3, <1>4, <1>6, <1>7 DEF Near, abs
<1>9. Rounded("round_up", Quot(x, b), a, b)
  BY <1>2, <1>8, RoundedIsNear DEF p
<1> QED
  BY <1>1, <1>9 DEF Output

\* half_up rounds to the nearest, and a half up.
LEMMA HalfUpRounds ==
  ASSUME NEW a \in Int, NEW b \in Nat \ {0}, Room(a, b)
  PROVE  /\ half_up_div_rounded(a, b).ok
         /\ Rounded("half_up", half_up_div_rounded(a, b).output, a, b)
<1> DEFINE h == b \div 2
           r == Remains(a, b)
           m == Multiple(a, b)
           x == IF r < h THEN (IF a >= 0 THEN a ELSE a - r)
                ELSE IF a >= 0 \/ r = h THEN a + h ELSE a + r - b
           p == Multiple(x, b)
<1>1. h \in Nat /\ 2 * h <= b /\ b <= 2 * h + 1 /\ h < b
  BY Half
<1>2. abs(b) = b
  BY DEF abs
<1> HIDE DEF h
<1>3. Room(a, h)
  BY <1>1, IntMaxAssumption DEF Room, IntMin
<1>4. /\ r \in 0 .. b - 1 /\ m \in Int
      /\ a >= 0 => m = a - r
      /\ a <= 0 => m = a + r
  BY TruncatedDivision
<1> HIDE DEF r
<1>5. half_up_div_rounded(a, b) = Output(Quot(x, b))
  BY <1>1, <1>2, <1>3, <1>4 DEF half_up_div_rounded, h, r, Remains
<1>6. x \in Int
  BY <1>1, <1>4
<1>7. /\ p \in Int
      /\ x >= 0 => p <= x /\ x < p + b
      /\ x <= 0 => x <= p /\ p - b < x
  <2> HIDE DEF x
  <2> QED
    BY <1>6, TruncatedBounds
<1>8. Near("half_up", p, Quot(x, b) % 2 = 0, a, b)
  <2>1. CASE a >= 0
    <3>1. x = IF r < h THEN a ELSE a + h
      BY <2>1
    <3>2. r < h => p = a - r
      BY <2>1, <3>1, <1>4
    <3> HIDE DEF x, p
    <3> QED
      BY <1>1, <1>4, <1>7, <2>1, <3>1, <3>2 DEF Near, abs
  <2>2. CASE a < 0 /\ r < h
    <3>1. x = a - r
      BY <2>2
    <3> HIDE DEF x
    <3>2. p < m + b /\ m < p + b
      BY <1>1, <1>4, <1>7, <2>2, <3>1
    <3>3. p < m + 2 * b /\ m < p + 2 * b
      BY <1>4, <1>7, <3>2
    <3>4. ~(m < p) /\ ~(p < m)
      BY <1>4, <1>6, <1>7, <3>2, <3>3, Apart
    <3>5. p = m
      BY <1>4, <1>7, <3>4
    <3> HIDE DEF p, m
    <3> QED
      BY <1>1, <1>4, <2>2, <3>5 DEF Near, abs
  <2>3. CASE a < 0 /\ r = h
    <3>1. x = m
      BY <1>4, <2>3
    <3>2. p = x
      BY <3>1, NextMultiple
    <3> HIDE DEF x, p, m
    <3> QED
      BY <1>1, <1>4, <2>3, <3>1, <3>2 DEF Near, abs
  <2>4. CASE a < 0 /\ r > h
    <3>1. x = m - b
      BY <1>1, <1>4, <2>4
    <3>2. p = x
      BY <3>1, NextMultiple
    <3> HIDE DEF x, p, m
    <3> QED
      BY <1>1, <1>4, <2>4, <3>1, <3>2 DEF Near, abs
  <2> QED
    BY <1>1, <1>4, <2>1, <2>2, <2>3, <2>4
<1>9. Rounded("half_up", Quot(x, b), a, b)
  <2> HIDE DEF x
  <2> QED
    BY <1>6, <1>8, RoundedIsNear
<1> QED
  BY <1>5, <1>9 DEF Output

\* Of an odd divisor but 1 it does not: half of it is rounded down.
LEMMA HalfEvenRounds ==
  ASSUME NEW a \in Int, NEW b \in Nat \ {0}, b % 2 = 0 \/ b = 1
  PROVE  /\ half_even_div_rounded(a, b).ok
         /\ Rounded("half_even", half_even_div_rounded(a, b).output, a, b)
<1> DEFINE h == b \div 2
           r == Remains(a, b)
           m == Multiple(a, b)
           q == Quot(a, b)
           up == r > h \/ (r = h /\ abs(q) % 2 # 0)
           x == IF r # 0 /\ up THEN (IF a >= 0 THEN m + b ELSE m - b) ELSE m
<1>1. h \in Nat /\ (b = 1 \/ 2 * h = b)
  OBVIOUS
<1>2. abs(b) = b
  BY DEF abs
<1> HIDE DEF h
<1>3. /\ r \in 0 .. b - 1 /\ m \in Int /\ q \in Int
      /\ a >= 0 => m = a - r
      /\ a <= 0 => m = a + r
  BY TruncatedDivision
<1>4. abs(q) % 2 = 0 <=> q % 2 = 0
  <2> HIDE DEF q
  <2> QED
    BY <1>3 DEF abs
<1>5. (q + 1) % 2 = 0 <=> q % 2 # 0
  <2> HIDE DEF q
  <2> QED
    BY <1>3
<1>6. (q - 1) % 2 = 0 <=> q % 2 # 0
  <2> HIDE DEF q
  <2> QED
    BY <1>3
<1>7. half_even_div_rounded(a, b) = Output(Quot(x, b))
  <2>1. Toward(a, r - b) = (IF a >= 0 THEN m + b ELSE m - b) /\ Toward(a, r) = m
    <3> HIDE DEF r, m
    <3> QED
      BY <1>3 DEF Toward
  <2> QED
    BY <1>2, <2>1 DEF half_even_div_rounded, h, Remains
<1>8. x \in Int /\ Multiple(x, b) = x
  BY <1>3, NextMultiple
<1>9. Quot(x, b) = IF r # 0 /\ up THEN (IF a >= 0 THEN q + 1 ELSE q - 1) ELSE q
  BY NextMultiple
<1> HIDE DEF r, q, m
<1>10. Near("half_even", Multiple(x, b), Quot(x, b) % 2 = 0, a, b)
  <2>1. CASE r = 0
    BY <1>3, <1>8, <2>1 DEF Near, abs
  <2>2. CASE r # 0 /\ up
    <3>1. b # 1 /\ 2 * h = b
      BY <1>1, <1>3, <2>2
    <3>2. r >= h /\ (r = h => Quot(x, b) % 2 = 0)
      BY <1>1, <1>3, <1>4, <1>5, <1>6, <1>9, <2>2
    <3>3. x = IF a >= 0 THEN a - r + b ELSE a + r - b
      BY <1>3, <2>2
    <3> HIDE DEF x
    <3> QED
      BY <1>1, <1>3, <1>8, <3>1, <3>2, <3>3 DEF Near, abs
  <2>3. CASE r # 0 /\ ~up
    <3>1. 2 * h = b
      BY <1>1, <1>3, <2>3
    <3>2. r <= h /\ (r = h => Quot(x, b) % 2 = 0)
      BY <1>1, <1>3, <1>4, <1>9, <2>3
    <3>3. x = IF a >= 0 THEN a - r ELSE a + r
      BY <1>3, <2>3
    <3> HIDE DEF x, up
    <3> DEFINE even == Quot(x, b) % 2 = 0
    <3>4. r = h => even
      BY <3>2
    <3> HIDE DEF even
    <3>5. abs(x - a) = r
      BY <1>3, <3>3 DEF abs
    <3>6. r < b /\ 2 * r <= b /\ (2 * r = b => r = h)
      BY <1>1, <1>3, <3>1, <3>2
    <3>7. Near("half_even", x, even, a, b)
      BY <3>4, <3>5, <3>6 DEF Near
    <3> QED
      BY <1>8, <3>7 DEF even
  <2> QED
    BY <2>1, <2>2, <2>3
<1> QED
  BY <1>7, <1>8, <1>10, RoundedIsNear DEF Output

-----------------------------------------------------------------------------
(* round of each policy.                                                   *)

\* The integers below and above a fraction, and what lies between.
LEMMA Neighbours ==
  ASSUME NEW n \in Int, NEW d \in Nat \ {0}
  PROVE  /\ Low(n, d) = IF n >= 0 \/ Remains(n, d) = 0 THEN Quot(n, d) ELSE Quot(n, d) - 1
         /\ High(n, d) = IF n <= 0 \/ Remains(n, d) = 0 THEN Quot(n, d) ELSE Quot(n, d) + 1
         /\ Left(n, d) = 2 * Remains(n, d)
<1> DEFINE q == Quot(n, d)
           r == Remains(n, d)
<1>1. /\ q \in Int /\ d * q \in Int /\ r \in 0 .. d - 1
      /\ n >= 0 => d * q = n - r
      /\ n <= 0 => d * q = n + r
  BY TruncatedDivision DEF Multiple
<1>2. Left(n, d) = 2 * abs(n - d * q)
  BY DEF Left, Rem
<1> HIDE DEF q, r
<1>3. abs(n - d * q) = r
  <2>1. CASE n >= 0
    BY <1>1, <2>1 DEF abs
  <2>2. CASE n < 0
    BY <1>1, <2>2 DEF abs
  <2> QED
    BY <2>1, <2>2
<1>4. /\ d * (q + 1) = (d * q) + d
      /\ d * (q - 1) = (d * q) - d
      /\ d * (-q) = -(d * q)
      /\ d * (-(q + 1)) = -(d * q) - d
  BY <1>1
<1>5. Low(n, d) = IF n >= 0 \/ r = 0 THEN q ELSE q - 1
  <2>1. CASE n >= 0 \/ r = 0
    BY <1>1, <2>1, OneQuotient DEF Low
  <2>2. CASE n < 0 /\ r # 0
    <3>1. d * (q - 1) <= n /\ n < (d * (q - 1)) + d
      BY <1>1, <1>4, <2>2
    <3>2. q - 1 \in Int
      BY <1>1
    <3>3. n \div d = q - 1
      BY <3>1, <3>2, OneQuotient
    <3> QED
      BY <2>2, <3>3 DEF Low
  <2> QED
    BY <1>1, <2>1, <2>2
<1>6. High(n, d) = IF n <= 0 \/ r = 0 THEN q ELSE q + 1
  <2>1. CASE n <= 0 \/ r = 0
    <3>1. d * (-q) <= -n /\ -n < (d * (-q)) + d
      BY <1>1, <1>4, <2>1
    <3>2. (-n) \div d = -q
      BY <1>1, <3>1, OneQuotient
    <3> QED
      BY <1>1, <2>1, <3>2 DEF High
  <2>2. CASE n > 0 /\ r # 0
    <3>1. d * (-(q + 1)) <= -n /\ -n < (d * (-(q + 1))) + d
      BY <1>1, <1>4, <2>2
    <3>2. -(q + 1) \in Int /\ -n \in Int
      BY <1>1
    <3>3. (-n) \div d = -(q + 1)
      BY <3>1, <3>2, OneQuotient
    <3> QED
      BY <1>1, <2>2, <3>3 DEF High
  <2> QED
    BY <1>1, <2>1, <2>2
<1> QED
  BY <1>2, <1>3, <1>5, <1>6 DEF q, r

\* The multiple found, or the one next to it, is near enough.
LEMMA ChoiceIsNear ==
  ASSUME NEW policy, NEW n \in Int, NEW d \in Nat \ {0}
  PROVE  /\ Near(policy, Multiple(n, d), Quot(n, d) % 2 = 0, n, d) =>
              Rounded(policy, Quot(n, d), n, d)
         /\ Near(policy, Multiple(n, d) + d, (Quot(n, d) + 1) % 2 = 0, n, d) =>
              Rounded(policy, Quot(n, d) + 1, n, d)
         /\ Near(policy, Multiple(n, d) - d, (Quot(n, d) - 1) % 2 = 0, n, d) =>
              Rounded(policy, Quot(n, d) - 1, n, d)
<1>1. Multiple(n, d) \in Int /\ Multiple(n, d) + d \in Int /\ Multiple(n, d) - d \in Int
  BY TruncatedBounds
<1>2. ASSUME NEW x \in Int, Near(policy, Multiple(x, d), Quot(x, d) % 2 = 0, n, d)
      PROVE  Rounded(policy, Quot(x, d), n, d)
  BY <1>2, RoundedIsNear
<1> QED
  BY <1>1, <1>2, NextMultiple

\* def rounds a fraction to the nearest, and a half away from 0.
LEMMA DefFloatRounds ==
  ASSUME NEW n \in Int, NEW d \in Nat \ {0}
  PROVE  Rounded("def", round("def", n, d), n, d)
<1> DEFINE x == 2 * n + (IF n < 0 THEN -d ELSE d)
           q == Quot(x, 2 * d)
           p == d * q
<1>1. round("def", n, d) = q
  BY DEF round
<1>2. x \in Int /\ 2 * d \in Nat \ {0} /\ (n >= 0 => x = 2 * n + d) /\ (n < 0 => x = 2 * n - d)
  OBVIOUS
<1> HIDE DEF x
<1>3. /\ q \in Int /\ Multiple(x, 2 * d) \in Int
      /\ x >= 0 => Multiple(x, 2 * d) <= x /\ x < Multiple(x, 2 * d) + 2 * d
      /\ x <= 0 => x <= Multiple(x, 2 * d) /\ Multiple(x, 2 * d) - 2 * d < x
  BY <1>2, TruncatedBounds
<1> HIDE DEF q
<1>4. (2 * d) * q = 2 * (d * q) /\ d * q \in Int /\ q * d = d * q
  BY <1>3
<1>5. Multiple(x, 2 * d) = 2 * p
  BY <1>4 DEF Multiple, q
<1>6. p \in Int /\ q * d = p
  BY <1>4
<1> HIDE DEF p
<1>7. Near("def", p, TRUE, n, d)
  BY <1>2, <1>3, <1>5, <1>6 DEF Near, abs
<1> QED
  BY <1>1, <1>6, <1>7 DEF Near, Rounded

\* Every policy rounds a fraction as its name says.
LEMMA FloatRounds ==
  ASSUME NEW policy \in Policies, NEW n \in Int, NEW d \in Nat \ {0}
  PROVE  Rounded(policy, round(policy, n, d), n, d)
<1> DEFINE r == Remains(n, d)
           m == Multiple(n, d)
           q == Quot(n, d)
           f == round(policy, n, d)
<1>1. /\ r \in 0 .. d - 1 /\ m \in Int /\ q \in Int
      /\ n >= 0 => m = n - r
      /\ n <= 0 => m = n + r
  BY TruncatedDivision
<1>2. /\ Low(n, d) = IF n >= 0 \/ r = 0 THEN q ELSE q - 1
      /\ High(n, d) = IF n <= 0 \/ r = 0 THEN q ELSE q + 1
      /\ Left(n, d) = 2 * r
  BY Neighbours
<1>3. /\ Near(policy, m, q % 2 = 0, n, d) => Rounded(policy, q, n, d)
      /\ Near(policy, m + d, (q + 1) % 2 = 0, n, d) => Rounded(policy, q + 1, n, d)
      /\ Near(policy, m - d, (q - 1) % 2 = 0, n, d) => Rounded(policy, q - 1, n, d)
  BY ChoiceIsNear
<1>4. CASE policy = "null"
  BY <1>4, NullRounds DEF round
<1>5. CASE policy = "def"
  BY <1>5, DefFloatRounds
<1> HIDE DEF r, m, q
<1>6. CASE policy = "ceiling"
  <2>1. f = IF n <= 0 \/ r = 0 THEN q ELSE q + 1
    BY <1>2, <1>6 DEF round
  <2>2. IF n <= 0 \/ r = 0 THEN Near(policy, m, q % 2 = 0, n, d)
                           ELSE Near(policy, m + d, (q + 1) % 2 = 0, n, d)
    BY <1>1, <1>6 DEF Near, abs
  <2> QED
    BY <1>3, <2>1, <2>2
<1>7. CASE policy = "floor"
  <2>1. f = IF n >= 0 \/ r = 0 THEN q ELSE q - 1
    BY <1>2, <1>7 DEF round
  <2>2. IF n >= 0 \/ r = 0 THEN Near(policy, m, q % 2 = 0, n, d)
                           ELSE Near(policy, m - d, (q - 1) % 2 = 0, n, d)
    BY <1>1, <1>7 DEF Near, abs
  <2> QED
    BY <1>3, <2>1, <2>2
<1>8. CASE policy = "round_up"
  <2>1. f = IF r = 0 THEN q ELSE IF n >= 0 THEN q + 1 ELSE q - 1
    BY <1>1, <1>2, <1>8 DEF round
  <2>2. IF r = 0 THEN Near(policy, m, q % 2 = 0, n, d)
        ELSE IF n >= 0 THEN Near(policy, m + d, (q + 1) % 2 = 0, n, d)
                       ELSE Near(policy, m - d, (q - 1) % 2 = 0, n, d)
    BY <1>1, <1>8 DEF Near, abs
  <2> QED
    BY <1>3, <2>1, <2>2
<1>9. CASE policy = "half_down"
  <2>1. f = IF n >= 0 THEN (IF 2 * r > d THEN q + 1 ELSE q)
                      ELSE (IF 2 * r < d THEN q ELSE q - 1)
    BY <1>1, <1>2, <1>9 DEF round, half_down_round
  <2>2. CASE n >= 0
    <3>1. IF 2 * r > d THEN Near(policy, m + d, (q + 1) % 2 = 0, n, d)
                       ELSE Near(policy, m, q % 2 = 0, n, d)
      BY <1>1, <1>9, <2>2 DEF Near, abs
    <3> QED
      BY <1>3, <2>1, <2>2, <3>1
  <2>3. CASE n < 0
    <3>1. IF 2 * r < d THEN Near(policy, m, q % 2 = 0, n, d)
                       ELSE Near(policy, m - d, (q - 1) % 2 = 0, n, d)
      BY <1>1, <1>9, <2>3 DEF Near, abs
    <3> QED
      BY <1>3, <2>1, <2>3, <3>1
  <2> QED
    BY <2>2, <2>3
<1>10. CASE policy = "half_up"
  <2>1. f = IF n >= 0 THEN (IF 2 * r >= d THEN q + 1 ELSE q)
                      ELSE (IF 2 * r <= d THEN q ELSE q - 1)
    BY <1>1, <1>2, <1>10 DEF round, half_up_round
  <2>2. CASE n >= 0
    <3>1. 2 * r >= d => Near(policy, m + d, (q + 1) % 2 = 0, n, d)
      BY <1>1, <1>10, <2>2 DEF Near, abs
    <3>2. 2 * r < d => Near(policy, m, q % 2 = 0, n, d)
      BY <1>1, <1>10, <2>2 DEF Near, abs
    <3> QED
      BY <1>1, <1>3, <2>1, <2>2, <3>1, <3>2
  <2>3. CASE n < 0
    <3>1. IF 2 * r <= d THEN Near(policy, m, q % 2 = 0, n, d)
                        ELSE Near(policy, m - d, (q - 1) % 2 = 0, n, d)
      BY <1>1, <1>10, <2>3 DEF Near, abs
    <3> QED
      BY <1>3, <2>1, <2>3, <3>1
  <2> QED
    BY <2>2, <2>3
<1>11. CASE policy = "half_even"
  <2> DEFINE stay == 2 * r < d \/ (2 * r = d /\ q % 2 = 0)
  <2>1. f = IF stay THEN q ELSE IF n >= 0 THEN q + 1 ELSE q - 1
    BY <1>1, <1>2, <1>11 DEF round, half_even_round, q
  <2>2. CASE stay
    <3>1. Near(policy, m, q % 2 = 0, n, d)
      BY <1>1, <1>11, <2>2 DEF Near, abs
    <3> QED
      BY <1>3, <2>1, <2>2, <3>1
  <2>3. CASE ~stay /\ n >= 0
    <3>1. 2 * r >= d /\ (2 * r = d => (q + 1) % 2 = 0)
      BY <1>1, <2>3
    <3>2. Near(policy, m + d, (q + 1) % 2 = 0, n, d)
      BY <1>1, <1>11, <2>3, <3>1 DEF Near, abs
    <3> QED
      BY <1>3, <2>1, <2>3, <3>2
  <2>4. CASE ~stay /\ n < 0
    <3>1. 2 * r >= d /\ (2 * r = d => (q - 1) % 2 = 0)
      BY <1>1, <2>4
    <3>2. Near(policy, m - d, (q - 1) % 2 = 0, n, d)
      BY <1>1, <1>11, <2>4, <3>1 DEF Near, abs
    <3> QED
      BY <1>3, <2>1, <2>4, <3>2
  <2> QED
    BY <2>2, <2>3, <2>4
<1> QED
  BY <1>4, <1>5, <1>6, <1>7, <1>8, <1>9, <1>10, <1>11 DEF Policies

-----------------------------------------------------------------------------
(* Every call.                                                             *)

\* Every policy rounds a quotient as its name says.
LEMMA PolicyRounds ==
  ASSUME NEW policy \in Policies, NEW a \in Int, NEW b \in Nat \ {0}, Room(a, b),
         policy # "half_even" \/ b % 2 = 0 \/ b = 1
  PROVE  /\ div_rounded(policy, a, b).ok
         /\ Rounded(policy, div_rounded(policy, a, b).output, a, b)
<1>1. CASE policy = "null"
  BY <1>1, NullRounds DEF div_rounded, Output
<1>2. CASE policy = "def"
  BY <1>2, DefRounds DEF div_rounded
<1>3. CASE policy = "half_down"
  BY <1>3, HalfDownRounds DEF div_rounded
<1>4. CASE policy = "half_up"
  BY <1>4, HalfUpRounds DEF div_rounded
<1>5. CASE policy = "half_even"
  BY <1>5, HalfEvenRounds DEF div_rounded
<1>6. CASE policy = "ceiling"
  BY <1>6, CeilingRounds DEF div_rounded
<1>7. CASE policy = "floor"
  BY <1>7, FloorRounds DEF div_rounded
<1>8. CASE policy = "round_up"
  BY <1>8, RoundUpRounds DEF div_rounded
<1> QED
  BY <1>1, <1>2, <1>3, <1>4, <1>5, <1>6, <1>7, <1>8 DEF Policies

\* A property of one kind of call says nothing of the others.
LEMMA CallsAreNamed ==
  /\ Round => call'.f = "round"
  /\ MultDiv => call'.f = "multDiv"
  /\ Arithmetic => call'.f = "arithmetic"
  /\ Whole => call'.f = "whole"
  /\ Construction => call'.f = "cast"
  /\ Text => call'.f = "text"
  /\ Typed => call'.f = "typed"
<1>1. /\ Round => call'.f = "round"
      /\ MultDiv => call'.f = "multDiv"
      /\ Arithmetic => call'.f = "arithmetic"
      /\ Whole => call'.f = "whole"
  BY DEF Round, MultDiv, Arithmetic, Whole
<1>2. Construction => call'.f = "cast"
  BY DEF Construction
<1>3. Text => call'.f = "text"
  BY DEF Text
<1>4. Typed => call'.f = "typed"
  BY DEF Typed
<1> QED
  BY <1>1, <1>2, <1>3, <1>4

\* The rounding of decimal.h is right for integers of any width: whatever the
\* arguments, each policy's div_rounded and round choose the neighbour its
\* name says, as long as there is room for a divisor more (half_even of an
\* even divisor).
THEOREM PoliciesAreRight == DecimalSpec => []PoliciesRound
<1>1. CallInit => PoliciesRound
  BY DEF CallInit, PoliciesRound, NoCall
<1>2. PoliciesRound /\ [DecimalNext]_call => PoliciesRound'
  <2> SUFFICES ASSUME PoliciesRound, [DecimalNext]_call PROVE PoliciesRound'
    OBVIOUS
  <2>1. CASE Round
    <3>1. PICK p \in Policies, a \in Numerators, b \in Divisors :
            call' = [f |-> "round", policy |-> p, a |-> a, b |-> b,
                     r |-> div_rounded(p, a, b), float |-> round(p, a, b)]
      BY <2>1 DEF Round
    <3>2. a \in Int /\ b \in Nat \ {0}
      BY ArgumentsAssumption, IntMaxAssumption DEF IntMin
    <3>3. Rounded(p, round(p, a, b), a, b)
      BY <3>2, FloatRounds
    <3>4. Room(a, b) /\ (p # "half_even" \/ b % 2 = 0 \/ b = 1) =>
            /\ div_rounded(p, a, b).ok
            /\ Rounded(p, div_rounded(p, a, b).output, a, b)
      BY <3>2, PolicyRounds
    <3> QED
      BY <3>1, <3>3, <3>4 DEF PoliciesRound
  <2>2. CASE MultDiv \/ Arithmetic \/ Whole \/ Construction \/ Text \/ Typed
    BY <2>2, CallsAreNamed DEF PoliciesRound
  <2>3. CASE UNCHANGED call
    BY <2>3 DEF PoliciesRound
  <2> QED
    BY <2>1, <2>2, <2>3 DEF DecimalNext
<1> QED
  BY <1>1, <1>2, PTL DEF DecimalSpec

-----------------------------------------------------------------------------
(* Division by any number but 0.                                           *)

\* What truncating division leaves: less than the divisor, with the sign of the
\* dividend.
LEMMA Division ==
  ASSUME NEW a \in Int, NEW b \in Int \ {0}
  PROVE  /\ Quot(a, b) \in Int /\ Rem(a, b) \in Int
         /\ a = (b * Quot(a, b)) + Rem(a, b)
         /\ a >= 0 => 0 <= Rem(a, b) /\ Rem(a, b) < abs(b) /\ Rem(a, b) <= a
         /\ a <= 0 => Rem(a, b) <= 0 /\ -abs(b) < Rem(a, b) /\ a <= Rem(a, b)
<1>1. ASSUME NEW c \in Nat \ {0}, NEW q \in Int, NEW p \in Int, NEW r \in Int,
             p = c * q, r = a - p, a >= 0 => 0 <= p /\ p <= a /\ a < p + c,
             a <= 0 => p <= 0 /\ a <= p /\ p - c < a
      PROVE  /\ a = (c * q) + r
             /\ a >= 0 => 0 <= r /\ r < c /\ r <= a
             /\ a <= 0 => r <= 0 /\ -c < r /\ a <= r
  BY <1>1
<1>2. CASE b > 0
  <2>1. b \in Nat \ {0} /\ abs(b) = b
    BY <1>2 DEF abs
  <2> DEFINE q == Quot(a, b)
             p == Multiple(a, b)
             r == Rem(a, b)
  <2>2. /\ q \in Int /\ p \in Int /\ p = b * q
        /\ a >= 0 => 0 <= p /\ p <= a /\ a < p + b
        /\ a <= 0 => p <= 0 /\ a <= p /\ p - b < a
    BY <2>1, TruncatedBounds DEF Multiple
  <2>3. r = a - p
    BY DEF Rem, Multiple
  <2> HIDE DEF q, p, r
  <2>4. r \in Int
    BY <2>2, <2>3
  <2>5. /\ a = (b * q) + r
        /\ a >= 0 => 0 <= r /\ r < b /\ r <= a
        /\ a <= 0 => r <= 0 /\ -b < r /\ a <= r
    BY <1>1, <2>1, <2>2, <2>3, <2>4
  <2> QED
    BY <2>1, <2>2, <2>4, <2>5 DEF q, r
<1>3. CASE b < 0
  <2> DEFINE c == -b
             m == abs(a) \div c
             q == Quot(a, c)
             p == Multiple(a, c)
             r == Rem(a, b)
  <2>1. c \in Nat \ {0} /\ abs(b) = c /\ abs(c) = c /\ b = -c /\ c > 0
    BY <1>3 DEF abs
  <2>2. /\ q \in Int /\ p \in Int /\ p = c * q
        /\ a >= 0 => 0 <= p /\ p <= a /\ a < p + c
        /\ a <= 0 => p <= 0 /\ a <= p /\ p - c < a
    <3> HIDE DEF c
    <3> QED
      BY <2>1, TruncatedBounds DEF Multiple
  <2>3. Quot(a, b) = -q
    <3> HIDE DEF c
    <3>1. m \in Int /\ (a = 0 => m = 0)
      BY <2>1 DEF abs
    <3> HIDE DEF m
    <3>2. Quot(a, b) = (IF a < 0 THEN m ELSE -m) /\ q = (IF a < 0 THEN -m ELSE m)
      BY <1>3, <2>1, <3>1 DEF Quot, m
    <3> QED
      BY <3>1, <3>2
  <2>4. b * (-q) = c * q
    BY <2>2
  <2>5. r = a - p
    BY <2>2, <2>3, <2>4 DEF Rem
  <2> HIDE DEF c, q, p, r
  <2>6. r \in Int
    BY <2>2, <2>5
  <2>7. /\ a = (c * q) + r
        /\ a >= 0 => 0 <= r /\ r < c /\ r <= a
        /\ a <= 0 => r <= 0 /\ -c < r /\ a <= r
    BY <1>1, <2>1, <2>2, <2>5, <2>6
  <2> QED
    BY <2>1, <2>2, <2>3, <2>4, <2>6, <2>7 DEF r
<1> QED
  BY <1>2, <1>3

LEMMA RemainderBounds ==
  ASSUME NEW a \in Int, NEW b \in Int \ {0}
  PROVE  Rem(a, b) \in Int /\ -abs(b) < Rem(a, b) /\ Rem(a, b) < abs(b) /\ abs(Rem(a, b)) < abs(b)
<1> DEFINE r == Rem(a, b)
           c == abs(b)
<1>1. c \in Nat /\ c > 0
  BY DEF abs
<1>2. /\ r \in Int
      /\ a >= 0 => 0 <= r /\ r < c
      /\ a <= 0 => r <= 0 /\ -c < r
  BY Division
<1> HIDE DEF r, c
<1>3. -c < r /\ r < c /\ abs(r) < c
  BY <1>1, <1>2 DEF abs
<1> QED
  BY <1>2, <1>3 DEF r, c

\* Only one number can be the quotient.
LEMMA OneDivision ==
  ASSUME NEW a \in Int, NEW b \in Int \ {0}, NEW q \in Int, NEW r \in Int,
         a = (b * q) + r, -abs(b) < r, r < abs(b), a >= 0 => r >= 0, a <= 0 => r <= 0
  PROVE  Quot(a, b) = q /\ Rem(a, b) = r
<1> DEFINE k == Quot(a, b)
           s == Rem(a, b)
<1>1. /\ k \in Int /\ s \in Int /\ a = (b * k) + s
      /\ a >= 0 => 0 <= s /\ s < abs(b)
      /\ a <= 0 => s <= 0 /\ -abs(b) < s
  BY Division
<1> HIDE DEF k, s
<1>2. -abs(b) < r - s /\ r - s < abs(b) /\ abs(b) \in Nat \ {0} /\ (abs(b) = b \/ abs(b) = -b)
  <2>1. abs(b) \in Nat \ {0} /\ (abs(b) = b \/ abs(b) = -b)
    BY DEF abs
  <2> QED
    BY <1>1, <2>1
<1>3. b * (k - q) = r - s
  BY <1>1
<1>4. k - q = 0
  <2> DEFINE n == k - q
  <2>1. n \in Int /\ b * n = r - s
    BY <1>1, <1>3
  <2> HIDE DEF n
  <2>2. n >= 1 => abs(b) * n >= abs(b)
    BY <1>2, <2>1
  <2>3. n <= -1 => abs(b) * n <= -abs(b)
    BY <1>2, <2>1
  <2>4. abs(b) * n = b * n \/ abs(b) * n = -(b * n)
    BY <1>2, <2>1
  <2>5. n = 0
    BY <1>1, <1>2, <2>1, <2>2, <2>3, <2>4
  <2> QED
    BY <2>5 DEF n
<1> QED
  BY <1>1, <1>3, <1>4 DEF k, s

\* A multiple is divided exactly, and a common factor does not matter.
LEMMA ExactDivision ==
  ASSUME NEW b \in Int \ {0}, NEW q \in Int
  PROVE  Quot(b * q, b) = q /\ Rem(b * q, b) = 0
<1> DEFINE a == b * q
           r == 0
<1>1. /\ a \in Int /\ r \in Int /\ a = (b * q) + r /\ -abs(b) < r /\ r < abs(b)
      /\ a >= 0 => r >= 0
      /\ a <= 0 => r <= 0
  BY DEF abs
<1> HIDE DEF a, r
<1>2. Quot(a, b) = q /\ Rem(a, b) = r
  BY <1>1, OneDivision
<1> QED
  BY <1>2 DEF a, r

LEMMA AbsProduct ==
  ASSUME NEW a \in Int, NEW b \in Int
  PROVE  abs(a) \in Nat /\ abs(a * b) = abs(a) * abs(b) /\ abs(-a) = abs(a)
<1>1. /\ (-a) * b = -(a * b) /\ a * (-b) = -(a * b) /\ (-a) * (-b) = a * b
      /\ a >= 0 /\ b >= 0 => a * b >= 0
      /\ a < 0 /\ b < 0 => a * b > 0
      /\ a >= 0 /\ b < 0 => a * b <= 0
      /\ a < 0 /\ b >= 0 => a * b <= 0
  OBVIOUS
<1>2. a * b \in Int
  OBVIOUS
<1> QED
  BY <1>1, <1>2 DEF abs

LEMMA CommonFactor ==
  ASSUME NEW a \in Int, NEW b \in Int \ {0}, NEW c \in Nat \ {0}
  PROVE  Quot(c * a, c * b) = Quot(a, b) /\ Rem(c * a, c * b) = c * Rem(a, b)
<1> DEFINE q == Quot(a, b)
           r == Rem(a, b)
<1>1. /\ q \in Int /\ r \in Int /\ a = (b * q) + r
      /\ a >= 0 => 0 <= r /\ r < abs(b)
      /\ a <= 0 => r <= 0 /\ -abs(b) < r
  BY Division
<1> HIDE DEF q, r
<1>2. c * a = ((c * b) * q) + (c * r) /\ c * a \in Int /\ c * b \in Int \ {0} /\ c * r \in Int
  BY <1>1
<1>3. abs(c * b) = c * abs(b) /\ abs(b) \in Nat \ {0}
  BY AbsProduct DEF abs
<1>4. /\ r < abs(b) => c * r < c * abs(b)
      /\ -abs(b) < r => -(c * abs(b)) < c * r
      /\ r >= 0 => c * r >= 0
      /\ r <= 0 => c * r <= 0
      /\ c * a >= 0 => a >= 0
      /\ c * a <= 0 => a <= 0
  BY <1>1, <1>3
<1>5. Quot(c * a, c * b) = q /\ Rem(c * a, c * b) = c * r
  <2> DEFINE A == c * a
             B == c * b
             R == c * r
  <2>1. A \in Int /\ B \in Int \ {0} /\ R \in Int /\ A = (B * q) + R
        /\ -abs(B) < R /\ R < abs(B) /\ (A >= 0 => R >= 0) /\ (A <= 0 => R <= 0)
    BY <1>1, <1>2, <1>3, <1>4
  <2> HIDE DEF A, B, R
  <2>2. Quot(A, B) = q /\ Rem(A, B) = R
    BY <1>1, <2>1, OneDivision
  <2> QED
    BY <2>2 DEF A, B, R
<1> QED
  BY <1>5 DEF q, r

-----------------------------------------------------------------------------
(* Powers of ten.                                                          *)

Times10(v, n) == 10 * v

\* The factors of decimals, as their templates define them.
LEMMA Factors == F(0) = 1 /\ \A n \in Nat : F(n + 1) = 10 * F(n)
<1>1. NatInductiveDefHypothesis(DecimalFactor, 1, Times10)
  BY DEF NatInductiveDefHypothesis, DecimalFactor, Times10
<1>2. NatInductiveDefConclusion(DecimalFactor, 1, Times10)
  BY <1>1, NatInductiveDef
<1>3. DecimalFactor = [n \in Nat |-> IF n = 0 THEN 1 ELSE 10 * DecimalFactor[n - 1]]
  BY <1>2 DEF NatInductiveDefConclusion, Times10
<1> QED
  BY <1>3 DEF F

LEMMA FactorIsPositive == \A n \in Nat : F(n) \in Nat \ {0}
<1> DEFINE S == {n \in Nat : F(n) \in Nat \ {0}}
<1>1. 0 \in S /\ \A n \in Nat : n \in S => n + 1 \in S
  BY Factors
<1>2. \A n \in Nat : n \in S
  <2> HIDE DEF S
  <2> QED
    BY <1>1, Induction
<1> QED
  BY <1>2

LEMMA FactorsMultiply == \A m, n \in Nat : F(m + n) = F(m) * F(n)
<1> TAKE m \in Nat
<1> DEFINE S == {n \in Nat : F(m + n) = F(m) * F(n)}
<1>1. 0 \in S
  BY Factors, FactorIsPositive
<1>2. ASSUME NEW n \in Nat, n \in S PROVE n + 1 \in S
  <2>1. F(m + (n + 1)) = 10 * F(m + n) /\ F(n + 1) = 10 * F(n)
    <3>1. m + n \in Nat /\ m + (n + 1) = (m + n) + 1
      OBVIOUS
    <3> QED
      BY <3>1, Factors
  <2>2. F(m) \in Nat /\ F(n) \in Nat
    BY FactorIsPositive
  <2>3. 10 * (F(m) * F(n)) = F(m) * (10 * F(n))
    BY <2>2
  <2> QED
    BY <1>2, <2>1, <2>3
<1>3. \A n \in Nat : n \in S
  <2> HIDE DEF S
  <2> QED
    BY <1>1, <1>2, Induction
<1> QED
  BY <1>3

\* The factor of precision n is a multiple of that of m.
Finer(m, n) ==
  /\ n - m \in Nat /\ F(n) = F(m) * F(n - m)
  /\ F(m) \in Nat \ {0} /\ F(n) \in Nat \ {0} /\ F(n - m) \in Nat \ {0}
  /\ F(m) <= F(n) /\ F(n - m) <= F(n) /\ (m < n => F(m) < F(n))

\* A greater precision has a factor that is a multiple.
LEMMA FactorsDivide ==
  ASSUME NEW m \in Nat, NEW n \in Nat, m <= n
  PROVE  Finer(m, n)
<1>1. n - m \in Nat /\ n = m + (n - m)
  OBVIOUS
<1>2. /\ F(n) = F(m) * F(n - m)
      /\ F(m) \in Nat \ {0} /\ F(n) \in Nat \ {0} /\ F(n - m) \in Nat \ {0}
  BY <1>1, FactorsMultiply, FactorIsPositive
<1>3. m < n => F(n - m) >= 10
  <2> SUFFICES ASSUME m < n PROVE F(n - m) >= 10
    OBVIOUS
  <2>1. PICK k \in Nat : n - m = k + 1
    <3>1. n - m - 1 \in Nat /\ n - m = (n - m - 1) + 1
      OBVIOUS
    <3> QED
      BY <3>1
  <2>2. F(k + 1) = 10 * F(k) /\ F(k) \in Nat \ {0}
    BY Factors, FactorIsPositive
  <2> QED
    BY <2>1, <2>2
<1>4. ASSUME NEW x \in Nat \ {0}, NEW y \in Nat \ {0} PROVE x <= x * y /\ y <= x * y /\ (y >= 10 => x < x * y)
  OBVIOUS
<1> QED
  BY <1>1, <1>2, <1>3, <1>4 DEF Finer

-----------------------------------------------------------------------------
(* The greatest common divisor.                                            *)

Pairs == Int \X Int
EuclidStep(g, p) == IF p[1] = 0 THEN p[2] ELSE g[<<Rem(p[2], p[1]), p[1]>>]
First == [p \in Pairs |-> abs(p[1])]

\* A step of the loop makes its first variable smaller.
LEMMA EuclidDescends ==
  ASSUME NEW p \in Pairs, p[1] # 0
  PROVE  <<Rem(p[2], p[1]), p[1]>> \in SetLessThan(p, Smaller(First, Pairs), Pairs)
<1>1. p[1] \in Int \ {0} /\ p[2] \in Int
  BY DEF Pairs
<1> DEFINE r == Rem(p[2], p[1])
<1>2. r \in Int /\ abs(r) < abs(p[1])
  BY <1>1, RemainderBounds
<1>4. <<r, p[1]>> \in Pairs
  BY <1>1, <1>2 DEF Pairs
<1> HIDE DEF r
<1>5. First[<<r, p[1]>>] < First[p]
  BY <1>2, <1>4 DEF First
<1> QED
  BY <1>4, <1>5 DEF SetLessThan, Smaller, r

LEMMA EuclidIs ==
  Euclid = [p \in Pairs |-> IF p[1] = 0 THEN p[2] ELSE Euclid[<<Rem(p[2], p[1]), p[1]>>]]
<1>1. First \in [Pairs -> Nat]
  BY DEF First, Pairs, abs
<1>2. IsWellFoundedOn(Smaller(First, Pairs), Pairs)
  BY <1>1, MeasureIsWellFounded
<1>3. WFDefOn(Smaller(First, Pairs), Pairs, EuclidStep)
  <2> SUFFICES ASSUME NEW g, NEW h, NEW p \in Pairs,
                      \A y \in SetLessThan(p, Smaller(First, Pairs), Pairs) : g[y] = h[y]
               PROVE  EuclidStep(g, p) = EuclidStep(h, p)
    BY DEF WFDefOn
  <2> QED
    BY EuclidDescends DEF EuclidStep
<1>4. OpDefinesFcn(Euclid, Pairs, EuclidStep)
  BY DEF OpDefinesFcn, Euclid, EuclidStep, Pairs
<1>5. WFInductiveDefines(Euclid, Pairs, EuclidStep)
  BY <1>2, <1>3, <1>4, WFInductiveDef
<1> QED
  BY <1>5 DEF WFInductiveDefines, EuclidStep

\* g divides n.
Divides(g, n) == g \in Int \ {0} /\ \E k \in Int : n = g * k

\* The loop ends with a divisor of both numbers, unless both are 0.
LEMMA EuclidDivides ==
  ASSUME NEW p \in Pairs, p[1] # 0 \/ p[2] # 0
  PROVE  Divides(Euclid[p], p[1]) /\ Divides(Euclid[p], p[2])
<1> DEFINE Right(q) == (q[1] # 0 \/ q[2] # 0) => Divides(Euclid[q], q[1]) /\ Divides(Euclid[q], q[2])
           T == {q \in Pairs : ~Right(q)}
<1> SUFFICES ASSUME T # {} PROVE FALSE
  OBVIOUS
<1>1. First \in [Pairs -> Nat]
  BY DEF First, Pairs, abs
<1>2. IsWellFoundedOn(Smaller(First, Pairs), Pairs)
  BY <1>1, MeasureIsWellFounded
<1>3. PICK q \in T : \A y \in T : ~(<<y, q>> \in Smaller(First, Pairs))
  <2>1. T \subseteq Pairs
    OBVIOUS
  <2> HIDE DEF T
  <2> QED
    BY <1>2, <2>1, WFMin
<1>4. q \in Pairs /\ q[1] \in Int /\ q[2] \in Int
  BY DEF Pairs
<1>5. CASE q[1] = 0
  <2>1. Euclid[q] = q[2]
    BY <1>4, <1>5, EuclidIs
  <2>2. q[2] # 0 => q[1] = q[2] * 0 /\ q[2] = q[2] * 1
    BY <1>4, <1>5
  <2>3. Right(q)
    BY <1>4, <1>5, <2>1, <2>2 DEF Divides
  <2> QED
    BY <2>3
<1>6. CASE q[1] # 0
  <2> DEFINE r == Rem(q[2], q[1])
             s == <<r, q[1]>>
             k == Quot(q[2], q[1])
             g == Euclid[q]
  <2>1. s \in SetLessThan(q, Smaller(First, Pairs), Pairs)
    BY <1>4, <1>6, EuclidDescends
  <2>2. s \in Pairs /\ <<s, q>> \in Smaller(First, Pairs)
    BY <2>1 DEF SetLessThan
  <2>3. Right(s)
    BY <1>3, <2>2
  <2>4. g = Euclid[s]
    BY <1>4, <1>6, EuclidIs
  <2>5. Divides(g, r) /\ Divides(g, q[1])
    BY <1>6, <2>3, <2>4
  <2>6. k \in Int /\ q[2] = (q[1] * k) + r
    BY <1>4, <1>6, Division
  <2> HIDE DEF r, s, k, g
  <2>7. PICK m \in Int, n \in Int : r = g * m /\ q[1] = g * n /\ g \in Int \ {0}
    BY <2>5 DEF Divides
  <2>8. q[2] = g * ((n * k) + m) /\ (n * k) + m \in Int
    BY <2>6, <2>7
  <2>9. Divides(g, q[2])
    BY <2>7, <2>8 DEF Divides
  <2> QED
    BY <2>5, <2>9 DEF g
<1> QED
  BY <1>5, <1>6

\* r is the fraction x * y / d.
Fraction(r, x, y, d) ==
  /\ r.x \in Int /\ r.y \in Int /\ r.d \in Int \ {0}
  /\ \E c \in Int \ {0} : x * y = c * (r.x * r.y) /\ d = c * r.d

\* What multDiv makes of its remainders is their fraction, reduced.
LEMMA ReducedFraction ==
  ASSUME NEW x \in Int \ {0}, NEW y \in Int \ {0}, NEW d \in Int \ {0}
  PROVE  Fraction(Reduced(x, y, d), x, y, d)
<1> DEFINE c1 == gcd(x, d)
           x1 == Quot(x, c1)
           d1 == Quot(d, c1)
           c2 == gcd(y, d1)
           y1 == Quot(y, c2)
           d2 == Quot(d1, c2)
<1>1. Divides(c1, x) /\ Divides(c1, d)
  <2>1. <<x, d>> \in Pairs
    BY DEF Pairs
  <2> QED
    BY <2>1, EuclidDivides DEF gcd
<1> HIDE DEF c1
<1>2. x1 \in Int /\ d1 \in Int /\ x = c1 * x1 /\ d = c1 * d1 /\ c1 \in Int \ {0}
  BY <1>1, ExactDivision DEF Divides
<1>3. d1 # 0
  BY <1>2
<1> HIDE DEF x1, d1
<1>4. Divides(c2, y) /\ Divides(c2, d1)
  <2>1. <<y, d1>> \in Pairs
    BY <1>2 DEF Pairs
  <2> QED
    BY <2>1, EuclidDivides DEF gcd
<1> HIDE DEF c2
<1>5. y1 \in Int /\ d2 \in Int /\ y = c2 * y1 /\ d1 = c2 * d2 /\ c2 \in Int \ {0}
  BY <1>4, ExactDivision DEF Divides
<1> HIDE DEF y1, d2
<1>6. d2 # 0 /\ c1 * c2 \in Int \ {0}
  BY <1>2, <1>3, <1>5
<1>7. x * y = (c1 * c2) * (x1 * y1) /\ d = (c1 * c2) * d2
  BY <1>2, <1>5
<1>8. Reduced(x, y, d) = [x |-> x1, y |-> y1, d |-> d2]
  BY DEF Reduced, c1, x1, d1, c2, y1, d2
<1> DEFINE c == c1 * c2
<1>9. x * y = c * (x1 * y1) /\ d = c * d2 /\ c \in Int \ {0}
  BY <1>6, <1>7
<1> HIDE DEF c
<1>10. /\ Reduced(x, y, d).x = x1 /\ Reduced(x, y, d).y = y1 /\ Reduced(x, y, d).d = d2
       /\ x1 \in Int /\ y1 \in Int /\ d2 \in Int \ {0}
  BY <1>2, <1>5, <1>6, <1>8
<1>11. \E k \in Int \ {0} : x * y = k * (x1 * y1) /\ d = k * d2
  BY <1>9
<1> QED
  BY <1>10, <1>11 DEF Fraction

-----------------------------------------------------------------------------
(* multDiv.                                                                *)

\* z is n/d rounded to the nearest integer, of two to the one away from 0.
Close(z, n, d) ==
  LET diff == z * d - n
  IN  2 * abs(diff) <= abs(d) /\ (2 * abs(diff) = abs(d) => abs(z * d) > abs(n))

LEMMA CloseIsRounded ==
  ASSUME NEW z \in Int, NEW n \in Int, NEW d \in Int \ {0}
  PROVE  Rounded("def", IF d < 0 THEN -z ELSE z, n, abs(d)) <=> Close(z, n, d)
<1>1. (IF d < 0 THEN -z ELSE z) * abs(d) = z * d
  BY DEF abs
<1>2. z * d \in Int /\ abs(d) \in Nat \ {0}
  BY DEF abs
<1> DEFINE e == abs(z * d - n)
<1>3. e \in Nat
  BY <1>2 DEF abs
<1> HIDE DEF e
<1>4. 2 * e <= abs(d) => e < abs(d)
  BY <1>2, <1>3
<1> QED
  BY <1>1, <1>4 DEF Rounded, Close, e

\* The quotient by a negative divisor.
LEMMA NegativeDivisor ==
  ASSUME NEW a \in Int, NEW b \in Int \ {0}
  PROVE  Quot(a, -b) = -Quot(a, b) /\ Rem(a, -b) = Rem(a, b)
<1> DEFINE q == Quot(a, b)
           r == Rem(a, b)
<1>1. /\ q \in Int /\ r \in Int /\ a = (b * q) + r
      /\ a >= 0 => 0 <= r
      /\ a <= 0 => r <= 0
  BY Division
<1>2. -abs(b) < r /\ r < abs(b)
  BY RemainderBounds
<1> HIDE DEF q, r
<1> DEFINE c == -b
           k == -q
<1>3. c \in Int \ {0} /\ k \in Int /\ abs(c) = abs(b) /\ a = (c * k) + r
  BY <1>1 DEF abs
<1> HIDE DEF c, k
<1>4. Quot(a, c) = k /\ Rem(a, c) = r
  BY <1>1, <1>2, <1>3, OneDivision
<1> QED
  BY <1>4 DEF c, k, q, r

\* def rounds by any divisor, if there is room.
LEMMA DefIsClose ==
  ASSUME NEW a \in Int, NEW d \in Int \ {0}, Room(a, abs(d))
  PROVE  LET z == div_rounded("def", a, d)
         IN  z.ok /\ z.output \in Int /\ Close(z.output, a, d)
<1> DEFINE b == abs(d)
           h == b \div 2
           x == Away(a, h)
<1>1. b \in Nat \ {0} /\ abs(b) = b /\ (d > 0 => b = d) /\ (d < 0 => b = -d /\ d = -b)
  BY DEF abs
<1>2. h \in Nat /\ h < b
  <2> HIDE DEF b
  <2> QED
    BY <1>1, Half
<1>3. Room(a, h) /\ x \in Int
  <2> HIDE DEF b, h
  <2> QED
    BY <1>1, <1>2, IntMaxAssumption DEF Room, IntMin, Away, b
<1>4. div_rounded("def", a, d) = Output(Quot(x, d)) /\ def_div_rounded(a, b) = Output(Quot(x, b))
  BY <1>1, <1>3 DEF div_rounded, def_div_rounded
<1>5. Rounded("def", Quot(x, b), a, b)
  <2> HIDE DEF b, x
  <2>1. Rounded("def", def_div_rounded(a, b).output, a, b)
    BY <1>1, DefRounds DEF b
  <2> QED
    BY <1>4, <2>1 DEF Output
<1>6. Quot(x, d) \in Int
  BY <1>3, Division
<1>7. Quot(x, b) = IF d < 0 THEN -Quot(x, d) ELSE Quot(x, d)
  <2> HIDE DEF x
  <2>1. d < 0 => Quot(x, -d) = -Quot(x, d)
    BY <1>3, NegativeDivisor
  <2> QED
    BY <1>1, <2>1
<1>8. Close(Quot(x, d), a, d)
  BY <1>5, <1>6, <1>7, CloseIsRounded
<1> QED
  BY <1>4, <1>6, <1>8 DEF Output

\* Fractions that are equal are rounded alike.
LEMMA CloseScale ==
  ASSUME NEW z \in Int, NEW n \in Int, NEW d \in Int \ {0}, NEW c \in Int \ {0}
  PROVE  /\ Close(z, n, d) => Close(z, c * n, c * d)
         /\ abs(z * d - n) < 2 * abs(d) => abs(z * (c * d) - c * n) < 2 * abs(c * d)
<1> DEFINE p == z * d
           k == abs(c)
<1>1. p \in Int /\ k \in Nat \ {0} /\ abs(d) \in Nat /\ abs(p) \in Nat /\ abs(n) \in Nat /\ abs(p - n) \in Nat
  BY DEF abs
<1>2. z * (c * d) = c * p /\ c * p - c * n = c * (p - n) /\ p - n \in Int
  OBVIOUS
<1> HIDE DEF p
<1>3. /\ abs(c * (p - n)) = k * abs(p - n) /\ abs(c * d) = k * abs(d)
      /\ abs(c * p) = k * abs(p) /\ abs(c * n) = k * abs(n)
  BY <1>1, <1>2, AbsProduct
<1> HIDE DEF k
<1>4. ASSUME NEW e \in Nat, NEW b \in Nat
      PROVE  (2 * (k * e) <= k * b <=> 2 * e <= b) /\ (2 * (k * e) = k * b <=> 2 * e = b)
             /\ (k * e > k * b <=> e > b) /\ (e < 2 * b => k * e < 2 * (k * b))
  <2>1. 2 * (k * e) = k * (2 * e) /\ 2 * (k * b) = k * (2 * b)
    BY <1>1
  <2>2. ASSUME NEW i \in Nat, NEW j \in Nat PROVE k * i <= k * j <=> i <= j
    BY <1>1
  <2>3. (k * (2 * e) <= k * b <=> 2 * e <= b) /\ (k * b <= k * (2 * e) <=> b <= 2 * e)
        /\ (k * e <= k * b <=> e <= b) /\ (k * (2 * b) <= k * e <=> 2 * b <= e)
    BY <2>2
  <2> DEFINE u == k * (2 * e)
             v == k * b
             w == k * e
             t == k * (2 * b)
  <2>4. u \in Int /\ v \in Int /\ w \in Int /\ t \in Int
    BY <1>1
  <2> HIDE DEF u, v, w, t
  <2>5. (u <= v <=> 2 * e <= b) /\ (u = v <=> 2 * e = b) /\ (w > v <=> e > b) /\ (e < 2 * b => w < t)
    BY <2>3, <2>4 DEF u, v, w, t
  <2> QED
    BY <2>1, <2>5 DEF u, v, w, t
<1>5. Close(z, n, d) => Close(z, c * n, c * d)
  <2>1. /\ 2 * (k * abs(p - n)) <= k * abs(d) <=> 2 * abs(p - n) <= abs(d)
        /\ 2 * (k * abs(p - n)) = k * abs(d) <=> 2 * abs(p - n) = abs(d)
        /\ k * abs(p) > k * abs(n) <=> abs(p) > abs(n)
    BY <1>1, <1>4
  <2> QED
    BY <1>2, <1>3, <2>1 DEF Close, p
<1>6. abs(p - n) < 2 * abs(d) => abs(c * p - c * n) < 2 * abs(c * d)
  <2>1. abs(p - n) < 2 * abs(d) => k * abs(p - n) < 2 * (k * abs(d))
    BY <1>1, <1>4
  <2> QED
    BY <1>2, <1>3, <2>1
<1> QED
  BY <1>2, <1>5, <1>6 DEF p

\* Whole numbers may be added before the rest is rounded, if it has the same sign.
LEMMA CloseShift ==
  ASSUME NEW z \in Int, NEW n \in Int \ {0}, NEW d \in Int \ {0}, NEW r \in Int, NEW m \in Int,
         m = d * r + n, n > 0 <=> m > 0, n < 0 <=> m < 0
  PROVE  /\ Close(z, n, d) => Close(r + z, m, d)
         /\ (r + z) * d - m = z * d - n
<1> DEFINE p == z * d
           e == p - n
<1>1. p \in Int /\ e \in Int /\ (r + z) * d = m + e /\ (r + z) * d - m = e
  OBVIOUS
<1>2. p = 0 \/ abs(p) >= abs(d)
  <2>1. z # 0 => abs(z) >= 1 /\ abs(z) \in Nat
    BY DEF abs
  <2>2. abs(p) = abs(z) * abs(d) /\ abs(d) \in Nat
    BY AbsProduct
  <2>3. ASSUME NEW i \in Nat, NEW j \in Nat, i >= 1 PROVE i * j >= j
    BY <2>3
  <2>4. z # 0 => abs(z) * abs(d) >= abs(d)
    BY <2>1, <2>2, <2>3
  <2> QED
    BY <2>2, <2>4
<1> HIDE DEF p
<1>3. abs(d) > 0
  BY DEF abs
<1>4. 2 * abs(e) = abs(d) /\ abs(p) > abs(n) => abs(m + e) > abs(m)
  BY <1>1, <1>2, <1>3 DEF abs
<1> QED
  BY <1>1, <1>4 DEF Close, p

\* What is left of two factors has the sign of their product, and the rest of it
\* is a multiple of the divisor.
LEMMA Remainders ==
  ASSUME NEW a \in Int, NEW b \in Int, NEW d \in Int \ {0}
  PROVE  LET x == Rem(a, d)
             y == Rem(b, d)
             result == a * Quot(b, d) + Quot(a, d) * y
         IN  /\ x \in Int /\ y \in Int /\ result \in Int /\ x * y \in Int
             /\ a * b = d * result + x * y
             /\ x # 0 /\ y # 0 => x * y # 0 /\ (x * y > 0 <=> a * b > 0) /\ (x * y < 0 <=> a * b < 0)
<1> DEFINE x == Rem(a, d)
           y == Rem(b, d)
           q == Quot(a, d)
           k == Quot(b, d)
           result == a * k + q * y
<1>1. /\ q \in Int /\ x \in Int /\ a = (d * q) + x
      /\ a >= 0 => 0 <= x
      /\ a <= 0 => x <= 0
  BY Division
<1>2. /\ k \in Int /\ y \in Int /\ b = (d * k) + y
      /\ b >= 0 => 0 <= y
      /\ b <= 0 => y <= 0
  BY Division
<1> HIDE DEF x, y, q, k
<1>3. a * b = d * result + x * y
  <2>1. a * b = a * (d * k) + a * y
    BY <1>2
  <2>2. a * y = (d * q) * y + x * y
    BY <1>1, <1>2
  <2>3. a * (d * k) = d * (a * k) /\ (d * q) * y = d * (q * y)
    BY <1>1, <1>2
  <2>4. d * result = d * (a * k) + d * (q * y)
    BY <1>1, <1>2
  <2> DEFINE A == a * (d * k)
             B == (d * q) * y
  <2> QED
    BY <1>1, <1>2, <2>1, <2>2, <2>3, <2>4
<1>4. ASSUME x # 0, y # 0 PROVE x * y # 0 /\ (x * y > 0 <=> a * b > 0) /\ (x * y < 0 <=> a * b < 0)
  <2>1. (x > 0 <=> a > 0) /\ (x < 0 <=> a < 0) /\ (y > 0 <=> b > 0) /\ (y < 0 <=> b < 0)
    BY <1>1, <1>2, <1>4
  <2>2. ASSUME NEW i \in Int \ {0}, NEW j \in Int \ {0}
        PROVE  /\ i * j \in Int \ {0}
               /\ i > 0 /\ j > 0 => i * j > 0
               /\ i < 0 /\ j < 0 => i * j > 0
               /\ i > 0 /\ j < 0 => i * j < 0
               /\ i < 0 /\ j > 0 => i * j < 0
    OBVIOUS
  <2>3. a \in Int \ {0} /\ b \in Int \ {0}
    BY <1>1, <1>2, <1>4, <2>1
  <2>4. /\ x * y \in Int \ {0}
        /\ x > 0 /\ y > 0 => x * y > 0
        /\ x < 0 /\ y < 0 => x * y > 0
        /\ x > 0 /\ y < 0 => x * y < 0
        /\ x < 0 /\ y > 0 => x * y < 0
    BY <1>1, <1>2, <1>4, <2>2
  <2>5. /\ a * b \in Int \ {0}
        /\ a > 0 /\ b > 0 => a * b > 0
        /\ a < 0 /\ b < 0 => a * b > 0
        /\ a > 0 /\ b < 0 => a * b < 0
        /\ a < 0 /\ b > 0 => a * b < 0
    BY <2>2, <2>3
  <2> DEFINE u == x * y
             v == a * b
  <2> HIDE DEF u, v
  <2>6. u # 0 /\ (u > 0 <=> v > 0) /\ (u < 0 <=> v < 0)
    BY <1>1, <1>2, <1>4, <2>1, <2>3, <2>4, <2>5 DEF u, v
  <2> QED
    BY <2>6 DEF u, v
<1>5. result \in Int /\ x * y \in Int
  BY <1>1, <1>2
<1> QED
  BY <1>1, <1>2, <1>3, <1>4, <1>5 DEF x, y, q, k

\* The rounding of floating point gives a whole number.
LEMMA DefFloatIsInt ==
  ASSUME NEW n \in Int, NEW d \in Int \ {0}
  PROVE  (IF d < 0 THEN round("def", -n, -d) ELSE round("def", n, d)) \in Int
<1>1. ASSUME NEW i \in Int, NEW j \in Nat \ {0} PROVE round("def", i, j) \in Int
  <2> DEFINE k == 2 * i + (IF i < 0 THEN -j ELSE j)
  <2>1. k \in Int /\ 2 * j \in Nat \ {0}
    OBVIOUS
  <2> HIDE DEF k
  <2>2. Quot(k, 2 * j) \in Int
    BY <2>1, TruncatedBounds
  <2> QED
    BY <2>2 DEF round, k
<1>2. d < 0 => -n \in Int /\ -d \in Nat \ {0}
  OBVIOUS
<1>3. ~(d < 0) => d \in Nat \ {0}
  OBVIOUS
<1> QED
  BY <1>1, <1>2, <1>3

\* The rounding of floating point, exact to within one, is less than two off.
LEMMA ApproximatelyIsNear ==
  ASSUME NEW n \in Int, NEW d \in Int \ {0}, NEW z \in Approximately("def", n, d)
  PROVE  z \in Int /\ abs(z * d - n) < 2 * abs(d)
<1> DEFINE q == IF d < 0 THEN round("def", -n, -d) ELSE round("def", n, d)
<1>1. PICK e \in {-1, 0, 1} : z = q + e
  BY DEF Approximately
<1>2. q \in Int
  BY DefFloatIsInt
<1>3. Rounded("def", q, IF d < 0 THEN -n ELSE n, abs(d))
  <2>1. d < 0 => -n \in Int /\ -d \in Nat \ {0} /\ abs(d) = -d
    BY DEF abs
  <2>2. ~(d < 0) => d \in Nat \ {0} /\ abs(d) = d
    BY DEF abs
  <2>3. d < 0 => Rounded("def", round("def", -n, -d), -n, -d)
    BY <2>1, DefFloatRounds
  <2>4. ~(d < 0) => Rounded("def", round("def", n, d), n, d)
    BY <2>2, DefFloatRounds
  <2> QED
    BY <2>1, <2>2, <2>3, <2>4
<1> HIDE DEF q
<1>4. abs(q * d - n) < abs(d)
  <2>1. q * abs(d) = IF d < 0 THEN -(q * d) ELSE q * d
    BY <1>2 DEF abs
  <2>2. q * d \in Int
    BY <1>2
  <2>3. abs(q * abs(d) - (IF d < 0 THEN -n ELSE n)) < abs(d)
    BY <1>3 DEF Rounded
  <2> QED
    BY <2>1, <2>2, <2>3 DEF abs
<1>5. z * d = q * d + e * d /\ abs(e * d) <= abs(d) /\ q * d \in Int /\ e * d \in Int
  BY <1>1, <1>2 DEF abs
<1>6. abs(z * d - n) < 2 * abs(d)
  BY <1>4, <1>5 DEF abs
<1> QED
  BY <1>1, <1>2, <1>6

-----------------------------------------------------------------------------
(* Integers of a limited width.                                            *)

\* How many there are, and numbers that a whole number of times that apart.
Width == IntMax - IntMin + 1
WrapAlike(x, y) == \E k \in Int : y = x + Width * k

LEMMA WidthIsPositive == IntMax \in Int /\ IntMin \in Int /\ IntMin = -IntMax - 1 /\ Width \in Nat \ {0}
  BY IntMaxAssumption DEF IntMin, Width

\* What wraps around is the one among them that is within the limits.
LEMMA WrappedIsSame == \A x \in Int : Wrapped(x) \in IntMin .. IntMax /\ WrapAlike(x, Wrapped(x))
<1> SUFFICES ASSUME NEW x \in Int PROVE Wrapped(x) \in IntMin .. IntMax /\ WrapAlike(x, Wrapped(x))
  OBVIOUS
<1> DEFINE n == x - IntMin
           w == Width
           k == n \div w
<1>1. n \in Int /\ w \in Nat \ {0}
  BY WidthIsPositive
<1>2. Wrapped(x) = IntMin + (n % w)
  BY DEF Wrapped, Width
<1> HIDE DEF n, w
<1>3. n % w \in 0 .. w - 1 /\ k \in Int /\ n = w * k + (n % w)
  BY <1>1
<1> HIDE DEF k
<1> DEFINE j == -k
<1>4. j \in Int /\ w * j = -(w * k) /\ w * k \in Int
  BY <1>1, <1>3
<1> HIDE DEF j
<1>5. Wrapped(x) = x + w * j
  BY <1>2, <1>3, <1>4, WidthIsPositive DEF n
<1>6. Wrapped(x) \in IntMin .. IntMax
  BY <1>2, <1>3, WidthIsPositive DEF w, Width
<1> QED
  BY <1>4, <1>5, <1>6 DEF WrapAlike, w

LEMMA QuotientAndRest == \A n \in Int, w \in Nat \ {0} : n % w = n - w * (n \div w)
  OBVIOUS

LEMMA OneIsWithin ==
  \A x, y \in Int : WrapAlike(x, y) /\ x \in IntMin .. IntMax => Wrapped(y) = x
<1> SUFFICES ASSUME NEW x \in IntMin .. IntMax, NEW y \in Int, WrapAlike(x, y) PROVE Wrapped(y) = x
  OBVIOUS
<1> DEFINE w == Width
           n == y - IntMin
<1>1. PICK k \in Int : y = x + Width * k
  BY DEF WrapAlike
<1>2. w \in Nat \ {0} /\ x \in Int /\ 0 <= x - IntMin /\ x - IntMin < w /\ IntMin \in Int
  BY WidthIsPositive DEF Width
<1>3. y = x + w * k /\ w * k \in Int
  BY <1>1, <1>2
<1> HIDE DEF w
<1>4. n \in Int /\ w * k <= n /\ n < w * k + w /\ n = w * k + (x - IntMin)
  BY <1>2, <1>3
<1> HIDE DEF n
<1>5. n \div w = k
  BY <1>2, <1>4, OneQuotient
<1>6. n % w = n - w * (n \div w)
  <2>1. n \in Int /\ w \in Nat \ {0}
    BY <1>2, <1>4
  <2> QED
    BY <2>1, QuotientAndRest
<1>7. n % w = x - IntMin
  <2>1. n % w = n - w * k
    BY <1>5, <1>6
  <2> QED
    BY <1>2, <1>3, <1>4, <2>1
<1>8. Wrapped(y) = IntMin + (n % w)
  BY DEF Wrapped, Width, n, w
<1> QED
  BY <1>2, <1>7, <1>8

\* A number within the limits is left as it is.
LEMMA WrappedIs == \A x \in IntMin .. IntMax : Wrapped(x) = x
<1> SUFFICES ASSUME NEW x \in IntMin .. IntMax PROVE Wrapped(x) = x
  OBVIOUS
<1>1. x \in Int /\ x = x + Width * 0
  BY WidthIsPositive
<1> QED
  BY <1>1, OneIsWithin DEF WrapAlike

\* In a sum or a difference it does not matter that a term wrapped around, if
\* the result is within the limits.
LEMMA WrapsAgain ==
  \A a, b \in Int :
    /\ a + b \in IntMin .. IntMax => Wrapped(a + Wrapped(b)) = a + b
    /\ a - b \in IntMin .. IntMax => Wrapped(a - Wrapped(b)) = a - b
<1> SUFFICES ASSUME NEW a \in Int, NEW b \in Int
             PROVE  /\ a + b \in IntMin .. IntMax => Wrapped(a + Wrapped(b)) = a + b
                    /\ a - b \in IntMin .. IntMax => Wrapped(a - Wrapped(b)) = a - b
  OBVIOUS
<1>1. Wrapped(b) \in IntMin .. IntMax /\ WrapAlike(b, Wrapped(b))
  BY WrappedIsSame
<1>2. PICK k \in Int : Wrapped(b) = b + Width * k
  BY <1>1 DEF WrapAlike
<1> DEFINE c == Wrapped(b)
           j == -k
<1>3. c \in Int /\ j \in Int /\ Width * j = -(Width * k) /\ Width * k \in Int /\ c = b + Width * k
  BY <1>1, <1>2, WidthIsPositive
<1> HIDE DEF c, j
<1>4. a + c = (a + b) + Width * k /\ a - c = (a - b) + Width * j
  BY <1>3
<1>5. a + c \in Int /\ a - c \in Int /\ a + b \in Int /\ a - b \in Int
  BY <1>3
<1>6. WrapAlike(a + b, a + c) /\ WrapAlike(a - b, a - c)
  BY <1>3, <1>4 DEF WrapAlike
<1> QED
  BY <1>5, <1>6, OneIsWithin DEF c

\* What is less than two units off a number that fits is within the limits.
LEMMA NearFits ==
  \A e, n \in Int, d \in Int \ {0} :
    Fits(n, d) /\ abs(e * d - n) < 2 * abs(d) => e \in -IntMax .. IntMax /\ Wrapped(e) = e
<1> SUFFICES ASSUME NEW e \in Int, NEW n \in Int, NEW d \in Int \ {0},
                    Fits(n, d), abs(e * d - n) < 2 * abs(d)
             PROVE  e \in -IntMax .. IntMax /\ Wrapped(e) = e
  OBVIOUS
<1> DEFINE D == abs(d)
           p == e * d
           m == IntMax
<1>1. D \in Nat \ {0} /\ m \in Nat \ {0} /\ p \in Int /\ abs(p) = abs(e) * D /\ abs(e) \in Nat
  BY IntMaxAssumption, AbsProduct DEF abs
<1>2. abs(n) <= (m - 2) * D /\ abs(p - n) < 2 * D
  BY DEF Fits
<1> HIDE DEF D, p, m
<1>3. (m - 2) * D = m * D - 2 * D /\ m * D \in Int
  BY <1>1
<1>4. abs(p) < m * D
  BY <1>1, <1>2, <1>3 DEF abs
<1> DEFINE a == abs(e)
<1>5. a \in Nat /\ a * D < m * D
  BY <1>1, <1>4
<1> HIDE DEF a
<1>6. a < m
  <2>1. a >= m => a * D >= m * D
    BY <1>1, <1>5
  <2> QED
    BY <1>1, <1>5, <2>1
<1>7. -m < e /\ e < m
  BY <1>1, <1>6 DEF a, abs
<1>8. e \in -IntMax .. IntMax /\ e \in IntMin .. IntMax
  BY <1>7, WidthIsPositive DEF m
<1> QED
  BY <1>8, WrappedIs

\* So is what is a unit at most from it.
LEMMA NearestFits ==
  \A e, n \in Int, d \in Int \ {0} :
    Fits(n, d) /\ Nearest(e, n, d) => e \in -IntMax .. IntMax /\ Wrapped(e) = e
<1> SUFFICES ASSUME NEW e \in Int, NEW n \in Int, NEW d \in Int \ {0}, Fits(n, d), Nearest(e, n, d)
             PROVE  e \in -IntMax .. IntMax /\ Wrapped(e) = e
  OBVIOUS
<1> DEFINE x == abs(e * d - n)
           D == abs(d)
<1>1. x \in Nat /\ D \in Nat \ {0}
  <2>1. e * d - n \in Int
    OBVIOUS
  <2> QED
    BY <2>1 DEF abs
<1>2. 2 * x <= D
  BY DEF Nearest
<1> HIDE DEF x, D
<1>3. x < 2 * D
  BY <1>1, <1>2
<1> QED
  BY <1>3, NearFits DEF x, D

\* The factors of the precisions there are fit.
LEMMA FactorsFit == \A P \in 0 .. MaxPoints : P \in Nat /\ F(P) \in 1 .. IntMax
<1> SUFFICES ASSUME NEW P \in 0 .. MaxPoints PROVE P \in Nat /\ F(P) \in 1 .. IntMax
  OBVIOUS
<1>1. MaxPoints \in Nat /\ P \in Nat /\ P <= MaxPoints /\ F(MaxPoints) <= IntMax
  BY DecimalAssumption DEF F
<1>2. Finer(P, MaxPoints)
  BY <1>1, FactorsDivide
<1> QED
  BY <1>1, <1>2, IntMaxAssumption DEF Finer

-----------------------------------------------------------------------------
(* The results of multDiv.                                                 *)

\* One result is a quotient if it is close; three, if each is less than two off.
Quotients(S, a, b, d) == S \subseteq Int /\ Quotient(S, a, b, d)

LEMMA OneQuotientIs ==
  ASSUME NEW q \in Int, NEW a \in Int, NEW b \in Int, NEW d \in Int \ {0}, Close(q, a * b, d)
  PROVE  Quotients({q}, a, b, d)
<1>1. Cardinality({q}) = 1
  BY FS_Singleton
<1> DEFINE n == a * b
<1>2. n \in Int
  OBVIOUS
<1>3. Close(q, n, d)
  OBVIOUS
<1> HIDE DEF n
<1>4. Rounded("def", IF d < 0 THEN -q ELSE q, n, abs(d))
  BY <1>2, <1>3, CloseIsRounded
<1> QED
  BY <1>1, <1>4 DEF Quotients, Quotient, n

\* What is added for the remainders x and y makes results that are a quotient.
LEMMA AddFractionIsQuotient ==
  ASSUME NEW a \in Int, NEW b \in Int, NEW d \in Int \ {0}, ~NearLimit(a, b, d),
         Rem(a, d) # 0, Rem(b, d) # 0
  PROVE  Quotients(Product("def", a, b, d), a, b, d)
<1> DEFINE x == Rem(a, d)
           y == Rem(b, d)
           result == a * Quot(b, d) + Quot(a, d) * y
           m == a * b
           n == x * y
           red == Reduced(x, y, d)
           k == red.x * red.y
<1>1. /\ x \in Int \ {0} /\ y \in Int \ {0} /\ result \in Int /\ n \in Int \ {0} /\ m \in Int
      /\ m = d * result + n
      /\ (n > 0 <=> m > 0) /\ (n < 0 <=> m < 0)
  <2>1. /\ x \in Int /\ y \in Int /\ result \in Int /\ n \in Int /\ m = d * result + n
        /\ x # 0 /\ y # 0 => n # 0 /\ (n > 0 <=> m > 0) /\ (n < 0 <=> m < 0)
    BY Remainders
  <2>2. x # 0 /\ y # 0 /\ m \in Int
    OBVIOUS
  <2> HIDE DEF x, y, result, m, n
  <2> QED
    BY <2>1, <2>2
<1>2. Product("def", a, b, d) = AddFraction("def", result, x, y, d)
  BY DEF Product
<1>3. NearLimit(a, b, d) = IF ~isMultOverflow(x, y) THEN ~Room(n, abs(d))
                           ELSE ~isMultOverflow(red.x, red.y) /\ ~Room(k, abs(red.d))
  BY DEF NearLimit
<1> HIDE DEF x, y, result
<1>4. /\ red.x \in Int /\ red.y \in Int /\ red.d \in Int \ {0}
      /\ \E c \in Int \ {0} : n = c * k /\ d = c * red.d
  <2>1. x \in Int \ {0} /\ y \in Int \ {0} /\ d \in Int \ {0}
    BY <1>1
  <2> HIDE DEF n, k, red
  <2>2. Fraction(Reduced(x, y, d), x, y, d)
    BY <2>1, ReducedFraction
  <2>3. Fraction(red, x, y, d)
    BY <2>2 DEF red
  <2> QED
    BY <2>3 DEF Fraction, n, k
<1>5. PICK c \in Int \ {0} : n = c * k /\ d = c * red.d
  BY <1>4
<1>6. k \in Int
  BY <1>4
<1> DEFINE e == red.d
           whole == div_rounded("def", n, d)
           reduced == div_rounded("def", k, e)
<1>7. AddFraction("def", result, x, y, d) =
        IF ~isMultOverflow(x, y) THEN {result + whole.output}
        ELSE IF ~isMultOverflow(red.x, red.y) /\ reduced.ok THEN {result + reduced.output}
        ELSE {result + z : z \in Approximately("def", k, e)}
  BY DEF AddFraction
<1>8. ASSUME NEW z \in Int, Close(z, n, d) PROVE Quotients({result + z}, a, b, d)
  <2>1. Close(result + z, m, d)
    <3> HIDE DEF m, n
    <3> QED
      BY <1>1, <1>8, CloseShift
  <2>2. result + z \in Int
    BY <1>1, <1>8
  <2> QED
    BY <2>1, <2>2, OneQuotientIs
<1> HIDE DEF m, n, red, k, e
<1>9. CASE ~isMultOverflow(x, y)
  <2>1. Room(n, abs(d))
    BY <1>3, <1>9
  <2>2. whole.output \in Int /\ Close(whole.output, n, d)
    BY <1>1, <2>1, DefIsClose
  <2> QED
    BY <1>2, <1>7, <1>8, <1>9, <2>2
<1>10. CASE isMultOverflow(x, y) /\ ~isMultOverflow(red.x, red.y)
  <2>1. Room(k, abs(e)) /\ e \in Int \ {0}
    BY <1>3, <1>4, <1>10 DEF e
  <2>2. reduced.ok /\ reduced.output \in Int /\ Close(reduced.output, k, e)
    BY <1>6, <2>1, DefIsClose
  <2>3. Close(reduced.output, n, d)
    BY <1>5, <1>6, <2>1, <2>2, CloseScale DEF e
  <2> QED
    BY <1>2, <1>7, <1>8, <1>10, <2>2, <2>3
<1>11. CASE isMultOverflow(x, y) /\ isMultOverflow(red.x, red.y)
  <2> DEFINE S == {result + z : z \in Approximately("def", k, e)}
             q == IF e < 0 THEN round("def", -k, -e) ELSE round("def", k, e)
  <2>1. e \in Int \ {0} /\ d = c * e
    BY <1>4, <1>5 DEF e
  <2>2. \A z \in Approximately("def", k, e) : z \in Int /\ abs(z * e - k) < 2 * abs(e)
    BY <1>6, <2>1, ApproximatelyIsNear
  <2>3. \A z \in Approximately("def", k, e) : abs(z * d - n) < 2 * abs(d)
    BY <1>5, <1>6, <2>1, <2>2, CloseScale
  <2>4. \A z \in Approximately("def", k, e) : (result + z) * d - m = z * d - n
    BY <1>1, <2>2, CloseShift
  <2>5. \A s \in S : abs(s * d - m) < 2 * abs(d)
    BY <2>3, <2>4
  <2>6. Cardinality(S) # 1
    <3>1. Approximately("def", k, e) = {q + i : i \in {-1, 0, 1}}
      BY DEF Approximately
    <3> HIDE DEF q
    <3>2. q \in Int
      BY <1>6, <2>1, DefFloatIsInt DEF q
    <3> DEFINE w == result + q
    <3>3. S = {w - 1, w, w + 1}
      <4>1. Approximately("def", k, e) = {q - 1, q, q + 1}
        BY <3>1, <3>2
      <4>2. S = {result + (q - 1), result + q, result + (q + 1)}
        BY <4>1
      <4> HIDE DEF S
      <4> QED
        BY <1>1, <3>2, <4>2
    <3>4. w \in Int
      BY <1>1, <3>2
    <3> HIDE DEF S, w
    <3>5. S = (w - 1) .. (w + 1)
      BY <3>3, <3>4
    <3>6. Cardinality((w - 1) .. (w + 1)) = 3
      <4> DEFINE u == w - 1
                 v == w + 1
      <4>1. u \in Int /\ v \in Int /\ v = u + 2
        BY <3>4
      <4> HIDE DEF u, v
      <4>2. Cardinality(u .. v) = IF u > v THEN 0 ELSE v - u + 1
        BY <4>1, FS_Interval
      <4>3. Cardinality(u .. v) = 3
        BY <4>1, <4>2
      <4> QED
        BY <4>3 DEF u, v
    <3> QED
      BY <3>5, <3>6
  <2>7. Product("def", a, b, d) = S
    BY <1>2, <1>7, <1>11
  <2>8. S \subseteq Int
    BY <1>1, <2>2
  <2> HIDE DEF S
  <2> QED
    BY <2>5, <2>6, <2>7, <2>8 DEF Quotients, Quotient, m
<1> QED
  BY <1>9, <1>10, <1>11

\* The product is rounded, however large it is.
LEMMA ProductIsQuotient ==
  ASSUME NEW a \in Int, NEW b \in Int, NEW d \in Int \ {0}, ~NearLimit(a, b, d)
  PROVE  Quotients(Product("def", a, b, d), a, b, d)
<1>2. CASE Rem(a, d) # 0 /\ Rem(b, d) # 0
  BY <1>2, AddFractionIsQuotient
<1>3. CASE Rem(a, d) = 0 \/ Rem(b, d) = 0
  <2> DEFINE x == Rem(a, d)
             y == Rem(b, d)
             result == a * Quot(b, d) + Quot(a, d) * y
  <2>1. x \in Int /\ y \in Int /\ result \in Int /\ a * b = d * result + x * y
    BY Remainders
  <2>2. Product("def", a, b, d) = {result}
    BY <1>3 DEF Product
  <2> HIDE DEF x, y, result
  <2>3. x * y = 0
    BY <1>3, <2>1 DEF x, y
  <2> DEFINE n == a * b
             p == result * d
  <2>4. p = n /\ n \in Int
    BY <2>1, <2>3
  <2> HIDE DEF n, p
  <2>5. Close(result, a * b, d)
    <3>1. abs(p - n) = 0 /\ abs(d) \in Nat \ {0}
      BY <2>4 DEF abs
    <3> QED
      BY <3>1 DEF Close, n, p
  <2> QED
    BY <2>1, <2>2, <2>5, OneQuotientIs
<1> QED
  BY <1>2, <1>3

\* multDiv gives the rounded quotient, however large the product, as long as the
\* quotient is within the limits.
LEMMA MultDivIsQuotient ==
  ASSUME NEW a \in Int, NEW b \in Int, NEW d \in Int \ {0}
  PROVE  Quotient(multDiv("def", a, b, d), a, b, d)
<1> SUFFICES ASSUME Fits(a * b, d), ~NearLimit(a, b, d)
             PROVE  Quotient(multDiv("def", a, b, d), a, b, d)
  BY DEF Quotient
<1> DEFINE S == Product("def", a, b, d)
           n == a * b
<1>1. S \subseteq Int /\ Quotient(S, a, b, d)
  BY ProductIsQuotient DEF Quotients
<1>2. ASSUME NEW q \in S PROVE Wrapped(q) = q
  <2>1. q \in Int /\ n \in Int /\ abs(d) \in Nat \ {0}
    BY <1>1 DEF abs
  <2>2. CASE Cardinality(S) = 1
    <3>1. Rounded("def", IF d < 0 THEN -q ELSE q, n, abs(d))
      BY <1>1, <2>2 DEF Quotient
    <3>2. Close(q, n, d)
      <4> HIDE DEF n, S
      <4> QED
        BY <2>1, <3>1, CloseIsRounded
    <3>3. Nearest(q, n, d)
      BY <3>2 DEF Close, Nearest
    <3> HIDE DEF n, S
    <3>4. Fits(n, d)
      BY DEF n
    <3> QED
      BY <2>1, <3>3, <3>4, NearestFits
  <2>3. CASE Cardinality(S) # 1
    <3>1. abs(q * d - n) < 2 * abs(d) /\ Fits(n, d)
      BY <1>1, <2>3 DEF Quotient
    <3> HIDE DEF n, S
    <3> QED
      BY <2>1, <3>1, NearFits
  <2> QED
    BY <2>2, <2>3
<1>3. multDiv("def", a, b, d) = {Wrapped(q) : q \in S}
  BY DEF multDiv
<1> HIDE DEF S
<1>4. {Wrapped(q) : q \in S} = S
  BY <1>2
<1> QED
  BY <1>1, <1>3, <1>4

-----------------------------------------------------------------------------
(* The operators on decimals.                                              *)

\* Where there is room for a unit of the operand there is room to round it.
LEMMA RoomToRound ==
  ASSUME NEW P \in Nat, NEW P2 \in Nat, NEW w \in Int, Room(w, F(P2))
  PROVE  CanRound(P, w, P2)
<1> SUFFICES ASSUME P2 > P PROVE Room(w, F(P2 - P))
  BY DEF CanRound
<1> DEFINE k == F(P2 - P)
<1>1. Finer(P, P2)
  BY FactorsDivide
<1>2. k \in Nat \ {0} /\ F(P2) = F(P) * k /\ k <= F(P2) /\ F(P2) \in Nat
  BY <1>1, FactorIsPositive DEF Finer
<1> HIDE DEF k
<1>3. Room(w, k)
  BY <1>2, IntMaxAssumption DEF Room, IntMin
<1> QED
  BY <1>3 DEF k

\* An operand of another precision is the decimal nearest to it, before it
\* wraps around.
Operand(P, P2, w) ==
  IF P2 > P THEN div_rounded("def", w, F(P2 - P)).output ELSE w * F(P - P2)

LEMMA OperandIsNearest ==
  ASSUME NEW P \in Nat, NEW P2 \in Nat, NEW w \in Int, CanRound(P, w, P2)
  PROVE  LET c == Operand(P, P2, w)
         IN  c \in Int /\ 2 * abs(c * F(P2) - w * F(P)) <= F(P2)
<1>1. F(P) \in Nat \ {0} /\ F(P2) \in Nat \ {0}
  BY FactorIsPositive
<1>2. CASE P2 > P
  <2> DEFINE k == F(P2 - P)
             c == div_rounded("def", w, k).output
  <2>1. Finer(P, P2)
    BY <1>2, FactorsDivide
  <2>2. k \in Nat \ {0} /\ F(P2) = F(P) * k /\ k <= F(P2)
    BY <2>1 DEF Finer
  <2>8. Room(w, k)
    BY <1>2 DEF CanRound
  <2> HIDE DEF k
  <2>3. Room(w, abs(k)) /\ abs(k) = k /\ k \in Int \ {0}
    BY <2>2, <2>8 DEF abs
  <2>4. c \in Int /\ Close(c, w, k)
    BY <2>3, DefIsClose
  <2> HIDE DEF c
  <2>5. Close(c, F(P) * w, F(P) * k)
    <3> DEFINE f == F(P)
    <3>1. f \in Int \ {0}
      BY <1>1
    <3> HIDE DEF f
    <3>2. Close(c, f * w, f * k)
      BY <2>3, <2>4, <3>1, CloseScale
    <3> QED
      BY <3>2 DEF f
  <2>6. F(P) * w = w * F(P) /\ abs(F(P2)) = F(P2)
    BY <1>1 DEF abs
  <2>7. 2 * abs(c * F(P2) - w * F(P)) <= F(P2)
    BY <2>2, <2>5, <2>6 DEF Close
  <2> QED
    BY <1>2, <2>4, <2>7 DEF Operand, c, k
<1>3. CASE ~(P2 > P)
  <2> DEFINE k == F(P - P2)
  <2>1. k \in Nat \ {0} /\ F(P) = F(P2) * k
    <3>1. Finer(P2, P)
      BY <1>3, FactorsDivide
    <3> QED
      BY <3>1 DEF Finer
  <2>2. Operand(P, P2, w) = w * k
    BY <1>3 DEF Operand
  <2> HIDE DEF k
  <2>3. (w * k) * F(P2) = w * (F(P2) * k) /\ w * k \in Int /\ w * (F(P2) * k) \in Int
    BY <1>1, <2>1
  <2> DEFINE x == (w * k) * F(P2)
             y == w * F(P)
  <2>4. x = y /\ x \in Int
    BY <2>1, <2>3
  <2> HIDE DEF x, y
  <2>5. 2 * abs(x - y) <= F(P2)
    BY <1>1, <2>4 DEF abs
  <2> QED
    BY <2>2, <2>3, <2>5 DEF x, y
<1> QED
  BY <1>2, <1>3

\* What wrapped around of it does not matter where the result is within the limits.
LEMMA ConvertedIs ==
  \A P, P2 \in Nat, w, v \in Int :
    LET c == Operand(P, P2, w)
    IN  c \in Int =>
          /\ c \in IntMin .. IntMax => Converted(P, "def", P2, w) = c
          /\ v + c \in IntMin .. IntMax => plus(P, "def", v, P2, w) = v + c
          /\ v - c \in IntMin .. IntMax => minus(P, "def", v, P2, w) = v - c
<1> SUFFICES ASSUME NEW P \in Nat, NEW P2 \in Nat, NEW w \in Int, NEW v \in Int,
                    Operand(P, P2, w) \in Int
             PROVE  LET c == Operand(P, P2, w)
                    IN  /\ c \in IntMin .. IntMax => Converted(P, "def", P2, w) = c
                        /\ v + c \in IntMin .. IntMax => plus(P, "def", v, P2, w) = v + c
                        /\ v - c \in IntMin .. IntMax => minus(P, "def", v, P2, w) = v - c
  OBVIOUS
<1> DEFINE c == Operand(P, P2, w)
           x == Converted(P, "def", P2, w)
<1>1. x = c \/ x = Wrapped(c)
  BY DEF Converted, Operand
<1>2. plus(P, "def", v, P2, w) = Wrapped(v + x) /\ minus(P, "def", v, P2, w) = Wrapped(v - x)
  BY DEF plus, minus
<1>3. c \in Int
  OBVIOUS
<1> HIDE DEF c, x
<1>4. c \in IntMin .. IntMax => x = c
  BY <1>1, WrappedIs
<1>5. v + c \in IntMin .. IntMax => Wrapped(v + c) = v + c /\ Wrapped(v + Wrapped(c)) = v + c
  BY <1>3, WrappedIs, WrapsAgain
<1>6. v - c \in IntMin .. IntMax => Wrapped(v - c) = v - c /\ Wrapped(v - Wrapped(c)) = v - c
  BY <1>3, WrappedIs, WrapsAgain
<1> QED
  BY <1>1, <1>2, <1>4, <1>5, <1>6 DEF c, x

\* plus and minus add and subtract it.
LEMMA SumsAreNearest ==
  ASSUME NEW P \in Nat, NEW P2 \in Nat, NEW v \in Int, NEW w \in Int, Room(w, F(P2))
  PROVE  LET left == v * F(P2)  right == w * F(P)
         IN  /\ Fits(left + right, F(P2)) => Nearest(plus(P, "def", v, P2, w), left + right, F(P2))
             /\ Fits(left - right, F(P2)) => Nearest(minus(P, "def", v, P2, w), left - right, F(P2))
<1> DEFINE c == Operand(P, P2, w)
           f == F(P2)
           right == w * F(P)
           left == v * f
           x == c * f
<1>1. f \in Nat \ {0} /\ right \in Int /\ left \in Int
  BY FactorIsPositive
<1>2. c \in Int /\ 2 * abs(x - right) <= f
  BY RoomToRound, OperandIsNearest
<1>6. /\ v + c \in IntMin .. IntMax => plus(P, "def", v, P2, w) = v + c
      /\ v - c \in IntMin .. IntMax => minus(P, "def", v, P2, w) = v - c
  BY <1>2, ConvertedIs
<1> HIDE DEF c, f, right
<1>3. (v + c) * f = left + x /\ (v - c) * f = left - x /\ x \in Int
  BY <1>1, <1>2
<1> HIDE DEF left, x
<1>4. abs((left + x) - (left + right)) = abs(x - right) /\ abs((left - x) - (left - right)) = abs(x - right)
      /\ abs(f) = f
  BY <1>1, <1>3 DEF abs
<1>5. Nearest(v + c, left + right, f) /\ Nearest(v - c, left - right, f)
  BY <1>2, <1>3, <1>4 DEF Nearest
<1>7. left + right \in Int /\ left - right \in Int /\ f \in Int \ {0} /\ v + c \in Int /\ v - c \in Int
  BY <1>1, <1>2, <1>3 DEF left
<1>8. /\ Fits(left + right, f) => v + c \in -IntMax .. IntMax
      /\ Fits(left - right, f) => v - c \in -IntMax .. IntMax
  BY <1>5, <1>7, NearestFits
<1>9. -IntMax .. IntMax \subseteq IntMin .. IntMax
  BY WidthIsPositive
<1> QED
  BY <1>5, <1>6, <1>8, <1>9 DEF left, right, f

\* The parts of a decimal make it up again.
LEMMA Unpacked ==
  ASSUME NEW P \in Nat, NEW v \in IntMin .. IntMax
  PROVE  /\ pack(P, unpack(P, v).before, unpack(P, v).after) = v
         /\ trunc(P, v) = F(P) * Quot(v, F(P)) /\ Quot(v, F(P)) \in Int
<1> DEFINE f == F(P)
           q == Quot(v, f)
           r == Rem(v, f)
<1>1. f \in Int \ {0} /\ (P = 0 => f = 1) /\ v \in Int
  BY FactorIsPositive, Factors
<1> HIDE DEF f
<1>2. q \in Int /\ r \in Int /\ v = (f * q) + r /\ -abs(f) < r /\ r < abs(f)
  BY <1>1, Division, RemainderBounds
<1> HIDE DEF q, r
<1>3. v - r = f * q /\ f * q = q * f /\ f * q \in Int
  BY <1>1, <1>2
<1>4. Quot(f * q, f) = q
  BY <1>1, <1>2, ExactDivision
<1>5. Rem(r, f) = r
  <2> DEFINE z == 0
  <2>1. r = (f * z) + r /\ z \in Int
    BY <1>1, <1>2
  <2> HIDE DEF z
  <2>2. (r >= 0 => r >= 0) /\ (r <= 0 => r <= 0)
    OBVIOUS
  <2> QED
    BY <1>1, <1>2, <2>1, <2>2, OneDivision
<1>6. P = 0 => r = 0
  BY <1>1, <1>2 DEF abs
<1>7. trunc(P, v) = f * q
  BY <1>3 DEF trunc, f, r
<1>8. unpack(P, v) = [before |-> q, after |-> r]
  BY <1>4, <1>7 DEF unpack, f, r
<1>9. unpack(P, v).before = q /\ unpack(P, v).after = r
  BY <1>8
<1>10. pack(P, q, r) = Wrapped(q * f + (IF P > 0 THEN r ELSE 0))
  BY <1>5 DEF pack, f
<1>11. q * f + (IF P > 0 THEN r ELSE 0) = v
  BY <1>2, <1>3, <1>6
<1>12. pack(P, q, r) = v
  BY <1>10, <1>11, WrappedIs
<1> QED
  BY <1>2, <1>7, <1>9, <1>12 DEF f, q

\* A decimal is made of another precision in the same way.
LEMMA InitIsConverted ==
  ASSUME NEW P \in Nat, NEW P2 \in Nat, NEW w \in Int
  PROVE  initWithPrec(P, "def", w, F(P2)) = Converted(P, "def", P2, w)
<1>1. F(P) \in Nat \ {0} /\ F(P2) \in Nat \ {0}
  BY FactorIsPositive
<1>3. ASSUME NEW m \in Nat, NEW n \in Nat, Finer(m, n)
      PROVE  F(m) <= F(n) /\ (m < n => F(m) < F(n)) /\ Quot(F(n), F(m)) = F(n - m)
  <2> DEFINE f == F(m)
             g == F(n - m)
  <2>1. f \in Int \ {0} /\ g \in Int /\ F(n) = f * g
    BY <1>3 DEF Finer
  <2> HIDE DEF f, g
  <2>2. Quot(f * g, f) = g
    BY <2>1, ExactDivision
  <2> QED
    BY <1>3, <2>1, <2>2 DEF Finer, f, g
<1>4. initWithPrec(P, "def", w, F(P2)) = IF P2 > P THEN Converted(P, "def", P2, w) ELSE Wrapped(w * F(P - P2))
  <2>1. CASE P2 > P
    <3>1. Finer(P, P2)
      BY <2>1, FactorsDivide
    <3>2. F(P) < F(P2) /\ Quot(F(P2), F(P)) = F(P2 - P)
      BY <1>3, <2>1, <3>1
    <3>3. ~(F(P) >= F(P2))
      BY <1>1, <3>2
    <3> QED
      BY <2>1, <3>2, <3>3 DEF initWithPrec, Converted
  <2>2. CASE ~(P2 > P)
    <3>1. Finer(P2, P)
      BY <2>2, FactorsDivide
    <3>2. F(P2) <= F(P) /\ Quot(F(P), F(P2)) = F(P - P2)
      BY <1>3, <3>1
    <3>3. F(P) >= F(P2)
      BY <1>1, <3>2
    <3> QED
      BY <2>2, <3>2, <3>3 DEF initWithPrec
  <2> QED
    BY <2>1, <2>2
<1> QED
  BY <1>4 DEF Converted

\* So it is the nearest, if that is within the limits.
LEMMA InitIsNearest ==
  ASSUME NEW P \in Nat, NEW P2 \in Nat, NEW w \in Int, CanRound(P, w, P2), Fits(w * F(P), F(P2))
  PROVE  LET c == initWithPrec(P, "def", w, F(P2))
         IN  c \in -IntMax .. IntMax /\ Nearest(c, w * F(P), F(P2))
<1> DEFINE c == Operand(P, P2, w)
           n == w * F(P)
           d == F(P2)
<1>1. abs(d) = d /\ d \in Int \ {0} /\ n \in Int
  BY FactorIsPositive DEF abs
<1>2. c \in Int /\ Nearest(c, n, d)
  BY <1>1, OperandIsNearest DEF Nearest
<1>3. c \in IntMin .. IntMax => initWithPrec(P, "def", w, F(P2)) = c
  BY <1>2, ConvertedIs, InitIsConverted
<1>4. Fits(n, d)
  OBVIOUS
<1> HIDE DEF c, n, d
<1>5. c \in -IntMax .. IntMax
  BY <1>1, <1>2, <1>4, NearestFits
<1> QED
  BY <1>2, <1>3, <1>5, WidthIsPositive DEF n, d

\* So pack_rounded converts.
LEMMA PackedIsNearest ==
  ASSUME NEW P \in Nat, NEW P2 \in Nat, NEW w \in IntMin .. IntMax, Room(w, F(P2)),
         Fits(w * F(P), F(P2))
  PROVE  Nearest(pack_rounded(P, "def", P2, unpack(P2, w).before, unpack(P2, w).after),
                 w * F(P), F(P2))
<1>1. pack_rounded(P, "def", P2, unpack(P2, w).before, unpack(P2, w).after) =
        initWithPrec(P, "def", w, F(P2))
  BY Unpacked DEF pack_rounded
<1>2. w \in Int
  BY WidthIsPositive
<1> QED
  BY <1>1, <1>2, RoomToRound, InitIsNearest

\* What modulo leaves is, to within a unit, what the exact values leave.
Leaves(P, P2, v, w, m) ==
  /\ abs(m * F(P2) - Rem(v * F(P2), w * F(P))) < F(P2)
  /\ m * v >= 0

LEMMA ModuloIsNear ==
  ASSUME NEW P \in Nat, NEW P2 \in Nat, NEW v \in -IntMax .. IntMax, NEW w \in Int \ {0},
         Fits(v * F(P2), F(P)), Fits(w * F(P), F(P2))
  PROVE  \E m \in Int : modulo(P, v, P2, w) = {m} /\ Leaves(P, P2, v, w, m)
<1> DEFINE f == F(P)
           g == F(P2)
<1>1. f \in Nat \ {0} /\ g \in Nat \ {0} /\ v \in Int
  BY FactorIsPositive, WidthIsPositive
<1>6. ASSUME NEW x \in Int, NEW y \in Int, NEW d \in Nat \ {0}, Fits(x, d), x = y * d
      PROVE  y \in -IntMax .. IntMax /\ Wrapped(y) = y /\ y # IntMin
  <2>1. d \in Int \ {0} /\ abs(d) = d /\ y * d - x = 0 /\ abs(y * d - x) = 0
    BY <1>6 DEF abs
  <2>2. abs(y * d - x) < 2 * abs(d)
    BY <2>1
  <2>3. y \in -IntMax .. IntMax /\ Wrapped(y) = y
    BY <1>6, <2>1, <2>2, NearFits
  <2> QED
    BY <2>3, WidthIsPositive
<1>7. Fits(v * g, f) /\ Fits(w * f, g) /\ v * g \in Int /\ w * f \in Int
  BY <1>1
<1>2. ASSUME NEW m \in Int, v >= 0 => m >= 0, v <= 0 => m <= 0 PROVE m * v >= 0
  <2>1. CASE v >= 0
    BY <1>2, <2>1
  <2>2. CASE v < 0
    <3>1. m <= 0
      BY <1>2, <2>2
    <3> QED
      BY <2>2, <3>1
  <2> QED
    BY <2>1, <2>2
<1>3. CASE P2 > P
  <2> DEFINE k == F(P2 - P)
             a == v * k
             s == Rem(a, w)
             m == Quot(s, k)
             t == Rem(s, k)
  <2>1. k \in Nat \ {0} /\ g = f * k
    <3>1. Finer(P, P2)
      BY <1>3, FactorsDivide
    <3> QED
      BY <3>1 DEF Finer
  <2>2. modulo(P, v, P2, w) =
          IF Traps(Wrapped(a), w) THEN {} ELSE {Quot(Rem(Wrapped(a), w), k)}
    BY <1>3 DEF modulo
  <2> HIDE DEF k, f, g
  <2>3. a \in Int /\ (v >= 0 => a >= 0) /\ (v <= 0 => a <= 0)
    BY <1>1, <2>1
  <2>4. v * g = f * a /\ w * f = f * w
    BY <1>1, <2>1
  <2>15. v * g = a * f
    BY <1>1, <2>1
  <2>16. Wrapped(a) = a /\ a # IntMin
    <3> HIDE DEF a
    <3> QED
      BY <1>1, <1>6, <1>7, <2>3, <2>15
  <2>17. modulo(P, v, P2, w) = {m}
    BY <2>2, <2>16 DEF Traps
  <2> HIDE DEF a
  <2>5. s \in Int /\ (a >= 0 => s >= 0) /\ (a <= 0 => s <= 0)
    BY <2>3, Division
  <2>6. Rem(f * a, f * w) = f * s
    BY <1>1, <2>3, CommonFactor
  <2> HIDE DEF s
  <2>7. /\ m \in Int /\ t \in Int /\ s = (k * m) + t
        /\ s >= 0 => 0 <= t /\ t <= s
        /\ s <= 0 => t <= 0 /\ s <= t
    <3>1. k \in Int \ {0}
      BY <2>1
    <3> QED
      BY <2>5, <3>1, Division
  <2>8. abs(t) < k /\ abs(t) \in Nat
    <3>1. abs(t) < abs(k) /\ abs(k) = k
      BY <2>1, <2>5, RemainderBounds DEF abs
    <3> QED
      BY <2>7, <3>1 DEF abs
  <2> HIDE DEF m, t
  <2>9. (s >= 0 => m >= 0) /\ (s <= 0 => m <= 0)
    <3>1. (s >= 0 => k * m >= 0) /\ (s <= 0 => k * m <= 0)
      BY <2>1, <2>5, <2>7
    <3> QED
      BY <2>1, <2>7, <3>1
  <2>10. m * v >= 0
    BY <1>1, <1>2, <2>3, <2>5, <2>7, <2>9
  <2>11. m * g - f * s = -(f * t) /\ f * t \in Int
    <3>1. f * s = f * (k * m) + f * t /\ f * (k * m) = m * (f * k)
      BY <1>1, <2>1, <2>5, <2>7
    <3> DEFINE x == m * g
    <3>2. x \in Int /\ f * s = x + f * t /\ f * t \in Int
      BY <1>1, <2>1, <2>7, <3>1
    <3> HIDE DEF x
    <3>3. x - f * s = -(f * t)
      BY <3>2
    <3> QED
      BY <3>2, <3>3 DEF x
  <2>12. abs(f * t) < g
    <3>1. abs(f * t) = f * abs(t)
      <4>1. abs(f) = f /\ f \in Int
        BY <1>1 DEF abs
      <4> QED
        BY <2>7, <4>1, AbsProduct
    <3>2. f * abs(t) < f * k
      BY <1>1, <2>1, <2>8
    <3> QED
      BY <2>1, <3>1, <3>2
  <2>13. abs(-(f * t)) = abs(f * t)
    BY <2>11, AbsProduct
  <2>14. abs(m * g - Rem(v * g, w * f)) < g
    BY <2>4, <2>6, <2>11, <2>12, <2>13
  <2> QED
    BY <2>7, <2>10, <2>14, <2>17 DEF f, g, Leaves
<1>4. CASE ~(P2 > P)
  <2> DEFINE k == F(P - P2)
             b == w * k
             m == Rem(v, b)
  <2>1. k \in Nat \ {0} /\ f = g * k
    <3>1. Finer(P2, P)
      BY <1>4, FactorsDivide
    <3> QED
      BY <3>1 DEF Finer
  <2>2. modulo(P, v, P2, w) = IF Traps(v, Wrapped(b)) THEN {} ELSE {Rem(v, Wrapped(b))}
    BY <1>4 DEF modulo
  <2> HIDE DEF k, f, g
  <2>3. b \in Int \ {0}
    BY <2>1
  <2>10. w * f = b * g
    BY <1>1, <2>1
  <2>11. Wrapped(b) = b /\ v # IntMin
    <3>1. v # IntMin
      BY WidthIsPositive
    <3> HIDE DEF b
    <3> QED
      BY <1>1, <1>6, <1>7, <2>3, <2>10, <3>1
  <2>12. modulo(P, v, P2, w) = {m}
    BY <2>2, <2>3, <2>11 DEF Traps
  <2>4. v * g = g * v /\ w * f = g * b
    BY <1>1, <2>1
  <2> HIDE DEF b
  <2>5. m \in Int /\ (v >= 0 => m >= 0) /\ (v <= 0 => m <= 0)
    BY <1>1, <2>3, Division
  <2>6. Rem(g * v, g * b) = g * m
    BY <1>1, <2>3, CommonFactor
  <2> HIDE DEF m
  <2>7. abs(m * g - g * m) = 0
    <3>1. m * g = g * m /\ m * g \in Int
      BY <1>1, <2>5
    <3> DEFINE x == m * g
    <3>2. x \in Int /\ g * m = x
      BY <3>1
    <3> HIDE DEF x
    <3>3. abs(x - x) = 0
      BY <3>2 DEF abs
    <3> QED
      BY <3>2, <3>3 DEF x
  <2>8. abs(m * g - Rem(v * g, w * f)) < g
    BY <1>1, <2>4, <2>6, <2>7
  <2>9. m * v >= 0
    BY <1>2, <2>5
  <2> QED
    BY <2>5, <2>8, <2>9, <2>12 DEF f, g, Leaves
<1> QED
  BY <1>3, <1>4

-----------------------------------------------------------------------------
(* Every call.                                                             *)

\* multDiv and the operators of decimals of any two precisions give the nearest
\* result, whatever their operands, as long as it is within the limits.
THEOREM ArithmeticIsRight == DecimalSpec => []ArithmeticRounds
<1>1. CallInit => ArithmeticRounds
  BY DEF CallInit, ArithmeticRounds, NoCall
<1>2. ArithmeticRounds /\ [DecimalNext]_call => ArithmeticRounds'
  <2> SUFFICES ASSUME ArithmeticRounds, [DecimalNext]_call PROVE ArithmeticRounds'
    OBVIOUS
  <2>1. CASE Round
    BY <2>1 DEF Round, ArithmeticRounds
  <2>2. CASE MultDiv
    <3>1. PICK a \in Factors1, b \in Factors2, d \in Divisors :
            call' = [f |-> "multDiv", a |-> a, b |-> b, d |-> d, results |-> multDiv("def", a, b, d)]
      BY <2>2 DEF MultDiv
    <3>2. a \in Int /\ b \in Int /\ d \in Int \ {0}
      BY DecimalCallsAssumption, ArgumentsAssumption, IntMaxAssumption
    <3>3. Quotient(multDiv("def", a, b, d), a, b, d)
      BY <3>2, MultDivIsQuotient
    <3> QED
      BY <3>1, <3>3 DEF ArithmeticRounds
  <2>3. CASE Arithmetic
    <3>1. PICK P \in Prec, P2 \in Prec2, v \in Units, w \in Units :
            call' = [f |-> "arithmetic", P |-> P, P2 |-> P2, v |-> v, w |-> w,
                     plus |-> plus(P, "def", v, P2, w), minus |-> minus(P, "def", v, P2, w),
                     times |-> times(P, "def", v, P2, w),
                     divide |-> divide(P, "def", v, P2, w),
                     modulo |-> modulo(P, v, P2, w),
                     packed |-> LET u == unpack(P2, w)
                                IN  pack_rounded(P, "def", P2, u.before, u.after)]
      BY <2>3 DEF Arithmetic
    <3>2. /\ P \in Nat /\ P2 \in Nat /\ v \in Int /\ w \in Int
          /\ v \in -IntMax .. IntMax /\ w \in IntMin .. IntMax
      BY DecimalCallsAssumption, WidthIsPositive, FactorsFit
    <3>3. F(P2) \in Nat \ {0}
      BY <3>2, FactorIsPositive
    <3>4. Room(w, F(P2)) =>
            LET left == v * F(P2)  right == w * F(P)
            IN  /\ Fits(left + right, F(P2)) => Nearest(plus(P, "def", v, P2, w), left + right, F(P2))
                /\ Fits(left - right, F(P2)) => Nearest(minus(P, "def", v, P2, w), left - right, F(P2))
                /\ Fits(right, F(P2)) =>
                     Nearest(pack_rounded(P, "def", P2, unpack(P2, w).before, unpack(P2, w).after),
                             right, F(P2))
      BY <3>2, SumsAreNearest, PackedIsNearest
    <3>5. Quotient(times(P, "def", v, P2, w), v, w, F(P2))
      BY <3>2, <3>3, MultDivIsQuotient DEF times
    <3>6. w # 0 => Quotient(divide(P, "def", v, P2, w), v, F(P2), w)
      <4> SUFFICES ASSUME w # 0 PROVE Quotient(divide(P, "def", v, P2, w), v, F(P2), w)
        OBVIOUS
      <4>1. w \in Int \ {0} /\ F(P2) \in Int
        BY <3>2, <3>3
      <4>2. Quotient(multDiv("def", v, F(P2), w), v, F(P2), w)
        BY <3>2, <4>1, MultDivIsQuotient
      <4> QED
        BY <4>2 DEF divide
    <3>7. w # 0 /\ Fits(v * F(P2), F(P)) /\ Fits(w * F(P), F(P2)) =>
            \E m \in Int : modulo(P, v, P2, w) = {m} /\ Leaves(P, P2, v, w, m)
      BY <3>2, ModuloIsNear
    <3> QED
      BY <3>1, <3>4, <3>5, <3>6, <3>7 DEF ArithmeticRounds, Leaves
  <2>4. CASE Whole \/ Construction \/ Text \/ Typed
    BY <2>4, CallsAreNamed DEF ArithmeticRounds
  <2>5. CASE UNCHANGED call
    BY <2>5 DEF ArithmeticRounds
  <2> QED
    BY <2>1, <2>2, <2>3, <2>4, <2>5 DEF DecimalNext
<1> QED
  BY <1>1, <1>2, PTL DEF DecimalSpec

-----------------------------------------------------------------------------
(* Whole numbers around a decimal.                                         *)

\* x is a multiple of f less than one away from v.
Around(x, v, f) == Rem(x, f) = 0 /\ abs(x - v) < f

LEMMA WholesAreAround ==
  ASSUME NEW P \in Nat, NEW v \in Int
  PROVE  /\ Around(trunc(P, v), v, F(P)) /\ abs(trunc(P, v)) <= abs(v)
         /\ Room(v, F(P)) => /\ Around(floor(P, v), v, F(P)) /\ Around(ceil(P, v), v, F(P))
                            /\ floor(P, v) <= v /\ v <= ceil(P, v)
<1> DEFINE f == F(P)
           q == Quot(v, f)
           r == Rem(v, f)
           down == IF r < 0 THEN q - 1 ELSE q
           up == IF r > 0 THEN q + 1 ELSE q
<1>1. f \in Nat \ {0} /\ f \in Int \ {0} /\ abs(f) = f
  BY FactorIsPositive DEF abs
<1>2. /\ trunc(P, v) = v - r
      /\ floor(P, v) = IF r < 0 THEN Wrapped(v - r - f) ELSE v - r
      /\ ceil(P, v) = IF r > 0 THEN Wrapped(v - r + f) ELSE v - r
  BY DEF trunc, floor, ceil
<1> HIDE DEF f
<1>3. /\ q \in Int /\ r \in Int /\ v = (f * q) + r /\ -f < r /\ r < f
      /\ v >= 0 => 0 <= r /\ r <= v
      /\ v <= 0 => r <= 0 /\ v <= r
  <2>1. /\ q \in Int /\ r \in Int /\ v = (f * q) + r
        /\ v >= 0 => 0 <= r /\ r < abs(f) /\ r <= v
        /\ v <= 0 => r <= 0 /\ -abs(f) < r /\ v <= r
    BY <1>1, Division
  <2>2. -abs(f) < r /\ r < abs(f)
    BY <1>1, RemainderBounds
  <2> QED
    BY <1>1, <2>1, <2>2
<1> HIDE DEF q, r
<1>4. f * (q - 1) = (f * q) - f /\ f * (q + 1) = (f * q) + f /\ f * q \in Int
  BY <1>1, <1>3
<1>5. v - r = f * q /\ v - r - (IF r < 0 THEN f ELSE 0) = f * down /\ v - r + (IF r > 0 THEN f ELSE 0) = f * up
      /\ down \in Int /\ up \in Int
  BY <1>1, <1>3, <1>4
<1> HIDE DEF down, up
<1>6. Rem(f * q, f) = 0 /\ Rem(f * down, f) = 0 /\ Rem(f * up, f) = 0
  BY <1>1, <1>3, <1>5, ExactDivision
<1> DEFINE low == v - r - (IF r < 0 THEN f ELSE 0)
           high == v - r + (IF r > 0 THEN f ELSE 0)
<1>7. /\ abs((v - r) - v) < f /\ abs(low - v) < f /\ abs(high - v) < f
      /\ low <= v /\ v <= high /\ abs(v - r) <= abs(v)
  BY <1>1, <1>3 DEF abs
<1>9. Room(v, f) => v - r - f \in IntMin .. IntMax \/ ~(r < 0)
  BY <1>1, <1>3, WidthIsPositive DEF Room
<1>10. Room(v, f) => v - r + f \in IntMin .. IntMax \/ ~(r > 0)
  BY <1>1, <1>3, WidthIsPositive DEF Room
<1>11. Room(v, f) => floor(P, v) = low /\ ceil(P, v) = high
  <2>1. Room(v, f) /\ r < 0 => floor(P, v) = v - r - f
    BY <1>2, <1>9, WrappedIs
  <2>2. Room(v, f) /\ r > 0 => ceil(P, v) = v - r + f
    BY <1>2, <1>10, WrappedIs
  <2>3. (~(r < 0) => floor(P, v) = v - r /\ low = v - r) /\ (~(r > 0) => ceil(P, v) = v - r /\ high = v - r)
    BY <1>2, <1>3
  <2>4. (r < 0 => low = v - r - f) /\ (r > 0 => high = v - r + f)
    OBVIOUS
  <2> QED
    BY <2>1, <2>2, <2>3, <2>4
<1>8. Around(v - r, v, f) /\ Around(low, v, f) /\ Around(high, v, f)
  <2>1. v - r = f * q /\ low = f * down /\ high = f * up
    BY <1>5
  <2> HIDE DEF low, high
  <2> QED
    BY <1>6, <1>7, <2>1 DEF Around
<1> QED
  BY <1>2, <1>7, <1>8, <1>11 DEF f

LEMMA RoundedIsWhole ==
  ASSUME NEW P \in Nat, NEW v \in Int, Room(v, F(P))
  PROVE  Rem(RoundedWhole(P, "def", v), F(P)) = 0 /\ 2 * abs(RoundedWhole(P, "def", v) - v) <= F(P)
<1> DEFINE f == F(P)
           z == div_rounded("def", v, f).output
<1>1. f \in Int \ {0} /\ abs(f) = f /\ f \in Nat \ {0}
  BY FactorIsPositive DEF abs
<1>2. RoundedWhole(P, "def", v) = Wrapped(f * z)
  BY DEF RoundedWhole, setAsInteger, getAsInteger
<1> HIDE DEF f
<1>3. Room(v, abs(f))
  BY <1>1 DEF f
<1>4. z \in Int /\ Close(z, v, f)
  BY <1>1, <1>3, DefIsClose
<1> HIDE DEF z
<1>5. Rem(f * z, f) = 0
  BY <1>1, <1>4, ExactDivision
<1> DEFINE p == f * z
<1>6. p = z * f /\ p \in Int
  BY <1>1, <1>4
<1>7. 2 * abs(p - v) <= f
  BY <1>1, <1>4, <1>6 DEF Close
<1> HIDE DEF p
<1>8. p \in IntMin .. IntMax
  BY <1>1, <1>3, <1>6, <1>7, WidthIsPositive DEF Room, abs
<1>9. RoundedWhole(P, "def", v) = p
  BY <1>2, <1>8, WrappedIs DEF p
<1> QED
  BY <1>5, <1>7, <1>9 DEF f, p

-----------------------------------------------------------------------------
(* Mantissa and exponent.                                                  *)

LEMMA FactorIsGreater == \A n \in Nat : F(n) > n
<1> DEFINE S == {n \in Nat : F(n) > n}
<1>1. 0 \in S
  BY Factors
<1>2. \A n \in Nat : n \in S => n + 1 \in S
  BY Factors, FactorIsPositive
<1>3. \A n \in Nat : n \in S
  <2> HIDE DEF S
  <2> QED
    BY <1>1, <1>2, Induction
<1> QED
  BY <1>3

\* A smaller number leaves itself.
LEMMA LeavesItself ==
  ASSUME NEW v \in Int, NEW b \in Nat \ {0}, abs(v) < b
  PROVE  Rem(v, b) = v
<1> DEFINE z == 0
<1>1. v = (b * z) + v /\ z \in Int /\ -abs(b) < v /\ v < abs(b) /\ b \in Int \ {0}
  BY DEF abs
<1>2. (v >= 0 => v >= 0) /\ (v <= 0 => v <= 0)
  OBVIOUS
<1> HIDE DEF z
<1> QED
  BY <1>1, <1>2, OneDivision

\* The zeros at the end of a number are as many as it has.
LEMMA ZerosAre ==
  ASSUME NEW v \in Int
  PROVE  Zeros(v) \in Nat /\ Rem(v, F(Zeros(v))) = 0
<1>1. ASSUME NEW u \in Int PROVE Rem(u, F(0)) = 0
  <2>1. F(0) = 1 /\ u = F(0) * u
    BY Factors
  <2>2. Rem(1 * u, 1) = 0
    BY ExactDivision
  <2> QED
    BY <2>1, <2>2
<1>2. CASE v = 0
  BY <1>1, <1>2 DEF Zeros
<1>3. CASE v # 0
  <2> DEFINE S == {n \in Nat : Rem(v, F(n + 1)) # 0}
             m == abs(v)
  <2>1. m \in Nat
    BY DEF abs
  <2>2. m \in S
    <3>1. F(m + 1) \in Nat \ {0} /\ F(m + 1) > m + 1
      <4>1. m + 1 \in Nat
        BY <2>1
      <4> QED
        BY <4>1, FactorIsPositive, FactorIsGreater
    <3>2. m < F(m + 1)
      BY <2>1, <3>1
    <3>3. Rem(v, F(m + 1)) = v
      BY <3>1, <3>2, LeavesItself
    <3> QED
      BY <1>3, <2>1, <3>3
  <2>3. S \subseteq Nat
    OBVIOUS
  <2> HIDE DEF m
  <2>4. PICK n \in S : \A i \in S : ~(i < n)
    <3> HIDE DEF S
    <3> QED
      BY <2>2, <2>3, LeastNatural
  <2>5. n \in 0 .. m
    BY <2>1, <2>2, <2>4
  <2>6. Rem(v, F(n)) = 0
    <3>1. CASE n = 0
      BY <1>1, <3>1
    <3>2. CASE n # 0
      <4>1. n - 1 \in Nat /\ n - 1 \notin S /\ (n - 1) + 1 = n
        BY <2>4, <3>2
      <4> QED
        BY <4>1
    <3> QED
      BY <3>1, <3>2
  <2>7. \E i \in 0 .. m : Rem(v, F(i)) = 0 /\ Rem(v, F(i + 1)) # 0
    BY <2>4, <2>5, <2>6
  <2>8. Zeros(v) = CHOOSE i \in 0 .. m : Rem(v, F(i)) = 0 /\ Rem(v, F(i + 1)) # 0
    BY <1>3 DEF Zeros, m
  <2>9. Zeros(v) \in 0 .. m /\ Rem(v, F(Zeros(v))) = 0
    BY <2>7, <2>8
  <2> QED
    BY <2>1, <2>9
<1> QED
  BY <1>2, <1>3

LEMMA ExponentIsRight ==
  ASSUME NEW P \in Nat, NEW v \in IntMin .. IntMax, HasExponent(P, getWithExponent(P, v).exponent)
  PROVE  setWithExponent(P, "def", getWithExponent(P, v).mantissa, getWithExponent(P, v).exponent) = v
<1> DEFINE z == Zeros(v)
           f == F(z)
           e == z - P
           m == Quot(v, f)
<1>1. z \in Nat /\ Rem(v, f) = 0 /\ v \in Int
  BY ZerosAre, WidthIsPositive
<1>2. getWithExponent(P, v).mantissa = m /\ getWithExponent(P, v).exponent = e
  BY DEF getWithExponent
<1> HIDE DEF z
<1>3. e + P = z
  BY <1>1
<1>4. f \in Int \ {0}
  BY <1>1, FactorIsPositive
<1>5. m \in Int /\ v = f * m
  <2>1. m \in Int /\ v = (f * m) + Rem(v, f)
    BY <1>1, <1>4, Division
  <2> HIDE DEF m, f
  <2> QED
    BY <1>1, <1>4, <2>1 DEF f
<1> HIDE DEF m, e
<1>6. abs(z) <= MaxPoints /\ ~(z < 0)
  BY <1>1, <1>2, <1>3 DEF HasExponent
<1>7. pow10(z) = f
  BY <1>1, <1>6, DecimalAssumption DEF pow10, F, abs
<1>8. setWithExponent(P, "def", m, e) = Wrapped(m * f)
  BY <1>3, <1>6, <1>7 DEF setWithExponent
<1> HIDE DEF f
<1>9. m * f = v
  BY <1>4, <1>5
<1> QED
  BY <1>2, <1>8, <1>9, WrappedIs

\* A decimal's whole numbers lie around it and its parts make it up again,
\* whatever its precision and its value, as long as there is room for one more.
THEOREM WholesAreRight == DecimalSpec => []WholeAround
<1>1. CallInit => WholeAround
  BY DEF CallInit, WholeAround, NoCall
<1>2. WholeAround /\ [DecimalNext]_call => WholeAround'
  <2> SUFFICES ASSUME WholeAround, [DecimalNext]_call PROVE WholeAround'
    OBVIOUS
  <2>1. CASE Round \/ MultDiv \/ Arithmetic \/ Construction \/ Text \/ Typed
    BY <2>1, CallsAreNamed DEF WholeAround
  <2>2. CASE Whole
    <3>1. PICK P \in Prec, v \in Units :
            call' = [f |-> "whole", P |-> P, v |-> v, trunc |-> trunc(P, v),
                     floor |-> floor(P, v), ceil |-> ceil(P, v),
                     round |-> RoundedWhole(P, "def", v), unpacked |-> unpack(P, v),
                     sign |-> signOf(v), abs |-> absolute(v),
                     exponent |-> getWithExponent(P, v)]
      BY <2>2 DEF Whole
    <3>2. P \in Nat /\ v \in Int /\ v \in IntMin .. IntMax
      BY DecimalCallsAssumption, WidthIsPositive, FactorsFit
    <3>3. Rem(trunc(P, v), F(P)) = 0 /\ abs(trunc(P, v) - v) < F(P) /\ abs(trunc(P, v)) <= abs(v)
      BY <3>2, WholesAreAround DEF Around
    <3>4. Room(v, F(P)) =>
            /\ \A x \in {floor(P, v), ceil(P, v)} : Rem(x, F(P)) = 0 /\ abs(x - v) < F(P)
            /\ floor(P, v) <= v /\ v <= ceil(P, v)
      BY <3>2, WholesAreAround DEF Around
    <3>5. Room(v, F(P)) => /\ Rem(RoundedWhole(P, "def", v), F(P)) = 0
                           /\ 2 * abs(RoundedWhole(P, "def", v) - v) <= F(P)
      BY <3>2, RoundedIsWhole
    <3>6. absolute(v) = signOf(v) * v
      BY <3>2 DEF absolute, signOf
    <3>8. pack(P, unpack(P, v).before, unpack(P, v).after) = v
      BY <3>2, Unpacked
    <3>9. HasExponent(P, getWithExponent(P, v).exponent) =>
            setWithExponent(P, "def", getWithExponent(P, v).mantissa, getWithExponent(P, v).exponent) = v
      BY <3>2, ExponentIsRight
    <3> QED
      BY <3>1, <3>3, <3>4, <3>5, <3>6, <3>8, <3>9 DEF WholeAround
  <2>3. CASE UNCHANGED call
    BY <2>3 DEF WholeAround
  <2> QED
    BY <2>1, <2>2, <2>3 DEF DecimalNext
<1> QED
  BY <1>1, <1>2, PTL DEF DecimalSpec

-----------------------------------------------------------------------------
(* Texts.                                                                  *)

\* What holds of the empty sequence, and of one with an element more where it
\* holds without, holds of all.
LEMMA AppendInduction ==
  ASSUME NEW S, NEW T, <<>> \in T, \A s \in Seq(S), c \in S : s \in T => Append(s, c) \in T
  PROVE  \A s \in Seq(S) : s \in T
<1> DEFINE N == {n \in Nat : \A s \in Seq(S) : Len(s) = n => s \in T}
<1>1. 0 \in N
  BY EmptySeq
<1>2. ASSUME NEW n \in Nat, n \in N PROVE n + 1 \in N
  <2> SUFFICES ASSUME NEW s \in Seq(S), Len(s) = n + 1 PROVE s \in T
    BY <1>2
  <2> DEFINE r == SubSeq(s, 1, n)
             c == s[n + 1]
  <2>1. r \in Seq(S) /\ Len(r) = n /\ c \in S /\ Append(r, c) = s
    BY <1>2
  <2> HIDE DEF r, c
  <2>2. r \in T
    BY <1>2, <2>1
  <2> QED
    BY <2>1, <2>2
<1> HIDE DEF N
<1>3. \A n \in Nat : n \in N
  BY <1>1, <1>2, Induction
<1> QED
  BY <1>3 DEF N

CharTexts == Seq(Nat)
Length == [s \in CharTexts |-> Len(s)]
AmountStep(g, s) ==
  IF s = <<>> THEN 0
  ELSE IF Last(s) \in Digits THEN 10 * g[Front(s)] + Last(s) ELSE g[Front(s)]

LEMMA FrontAndLast ==
  ASSUME NEW s \in CharTexts, s # <<>>
  PROVE  Front(s) \in CharTexts /\ Len(Front(s)) < Len(s)
  BY DEF Front, CharTexts

LEMMA AmountIs == Amount = [s \in CharTexts |-> AmountStep(Amount, s)]
<1>1. Length \in [CharTexts -> Nat]
  BY DEF Length, CharTexts
<1>2. IsWellFoundedOn(Smaller(Length, CharTexts), CharTexts)
  BY <1>1, MeasureIsWellFounded
<1>3. WFDefOn(Smaller(Length, CharTexts), CharTexts, AmountStep)
  <2> SUFFICES ASSUME NEW g, NEW h, NEW s \in CharTexts,
                      \A y \in SetLessThan(s, Smaller(Length, CharTexts), CharTexts) : g[y] = h[y]
               PROVE  AmountStep(g, s) = AmountStep(h, s)
    BY DEF WFDefOn
  <2>1. s # <<>> => Front(s) \in SetLessThan(s, Smaller(Length, CharTexts), CharTexts)
    BY FrontAndLast DEF SetLessThan, Smaller, Length
  <2> QED
    BY <2>1 DEF AmountStep
<1>4. OpDefinesFcn(Amount, CharTexts, AmountStep)
  BY DEF OpDefinesFcn, Amount, AmountStep, CharTexts
<1>5. WFInductiveDefines(Amount, CharTexts, AmountStep)
  BY <1>2, <1>3, <1>4, WFInductiveDef
<1> QED
  BY <1>5 DEF WFInductiveDefines

LEMMA Appended ==
  ASSUME NEW s \in CharTexts, NEW c \in Nat
  PROVE  LET t == Append(s, c)
         IN  t \in CharTexts /\ t # <<>> /\ Front(t) = s /\ Last(t) = c /\ Len(t) = Len(s) + 1
  BY DEF Front, Last, CharTexts

\* One character more.
LEMMA AmountOfAppend ==
  /\ Amount[<<>>] = 0
  /\ \A s \in CharTexts, c \in Nat :
       Amount[Append(s, c)] = IF c \in Digits THEN 10 * Amount[s] + c ELSE Amount[s]
<1>1. <<>> \in CharTexts
  BY DEF CharTexts
<1>2. Amount[<<>>] = 0
  BY <1>1, AmountIs DEF AmountStep
<1>3. ASSUME NEW s \in CharTexts, NEW c \in Nat
      PROVE  Amount[Append(s, c)] = IF c \in Digits THEN 10 * Amount[s] + c ELSE Amount[s]
  <2> DEFINE t == Append(s, c)
  <2>1. t \in CharTexts /\ t # <<>> /\ Front(t) = s /\ Last(t) = c
    BY Appended
  <2> HIDE DEF t
  <2>2. Amount[t] = AmountStep(Amount, t)
    BY <2>1, AmountIs
  <2>3. Amount[t] = IF c \in Digits THEN 10 * Amount[s] + c ELSE Amount[s]
    BY <2>1, <2>2 DEF AmountStep
  <2> QED
    BY <2>3 DEF t
<1> QED
  BY <1>2, <1>3

LEMMA AmountIsNat == \A s \in CharTexts : Amount[s] \in Nat
<1> DEFINE T == {s \in CharTexts : Amount[s] \in Nat}
<1>1. <<>> \in T
  BY AmountOfAppend DEF CharTexts
<1>2. ASSUME NEW s \in Seq(Nat), NEW c \in Nat, s \in T PROVE Append(s, c) \in T
  BY <1>2, AmountOfAppend, Appended DEF CharTexts
<1> HIDE DEF T
<1>3. \A s \in Seq(Nat) : s \in T
  BY <1>1, <1>2, AppendInduction
<1> QED
  BY <1>3 DEF T, CharTexts

\* A text goes on in the same way behind two beginnings of the same amount.
LEMMA AmountGoesOn ==
  ASSUME NEW s \in CharTexts, NEW r \in CharTexts, Amount[s] = Amount[r]
  PROVE  \A t \in CharTexts : Amount[s \o t] = Amount[r \o t]
<1> DEFINE T == {t \in CharTexts : Amount[s \o t] = Amount[r \o t]}
<1>1. <<>> \in T
  <2>1. s \o <<>> = s /\ r \o <<>> = r /\ <<>> \in CharTexts
    BY DEF CharTexts
  <2> QED
    BY <2>1
<1>2. ASSUME NEW t \in Seq(Nat), NEW c \in Nat, t \in T PROVE Append(t, c) \in T
  <2>1. /\ s \o Append(t, c) = Append(s \o t, c) /\ r \o Append(t, c) = Append(r \o t, c)
        /\ s \o t \in CharTexts /\ r \o t \in CharTexts /\ Append(t, c) \in CharTexts
    BY DEF CharTexts
  <2>2. Amount[s \o t] = Amount[r \o t]
    BY <1>2
  <2>3. Amount[Append(s \o t, c)] = Amount[Append(r \o t, c)]
    BY <2>1, <2>2, AmountOfAppend
  <2> QED
    BY <2>1, <2>3
<1> HIDE DEF T
<1>3. \A t \in Seq(Nat) : t \in T
  BY <1>1, <1>2, AppendInduction
<1> QED
  BY <1>3 DEF T, CharTexts

\* Digits at the end of a text.
LEMMA AmountOfDigits ==
  ASSUME NEW s \in CharTexts
  PROVE  \A t \in Seq(Digits) : /\ Amount[s \o t] = Amount[s] * F(Len(t)) + Amount[t]
                                /\ Amount[t] < F(Len(t))
<1> DEFINE Right(t) == Amount[s \o t] = Amount[s] * F(Len(t)) + Amount[t] /\ Amount[t] < F(Len(t))
           T == {t \in Seq(Digits) : Right(t)}
<1>1. <<>> \in T
  <2>1. s \o <<>> = s /\ <<>> \in Seq(Digits) /\ Len(<<>>) = 0
    BY DEF CharTexts
  <2>2. Amount[s] \in Nat /\ F(0) = 1 /\ Amount[<<>>] = 0
    BY AmountIsNat, Factors, AmountOfAppend
  <2>3. Amount[s] = Amount[s] * 1 + 0
    BY <2>2
  <2> QED
    BY <2>1, <2>2, <2>3
<1>2. ASSUME NEW t \in Seq(Digits), NEW c \in Digits, t \in T PROVE Append(t, c) \in T
  <2> DEFINE n == Len(t)
             u == Append(t, c)
  <2>1. /\ s \o u = Append(s \o t, c) /\ s \o t \in CharTexts /\ u \in Seq(Digits)
        /\ t \in CharTexts /\ c \in Nat /\ Len(u) = n + 1 /\ n \in Nat
    BY DEF CharTexts, Digits
  <2> HIDE DEF n, u
  <2>2. Amount[s \o t] = Amount[s] * F(n) + Amount[t] /\ Amount[t] < F(n)
    BY <1>2 DEF n
  <2>3. F(n + 1) = 10 * F(n) /\ F(n) \in Nat /\ Amount[s] \in Nat /\ Amount[t] \in Nat
    BY <2>1, Factors, FactorIsPositive, AmountIsNat
  <2>4. Amount[s \o u] = 10 * Amount[s \o t] + c /\ Amount[u] = 10 * Amount[t] + c
    BY <2>1, AmountOfAppend DEF u
  <2>5. c \in 0 .. 9
    BY DEF Digits
  <2> DEFINE a == Amount[s]
             b == Amount[t]
             f == F(n)
  <2>6. 10 * (a * f + b) + c = a * (10 * f) + (10 * b + c)
    <3> HIDE DEF a, b, f
    <3>1. a \in Nat /\ b \in Nat /\ f \in Nat
      BY <2>3 DEF a, b, f
    <3> QED
      BY <2>5, <3>1
  <2>7. Right(u)
    BY <2>1, <2>2, <2>3, <2>4, <2>5, <2>6
  <2> QED
    BY <2>1, <2>7 DEF u
<1> HIDE DEF T
<1>3. \A t \in Seq(Digits) : t \in T
  BY <1>1, <1>2, AppendInduction
<1> QED
  BY <1>3 DEF T

-----------------------------------------------------------------------------
(* Writing.                                                                *)

Itself == [n \in Nat |-> n]
WrittenStep(g, n) == IF n < 10 THEN <<n>> ELSE Append(g[n \div 10], n % 10)

\* Every digit taken off makes the number smaller.
LEMMA Tenth ==
  ASSUME NEW n \in Nat
  PROVE  /\ n \div 10 \in Nat /\ n % 10 \in Digits /\ n = 10 * (n \div 10) + (n % 10)
         /\ n >= 10 => n \div 10 < n
  BY DEF Digits

LEMMA WrittenIs == Written = [n \in Nat |-> WrittenStep(Written, n)]
<1>1. Itself \in [Nat -> Nat]
  BY DEF Itself
<1>2. IsWellFoundedOn(Smaller(Itself, Nat), Nat)
  BY <1>1, MeasureIsWellFounded
<1>3. WFDefOn(Smaller(Itself, Nat), Nat, WrittenStep)
  <2> SUFFICES ASSUME NEW g, NEW h, NEW n \in Nat,
                      \A y \in SetLessThan(n, Smaller(Itself, Nat), Nat) : g[y] = h[y]
               PROVE  WrittenStep(g, n) = WrittenStep(h, n)
    BY DEF WFDefOn
  <2>1. n >= 10 => n \div 10 \in SetLessThan(n, Smaller(Itself, Nat), Nat)
    BY Tenth DEF SetLessThan, Smaller, Itself
  <2> QED
    BY <2>1 DEF WrittenStep
<1>4. OpDefinesFcn(Written, Nat, WrittenStep)
  BY DEF OpDefinesFcn, Written, WrittenStep
<1>5. WFInductiveDefines(Written, Nat, WrittenStep)
  BY <1>2, <1>3, <1>4, WFInductiveDef
<1> QED
  BY <1>5 DEF WFInductiveDefines

\* s are digits of n, and no more than n needs.
Writes(s, n) ==
  /\ s \in Seq(Digits) /\ s # <<>> /\ Amount[s] = n
  /\ \A k \in Nat : n < F(k + 1) => Len(s) <= k + 1

LEMMA OneDigitWrites ==
  ASSUME NEW n \in Digits
  PROVE  Writes(<<n>>, n)
<1> DEFINE s == <<n>>
<1>1. s \in Seq(Digits) /\ s # <<>> /\ Len(s) = 1 /\ s = Append(<<>>, n) /\ <<>> \in CharTexts /\ n \in Nat
  BY DEF Digits, CharTexts
<1>2. Amount[s] = 10 * 0 + n
  BY <1>1, AmountOfAppend
<1> HIDE DEF s
<1>3. Writes(s, n)
  BY <1>1, <1>2 DEF Writes
<1> QED
  BY <1>3 DEF s

LEMMA DigitsAreChars == Seq(Digits) \subseteq CharTexts
  BY DEF Digits, CharTexts

LEMMA OneMoreWrites ==
  ASSUME NEW n \in Nat, n >= 10, NEW s, Writes(s, n \div 10)
  PROVE  Writes(Append(s, n % 10), n)
<1> DEFINE m == n \div 10
           d == n % 10
           t == Append(s, d)
<1>1. m \in Nat /\ d \in Digits /\ n = 10 * m + d /\ d \in Nat
  BY Tenth DEF Digits
<1>2. Writes(s, m)
  OBVIOUS
<1> HIDE DEF m, d
<1>3. s \in Seq(Digits) /\ s \in CharTexts /\ Amount[s] = m
  BY <1>2, DigitsAreChars DEF Writes
<1>4. t \in Seq(Digits) /\ t # <<>> /\ Len(t) = Len(s) + 1 /\ Len(s) \in Nat
  BY <1>1, <1>3
<1>5. Amount[t] = n
  BY <1>1, <1>3, AmountOfAppend
<1>6. ASSUME NEW k \in Nat, n < F(k + 1) PROVE Len(t) <= k + 1
  <2>1. CASE k = 0
    <3>1. F(0 + 1) = 10 * F(0) /\ F(0) = 1
      BY Factors
    <3> QED
      BY <1>6, <2>1, <3>1
  <2>2. CASE k # 0
    <3>1. k - 1 \in Nat /\ (k - 1) + 1 = k
      BY <2>2
    <3>2. F(k + 1) = 10 * F(k) /\ F(k) \in Nat
      BY Factors, FactorIsPositive
    <3>3. m < F((k - 1) + 1)
      BY <1>1, <1>6, <3>1, <3>2
    <3>4. Len(s) <= (k - 1) + 1
      BY <1>2, <3>1, <3>3 DEF Writes
    <3> QED
      BY <1>4, <3>4
  <2> QED
    BY <2>1, <2>2
<1> HIDE DEF t
<1>7. Writes(t, n)
  BY <1>4, <1>5, <1>6 DEF Writes
<1> QED
  BY <1>7 DEF t, d

\* operator<< writes a number's digits.
LEMMA WrittenWrites == \A n \in Nat : Writes(Written[n], n)
<1> DEFINE T == {n \in Nat : ~Writes(Written[n], n)}
<1> SUFFICES ASSUME T # {} PROVE FALSE
  OBVIOUS
<1>1. PICK n \in T : \A m \in T : ~(m < n)
  <2>1. T \subseteq Nat
    OBVIOUS
  <2> HIDE DEF T
  <2> QED
    BY <2>1, LeastNatural
<1>2. CASE n < 10
  <2>1. Written[n] = <<n>> /\ n \in Digits
    BY <1>2, WrittenIs DEF WrittenStep, Digits
  <2> QED
    BY <2>1, OneDigitWrites
<1>3. CASE n >= 10
  <2>1. n \div 10 \in Nat /\ n \div 10 < n
    BY <1>3, Tenth
  <2>2. Writes(Written[n \div 10], n \div 10)
    BY <1>1, <2>1
  <2>3. Written[n] = Append(Written[n \div 10], n % 10)
    <3>1. ~(n < 10)
      BY <1>3
    <3> QED
      BY <3>1, WrittenIs DEF WrittenStep
  <2> QED
    BY <1>3, <2>2, <2>3, OneMoreWrites
<1> QED
  BY <1>2, <1>3

LEMMA ZerosAreNothing ==
  \A n \in Nat : Fill(n) \in Seq(Digits) /\ Len(Fill(n)) = n /\ Amount[Fill(n)] = 0
<1> DEFINE Right(n) == Fill(n) \in Seq(Digits) /\ Len(Fill(n)) = n /\ Amount[Fill(n)] = 0
           S == {n \in Nat : Right(n)}
<1>1. 0 \in S
  <2>1. Fill(0) = <<>> /\ <<>> \in Seq(Digits) /\ Len(<<>>) = 0
    BY DEF Fill
  <2> QED
    BY <2>1, AmountOfAppend
<1>2. ASSUME NEW n \in Nat, n \in S PROVE n + 1 \in S
  <2>1. /\ Fill(n) \in Seq(Digits) /\ Fill(n) \in CharTexts /\ Len(Fill(n)) = n
        /\ Fill(n + 1) \in Seq(Digits) /\ Len(Fill(n + 1)) = n + 1 /\ 0 \in Digits
    BY <1>2, DigitsAreChars DEF Digits, Fill
  <2>2. Fill(n + 1) = Append(Fill(n), 0)
    <3>1. Append(Fill(n), 0) \in Seq(Digits) /\ Len(Append(Fill(n), 0)) = n + 1
          /\ \A i \in 1 .. n + 1 : Append(Fill(n), 0)[i] = 0 /\ Fill(n + 1)[i] = 0
      BY <2>1 DEF Fill
    <3> QED
      BY <2>1, <3>1, SeqEqual
  <2>3. Amount[Append(Fill(n), 0)] = 10 * Amount[Fill(n)] + 0 /\ Amount[Fill(n)] = 0
    BY <1>2, <2>1, AmountOfAppend
  <2>4. Amount[Fill(n + 1)] = 10 * Amount[Fill(n)] + 0
    BY <2>2, <2>3, Zenon
  <2>5. Amount[Fill(n + 1)] = 0
    BY <2>3, <2>4
  <2> QED
    BY <2>1, <2>5
<1> HIDE DEF S
<1>3. \A n \in Nat : n \in S
  BY <1>1, <1>2, Induction
<1> QED
  BY <1>3 DEF S

\* setw and setfill put zeros in front until there are n characters.
LEMMA PaddedWrites ==
  ASSUME NEW x \in Nat, NEW n \in Nat, x < F(n + 1)
  PROVE  LET t == Padded(Written[x], n + 1)
         IN  t \in Seq(Digits) /\ Len(t) = n + 1 /\ Amount[t] = x
<1> DEFINE w == Written[x]
           k == (n + 1) - Len(w)
           z == Fill(k)
<1>7. Padded(Written[x], n + 1) = z \o w
  BY DEF Padded
<1>1. w \in Seq(Digits) /\ Amount[w] = x /\ Len(w) <= n + 1 /\ Len(w) \in Nat
  BY WrittenWrites DEF Writes
<1>8. k + Len(w) = n + 1
  BY <1>1
<1> HIDE DEF w
<1>2. k \in Nat
  BY <1>1
<1> HIDE DEF k
<1>3. z \in Seq(Digits) /\ Amount[z] = 0 /\ Len(z) = k
  BY <1>2, ZerosAreNothing
<1> HIDE DEF z
<1>4. z \in CharTexts /\ <<>> \in CharTexts /\ Amount[<<>>] = 0 /\ w \in CharTexts /\ <<>> \o w = w
  BY <1>1, <1>3, DigitsAreChars, AmountOfAppend DEF CharTexts
<1>5. Amount[z \o w] = x
  <2>1. Amount[z] = Amount[<<>>]
    BY <1>3, <1>4
  <2>2. Amount[z \o w] = Amount[<<>> \o w]
    BY <1>4, <2>1, AmountGoesOn
  <2> QED
    BY <1>1, <1>4, <2>2, Zenon
<1>6. z \o w \in Seq(Digits) /\ Len(z \o w) = k + Len(w)
  BY <1>1, <1>3
<1> QED
  BY <1>5, <1>6, <1>7, <1>8

-----------------------------------------------------------------------------
(* Digits in groups.                                                       *)

HowMany == [g \in DigitGroups |-> Len(g.digits)]

IsOne(g) == g.grouping = <<>> \/ Len(g.digits) - g.grouping[1] <= 0
Fewer(g) == [g EXCEPT !.digits = SubSeq(g.digits, 1, Len(g.digits) - g.grouping[1]),
                      !.grouping = IF Len(g.grouping) > 1 THEN Tail(g.grouping) ELSE g.grouping]
LastGroup(g) == SubSeq(g.digits, (Len(g.digits) - g.grouping[1]) + 1, Len(g.digits))
GroupedStep(f, g) == IF IsOne(g) THEN g.digits ELSE f[Fewer(g)] \o <<g.sep>> \o LastGroup(g)

\* A group of digits taken off leaves others.
LEMMA GroupTakenOff ==
  ASSUME NEW g \in DigitGroups, ~IsOne(g)
  PROVE  /\ Fewer(g) \in DigitGroups /\ Fewer(g).sep = g.sep
         /\ Fewer(g).digits # <<>> /\ Len(Fewer(g).digits) < Len(g.digits)
         /\ LastGroup(g) \in Seq(Digits)
         /\ Fewer(g).digits \o LastGroup(g) = g.digits
<1> DEFINE s == g.grouping
           d == g.digits
           m == Len(d) - s[1]
           r == Fewer(g)
<1>1. s \in Seq(Nat \ {0}) /\ d \in Seq(Digits) /\ g.sep \in Nat
  BY DEF DigitGroups
<1>2. s # <<>> /\ ~(m <= 0)
  BY DEF IsOne
<1>3. s[1] \in Nat \ {0} /\ Len(d) \in Nat /\ m \in Nat \ {0} /\ m < Len(d)
  <2>1. s[1] \in Nat \ {0} /\ Len(d) \in Nat
    BY <1>1, <1>2
  <2> HIDE DEF s, d
  <2>2. m = Len(d) - s[1]
    OBVIOUS
  <2> HIDE DEF m
  <2> QED
    BY <1>2, <2>1, <2>2
<1>10. LastGroup(g) = SubSeq(d, m + 1, Len(d))
  BY Zenon DEF LastGroup
<1> DEFINE ss == IF Len(s) > 1 THEN Tail(s) ELSE s
           dd == SubSeq(d, 1, m)
<1>11. r = [g EXCEPT !.digits = dd, !.grouping = ss]
  BY Zenon DEF Fewer
<1>4. /\ r.digits = dd /\ r.grouping = ss
      /\ r.sep = g.sep
      /\ r = [digits |-> r.digits, grouping |-> r.grouping, sep |-> r.sep]
  <2>1. g = [digits |-> g.digits, grouping |-> g.grouping, sep |-> g.sep]
    BY DEF DigitGroups
  <2> HIDE DEF r, dd, ss
  <2> QED
    BY <1>11, <2>1
<1> HIDE DEF dd, ss
<1> HIDE DEF s, d, m, r
<1>5. (IF Len(s) > 1 THEN Tail(s) ELSE s) \in Seq(Nat \ {0})
  BY <1>1, <1>2
<1>6. SubSeq(d, 1, m) \in Seq(Digits) /\ Len(SubSeq(d, 1, m)) = m /\ SubSeq(d, m + 1, Len(d)) \in Seq(Digits)
  BY <1>1, <1>3
<1>7. SubSeq(d, 1, m) \o SubSeq(d, m + 1, Len(d)) = d
  <2>1. SubSeq(d, 1, m) \o SubSeq(d, m + 1, Len(d)) = SubSeq(d, 1, Len(d))
    <3>1. 1 \in 1 .. Len(d) + 1 /\ m \in 1 - 1 .. Len(d) /\ Len(d) \in m .. Len(d)
      BY <1>3
    <3> QED
      BY <1>1, <3>1, ConcatAdjacentSubSeq
  <2> QED
    BY <1>1, <2>1, SubSeqFull
<1>8. SubSeq(d, 1, m) # <<>>
  BY <1>3, <1>6
<1>9. r \in DigitGroups /\ r.sep = g.sep /\ r.digits # <<>> /\ Len(r.digits) < Len(d)
      /\ r.digits \o LastGroup(g) = d /\ LastGroup(g) \in Seq(Digits)
  BY <1>1, <1>3, <1>4, <1>5, <1>6, <1>7, <1>8, <1>10 DEF DigitGroups, dd, ss
<1> QED
  BY <1>9 DEF d, r

LEMMA GroupedIs == Grouped = [g \in DigitGroups |-> GroupedStep(Grouped, g)]
<1>1. HowMany \in [DigitGroups -> Nat]
  BY DEF HowMany, DigitGroups
<1>2. IsWellFoundedOn(Smaller(HowMany, DigitGroups), DigitGroups)
  BY <1>1, MeasureIsWellFounded
<1>3. WFDefOn(Smaller(HowMany, DigitGroups), DigitGroups, GroupedStep)
  <2> SUFFICES ASSUME NEW f, NEW h, NEW g \in DigitGroups,
                      \A y \in SetLessThan(g, Smaller(HowMany, DigitGroups), DigitGroups) : f[y] = h[y]
               PROVE  GroupedStep(f, g) = GroupedStep(h, g)
    BY DEF WFDefOn
  <2>1. ~IsOne(g) => Fewer(g) \in SetLessThan(g, Smaller(HowMany, DigitGroups), DigitGroups)
    BY GroupTakenOff DEF SetLessThan, Smaller, HowMany
  <2> QED
    BY <2>1 DEF GroupedStep
<1>4. OpDefinesFcn(Grouped, DigitGroups, GroupedStep)
  BY DEF OpDefinesFcn, Grouped, GroupedStep, DigitGroups, IsOne, Fewer, LastGroup
<1>5. WFInductiveDefines(Grouped, DigitGroups, GroupedStep)
  BY <1>2, <1>3, <1>4, WFInductiveDef
<1> QED
  BY <1>5 DEF WFInductiveDefines

\* t are the digits of g with separators that change nothing.
Spaced(t, g) ==
  /\ t \in Seq(Digits \cup {g.sep}) /\ t # <<>> /\ t[1] \in Digits
  /\ Amount[t] = Amount[g.digits]

LEMMA OneGroup ==
  ASSUME NEW g \in DigitGroups, g.digits # <<>>
  PROVE  Spaced(g.digits, g)
<1>1. g.digits \in Seq(Digits)
  BY DEF DigitGroups
<1> QED
  BY <1>1 DEF Spaced

LEMMA OneMoreGroup ==
  ASSUME NEW g \in DigitGroups, NEW t, ~IsOne(g), g.sep \notin Digits, Spaced(t, Fewer(g))
  PROVE  Spaced(t \o <<g.sep>> \o LastGroup(g), g)
<1> DEFINE sep == g.sep
           r == Fewer(g).digits
           l == LastGroup(g)
           u == t \o <<sep>>
           S == Digits \cup {sep}
<1>1. /\ t \in Seq(S) /\ t # <<>> /\ t[1] \in Digits /\ Amount[t] = Amount[r]
      /\ r \in Seq(Digits) /\ l \in Seq(Digits) /\ r \o l = g.digits /\ sep \in Nat
  BY GroupTakenOff DEF Spaced, DigitGroups
<1>2. sep \notin Digits
  OBVIOUS
<1> HIDE DEF r, l, sep
<1>3. S \subseteq Nat /\ sep \in S
  BY <1>1 DEF Digits
<1>4. t \in CharTexts /\ r \in CharTexts /\ l \in CharTexts /\ l \in Seq(S)
  BY <1>1, <1>3, DigitsAreChars DEF CharTexts
<1>5. u = Append(t, sep) /\ u \in Seq(S) /\ u \in CharTexts /\ Len(u) = Len(t) + 1 /\ u[1] = t[1] /\ Len(t) \in Nat \ {0}
  BY <1>1, <1>3, <1>4 DEF CharTexts
<1>6. Amount[u] = Amount[r]
  <2>1. Amount[Append(t, sep)] = Amount[t]
    BY <1>1, <1>2, <1>4, AmountOfAppend
  <2> HIDE DEF u
  <2> QED
    BY <1>1, <1>5, <2>1, Zenon
<1> HIDE DEF u
<1>7. Amount[u \o l] = Amount[r \o l]
  BY <1>4, <1>5, <1>6, AmountGoesOn
<1>8. u \o l \in Seq(S) /\ (u \o l) # <<>> /\ (u \o l)[1] = t[1]
  BY <1>4, <1>5
<1>9. Spaced(u \o l, g)
  BY <1>1, <1>7, <1>8 DEF Spaced, sep
<1> QED
  BY <1>9 DEF u, l, sep

\* However digits are grouped, they make the same number.
LEMMA GroupsAreSpaced ==
  ASSUME NEW g \in DigitGroups, g.digits # <<>>, g.grouping = <<>> \/ g.sep \notin Digits
  PROVE  Spaced(Grouped[g], g)
<1>1. CASE g.grouping = <<>>
  BY <1>1, OneGroup, GroupedIs DEF GroupedStep, IsOne
<1>2. CASE g.sep \notin Digits
  <2> DEFINE Out == {h \in DigitGroups : h.digits # <<>> /\ h.sep \notin Digits /\ ~Spaced(Grouped[h], h)}
  <2> SUFFICES ASSUME g \in Out PROVE FALSE
    BY <1>2
  <2>1. PICK h \in Out : \A k \in Out : ~(<<k, h>> \in Smaller(HowMany, DigitGroups))
    <3>1. HowMany \in [DigitGroups -> Nat]
      BY DEF HowMany, DigitGroups
    <3>2. IsWellFoundedOn(Smaller(HowMany, DigitGroups), DigitGroups)
      BY <3>1, MeasureIsWellFounded
    <3>3. Out \subseteq DigitGroups /\ Out # {}
      OBVIOUS
    <3> HIDE DEF Out
    <3> QED
      BY <3>2, <3>3, WFMin
  <2>2. h \in DigitGroups /\ h.digits # <<>> /\ h.sep \notin Digits /\ ~Spaced(Grouped[h], h)
    OBVIOUS
  <2>3. CASE IsOne(h)
    BY <2>2, <2>3, OneGroup, GroupedIs DEF GroupedStep
  <2>4. CASE ~IsOne(h)
    <3>1. /\ Fewer(h) \in DigitGroups /\ Fewer(h).sep = h.sep /\ Fewer(h).digits # <<>>
          /\ Len(Fewer(h).digits) < Len(h.digits)
      BY <2>2, <2>4, GroupTakenOff
    <3>2. <<Fewer(h), h>> \in Smaller(HowMany, DigitGroups)
      BY <2>2, <3>1 DEF Smaller, HowMany
    <3>3. Spaced(Grouped[Fewer(h)], Fewer(h))
      BY <2>1, <2>2, <3>1, <3>2
    <3>4. Grouped[h] = Grouped[Fewer(h)] \o <<h.sep>> \o LastGroup(h)
      BY <2>2, <2>4, GroupedIs DEF GroupedStep
    <3> QED
      BY <2>2, <2>4, <3>3, <3>4, OneMoreGroup
  <2> QED
    BY <2>3, <2>4
<1> QED
  BY <1>1, <1>2

-----------------------------------------------------------------------------
(* Reading.                                                                *)

\* Characters joined.
LEMMA Joined ==
  ASSUME NEW a \in CharTexts, NEW b \in CharTexts
  PROVE  /\ a \o b \in CharTexts /\ Len(a \o b) = Len(a) + Len(b) /\ Len(a) \in Nat /\ Len(b) \in Nat
         /\ a # <<>> => (a \o b) # <<>> /\ (a \o b)[1] = a[1]
         /\ a \o <<>> = a /\ <<>> \o a = a /\ <<>> \in CharTexts
<1>1. a \in Seq(Nat) /\ b \in Seq(Nat)
  BY DEF CharTexts
<1>2. /\ a \o b \in Seq(Nat) /\ Len(a \o b) = Len(a) + Len(b)
      /\ \A i \in 1 .. Len(a) + Len(b) : (a \o b)[i] = IF i <= Len(a) THEN a[i] ELSE b[i - Len(a)]
  BY <1>1, ConcatProperties
<1>3. Len(a) \in Nat /\ Len(b) \in Nat /\ a \o <<>> = a /\ <<>> \o a = a
  BY <1>1
<1>4. a # <<>> => (a \o b) # <<>> /\ (a \o b)[1] = a[1]
  <2> SUFFICES ASSUME a # <<>> PROVE (a \o b) # <<>> /\ (a \o b)[1] = a[1]
    OBVIOUS
  <2>1. Len(a) # 0
    BY <1>1
  <2>2. 1 \in 1 .. Len(a) + Len(b) /\ 1 <= Len(a) /\ Len(a \o b) # 0
    BY <1>2, <1>3, <2>1
  <2> QED
    BY <1>2, <2>2
<1> QED
  BY <1>2, <1>3, <1>4 DEF CharTexts

LEMMA ThreeParts ==
  ASSUME NEW a \in CharTexts, NEW b \in CharTexts, NEW c \in CharTexts
  PROVE  (a \o b) \o c = a \o (b \o c)
<1>1. a \in Seq(Nat) /\ b \in Seq(Nat) /\ c \in Seq(Nat)
  BY DEF CharTexts
<1> QED
  BY <1>1, ConcatAssociative

LEMMA SignsAreChars == Signs \subseteq CharTexts
<1>1. Plus \in Nat /\ Minus \in Nat /\ Blank \in Nat
  BY DEF Plus, Minus, Blank
<1>2. <<>> \in CharTexts /\ \A x, y \in Nat : <<x>> \in CharTexts /\ <<x, y>> \in CharTexts
  BY DEF CharTexts
<1> QED
  BY <1>1, <1>2 DEF Signs

\* A text in three parts.
HasMiddle(text, a, b, c) ==
  /\ text \in CharTexts /\ Len(text) = (Len(a) + Len(b)) + Len(c)
  /\ \A j \in 1 .. Len(a) : text[j] = a[j]
  /\ \A j \in 1 .. Len(b) : text[Len(a) + j] = b[j]
  /\ \A j \in 1 .. Len(c) : text[(Len(a) + Len(b)) + j] = c[j]
  /\ SubSeq(text, Len(a) + 1, Len(a) + Len(b)) = b

LEMMA MiddleIs ==
  ASSUME NEW a \in CharTexts, NEW b \in CharTexts, NEW c \in CharTexts
  PROVE  HasMiddle((a \o b) \o c, a, b, c)
<1> DEFINE ab == a \o b
           text == ab \o c
           la == Len(a)
           lb == Len(b)
           lc == Len(c)
<1>1. a \in Seq(Nat) /\ b \in Seq(Nat) /\ c \in Seq(Nat) /\ la \in Nat /\ lb \in Nat /\ lc \in Nat
  BY DEF CharTexts
<1>2. /\ ab \in Seq(Nat) /\ Len(ab) = la + lb
      /\ \A i \in 1 .. la + lb : ab[i] = IF i <= la THEN a[i] ELSE b[i - la]
  BY <1>1, ConcatProperties
<1> HIDE DEF ab
<1>3. /\ text \in Seq(Nat) /\ Len(text) = Len(ab) + lc
      /\ \A i \in 1 .. Len(ab) + lc : text[i] = IF i <= Len(ab) THEN ab[i] ELSE c[i - Len(ab)]
  BY <1>1, <1>2, ConcatProperties
<1> HIDE DEF text, la, lb, lc
<1>4. \A j \in 1 .. la : text[j] = a[j]
  <2> TAKE j \in 1 .. la
  <2>1. j \in 1 .. la + lb /\ j \in 1 .. Len(ab) + lc /\ j <= Len(ab) /\ j <= la
    BY <1>1, <1>2
  <2> QED
    BY <1>2, <1>3, <2>1
<1>5. \A j \in 1 .. lb : text[la + j] = b[j]
  <2> TAKE j \in 1 .. lb
  <2>1. /\ la + j \in 1 .. la + lb /\ la + j \in 1 .. Len(ab) + lc /\ la + j <= Len(ab)
        /\ ~(la + j <= la) /\ (la + j) - la = j
    BY <1>1, <1>2
  <2> QED
    BY <1>2, <1>3, <2>1
<1>6. \A j \in 1 .. lc : text[(la + lb) + j] = c[j]
  <2> TAKE j \in 1 .. lc
  <2>1. /\ (la + lb) + j \in 1 .. Len(ab) + lc /\ ~((la + lb) + j <= Len(ab))
        /\ ((la + lb) + j) - Len(ab) = j
    BY <1>1, <1>2
  <2> QED
    BY <1>3, <2>1
<1>7. SubSeq(text, la + 1, la + lb) = b
  <2> DEFINE s == SubSeq(text, la + 1, la + lb)
  <2>1. CASE lb = 0
    <3>1. b = <<>>
      BY <1>1, <2>1, EmptySeq DEF lb
    <3>2. s = <<>>
      BY <1>1, <1>3, <2>1, SubSeqEmpty
    <3> QED
      BY <3>1, <3>2
  <2>2. CASE lb # 0
    <3>1. /\ la + 1 \in 1 .. Len(text) + 1 /\ la + lb \in 0 .. Len(text) /\ la + 1 <= la + lb
          /\ ((la + lb) - (la + 1)) + 1 = lb
      BY <1>1, <1>2, <1>3, <2>2
    <3>2. s \in Seq(Nat) /\ Len(s) = lb /\ \A i \in 1 .. lb : s[i] = text[(la + 1 + i) - 1]
      <4> DEFINE m == la + 1
                 k == la + lb
      <4>1. m \in 1 .. Len(text) + 1 /\ k \in 0 .. Len(text) /\ m <= k
        BY <3>1
      <4>5. \A i \in m .. k : text[i] \in Nat
        <5> HIDE DEF m, k
        <5> QED
          BY <1>3, <4>1
      <4>7. s = SubSeq(text, m, k)
        OBVIOUS
      <4> HIDE DEF m, k, s
      <4>6. m \in Int /\ k \in Int
        BY <1>1 DEF m, k
      <4>2. /\ s \in Seq(Nat) /\ Len(s) = (IF m <= k THEN k - m + 1 ELSE 0)
            /\ \A i \in 1 .. k - m + 1 : s[i] = text[m + i - 1]
        BY <4>5, <4>6, <4>7, SubSeqProperties
      <4>3. k - m + 1 = lb /\ m = la + 1
        BY <3>1 DEF m, k
      <4>4. \A i \in 1 .. lb : m + i - 1 = (la + 1 + i) - 1
        BY <1>1, <4>3
      <4> QED
        BY <4>1, <4>2, <4>3, <4>4 DEF s
    <3>3. \A i \in 1 .. lb : s[i] = b[i]
      <4> TAKE i \in 1 .. lb
      <4>1. (la + 1 + i) - 1 = la + i
        BY <1>1
      <4> QED
        BY <1>5, <3>2, <4>1
    <3> QED
      BY <1>1, <3>2, <3>3, SeqEqual DEF lb
  <2> QED
    BY <2>1, <2>2
<1>8. Len(text) = (la + lb) + lc
  BY <1>2, <1>3
<1> QED
  BY <1>3, <1>4, <1>5, <1>6, <1>7, <1>8 DEF HasMiddle, text, la, lb, lc, CharTexts, ab

\* A run of characters ends in one place only.
LEMMA RunIs ==
  ASSUME NEW S, NEW text \in CharTexts, NEW i \in Nat \ {0}, NEW n \in Nat,
         i + n <= Len(text) + 1,
         \A j \in 1 .. n : text[(i + j) - 1] \in S,
         i + n <= Len(text) => text[i + n] \notin S
  PROVE  RunOf(S, text, i) = n
<1> DEFINE Ends(m) == /\ \A k \in i .. i + m - 1 : text[k] \in S
                      /\ i + m <= Len(text) => text[i + m] \notin S
           R == 0 .. Len(text) - i + 1
<1>1. Len(text) \in Nat
  BY DEF CharTexts
<1>2. n \in R
  BY <1>1
<1>3. Ends(n)
  <2> SUFFICES ASSUME NEW k \in i .. i + n - 1 PROVE text[k] \in S
    OBVIOUS
  <2> DEFINE j == (k - i) + 1
  <2>1. j \in 1 .. n /\ (i + j) - 1 = k
    OBVIOUS
  <2> HIDE DEF j
  <2> QED
    BY <2>1
<1>4. ASSUME NEW m \in R, Ends(m) PROVE m = n
  <2>1. m \in Nat /\ i + m <= Len(text) + 1
    BY <1>1
  <2>2. ~(m < n)
    <3> SUFFICES ASSUME m < n PROVE FALSE
      OBVIOUS
    <3>1. i + m \in i .. i + n - 1 /\ i + m <= Len(text)
      BY <1>1, <2>1
    <3> QED
      BY <1>3, <1>4, <3>1
  <2>3. ~(n < m)
    <3> SUFFICES ASSUME n < m PROVE FALSE
      OBVIOUS
    <3>1. i + n \in i .. i + m - 1 /\ i + n <= Len(text)
      BY <1>1, <2>1
    <3> QED
      BY <1>3, <1>4, <3>1
  <2> QED
    BY <2>1, <2>2, <2>3
<1> HIDE DEF R, Ends
<1>5. (CHOOSE m \in R : Ends(m)) = n
  BY <1>2, <1>3, <1>4
<1> QED
  BY <1>5 DEF RunOf, R, Ends

\* The middle part is a run if the last one does not go on with it.
LEMMA RunOfMiddle ==
  ASSUME NEW S, NEW a \in CharTexts, NEW b \in CharTexts, NEW c \in CharTexts,
         b \in Seq(S), c # <<>> => c[1] \notin S
  PROVE  RunOf(S, (a \o b) \o c, Len(a) + 1) = Len(b)
<1> DEFINE text == (a \o b) \o c
           i == Len(a) + 1
           n == Len(b)
<1>1. /\ text \in CharTexts /\ Len(text) = (Len(a) + Len(b)) + Len(c)
      /\ \A j \in 1 .. Len(b) : text[Len(a) + j] = b[j]
      /\ \A j \in 1 .. Len(c) : text[(Len(a) + Len(b)) + j] = c[j]
  <2>1. HasMiddle(text, a, b, c)
    BY MiddleIs
  <2> HIDE DEF text
  <2> QED
    BY <2>1 DEF HasMiddle
<1> HIDE DEF text
<1>2. Len(a) \in Nat /\ n \in Nat /\ Len(c) \in Nat /\ i \in Nat \ {0} /\ i + n <= Len(text) + 1
  BY <1>1 DEF CharTexts
<1>3. \A j \in 1 .. n : text[(i + j) - 1] \in S
  <2> TAKE j \in 1 .. n
  <2>1. (i + j) - 1 = Len(a) + j /\ b[j] \in S
    BY <1>2
  <2> QED
    BY <1>1, <2>1
<1>4. i + n <= Len(text) => text[i + n] \notin S
  <2> SUFFICES ASSUME i + n <= Len(text) PROVE text[i + n] \notin S
    OBVIOUS
  <2>1. 1 \in 1 .. Len(c) /\ i + n = (Len(a) + Len(b)) + 1
    BY <1>1, <1>2
  <2>2. c # <<>>
    BY <2>1
  <2> QED
    BY <1>1, <2>1, <2>2
<1> HIDE DEF i, n
<1>5. RunOf(S, text, i) = n
  BY <1>1, <1>2, <1>3, <1>4, RunIs
<1> QED
  BY <1>5 DEF text, i, n

\* What a sign is read as.
SignOf(sign) == IF Last(<<Plus>> \o sign) = Minus THEN -1 ELSE 1
NumberAt(text) == 1 + RunOf({Blank}, text, 1)
Signed(text) == NumberAt(text) <= Len(text) /\ text[NumberAt(text)] \in {Minus, Plus}
IsRead(text, sign) ==
  /\ (IF Signed(text) /\ text[NumberAt(text)] = Minus THEN -1 ELSE 1) = SignOf(sign)
  /\ (IF Signed(text) THEN NumberAt(text) + 1 ELSE NumberAt(text)) = Len(sign) + 1

LEMMA SignIsRead ==
  ASSUME NEW sign \in Signs, NEW w \in CharTexts, NEW r \in CharTexts, w # <<>>, w[1] \in Digits
  PROVE  IsRead((sign \o w) \o r, sign)
<1> DEFINE text == (sign \o w) \o r
           n == Len(sign)
<1>1. sign \in CharTexts
  BY SignsAreChars
<1>2. /\ text \in CharTexts /\ Len(text) = (n + Len(w)) + Len(r)
      /\ \A j \in 1 .. n : text[j] = sign[j]
      /\ \A j \in 1 .. Len(w) : text[n + j] = w[j]
  BY <1>1, MiddleIs DEF HasMiddle
<1>3. n \in Nat /\ Len(w) \in Nat \ {0} /\ Len(r) \in Nat
  BY <1>1 DEF CharTexts
<1>4. 1 \in 1 .. Len(w) /\ n + 1 <= Len(text)
  BY <1>2, <1>3
<1>5. text[n + 1] \in Digits
  BY <1>2, <1>4
<1>6. Digits \cap {Blank, Plus, Minus} = {} /\ Blank \notin {Plus, Minus} /\ Plus # Minus
  BY DEF Digits, Blank, Plus, Minus
<1> HIDE DEF text
<1>7. ASSUME NEW k \in {0, 1}, k = 1 => text[1] = Blank, k + 1 <= Len(text), text[k + 1] # Blank
      PROVE  NumberAt(text) = k + 1
  <2>1. \A j \in 1 .. k : text[(1 + j) - 1] \in {Blank}
    <3> TAKE j \in 1 .. k
    <3>1. k = 1 /\ (1 + j) - 1 = 1
      OBVIOUS
    <3> QED
      BY <1>7, <3>1
  <2>2. /\ 1 \in Nat \ {0} /\ k \in Nat /\ 1 + k <= Len(text) + 1
        /\ 1 + k <= Len(text) => text[1 + k] \notin {Blank}
    <3>1. 1 + k = k + 1 /\ Len(text) \in Nat
      BY <1>2 DEF CharTexts
    <3> QED
      BY <1>7, <3>1
  <2>3. RunOf({Blank}, text, 1) = k
    BY <1>2, <2>1, <2>2, RunIs
  <2> QED
    BY <2>3 DEF NumberAt
<1>8. CASE sign = <<>>
  <2>1. n = 0
    BY <1>8
  <2>2. NumberAt(text) = 1 /\ SignOf(sign) = 1
    <3>1. SignOf(sign) = 1
      BY <1>6, <1>8 DEF SignOf, Last, Plus
    <3> QED
      BY <1>4, <1>5, <1>6, <1>7, <2>1, <3>1
  <2> QED
    BY <1>4, <1>5, <1>6, <2>1, <2>2 DEF IsRead, Signed, text
<1>9. CASE sign \in {<<Plus>>, <<Minus>>}
  <2>1. n = 1 /\ text[1] = sign[1] /\ sign[1] \in {Plus, Minus} /\ SignOf(sign) = (IF sign[1] = Minus THEN -1 ELSE 1)
    <3>1. n = 1 /\ sign[1] \in {Plus, Minus} /\ SignOf(sign) = (IF sign[1] = Minus THEN -1 ELSE 1)
      BY <1>9 DEF SignOf, Last
    <3> QED
      BY <1>2, <3>1
  <2>2. NumberAt(text) = 1
    BY <1>4, <1>6, <1>7, <2>1
  <2>3. NumberAt(text) <= Len(text)
    BY <1>2, <1>3, <2>1, <2>2
  <2>4. Signed(text) /\ text[NumberAt(text)] = sign[1]
    BY <2>1, <2>2, <2>3 DEF Signed
  <2> QED
    BY <1>6, <2>1, <2>2, <2>4 DEF IsRead, text
<1>10. CASE sign = <<Blank>>
  <2>1. n = 1 /\ text[1] = Blank /\ SignOf(sign) = 1
    <3>1. n = 1 /\ sign[1] = Blank /\ SignOf(sign) = 1
      BY <1>6, <1>10 DEF SignOf, Last
    <3> QED
      BY <1>2, <3>1
  <2>2. NumberAt(text) = 2
    BY <1>4, <1>5, <1>6, <1>7, <2>1
  <2>3. ~Signed(text)
    BY <1>5, <1>6, <2>1, <2>2 DEF Signed
  <2> QED
    BY <2>1, <2>2, <2>3 DEF IsRead, text
<1>11. CASE sign = <<Blank, Minus>>
  <2>1. n = 2 /\ text[1] = Blank /\ text[2] = Minus /\ SignOf(sign) = -1
    <3>1. n = 2 /\ sign[1] = Blank /\ sign[2] = Minus /\ SignOf(sign) = -1
      BY <1>6, <1>11 DEF SignOf, Last
    <3> QED
      BY <1>2, <3>1
  <2>2. 2 <= Len(text)
    BY <1>2, <1>3, <2>1
  <2>3. NumberAt(text) = 2
    BY <1>6, <1>7, <2>1, <2>2
  <2>4. Signed(text)
    BY <2>1, <2>2, <2>3 DEF Signed
  <2> QED
    BY <2>1, <2>3, <2>4 DEF IsRead, text
<1> QED
  BY <1>8, <1>9, <1>10, <1>11 DEF Signs

-----------------------------------------------------------------------------
(* What parse_unpacked finds, piece by piece.                              *)

Seps(format) == IF format.thousands THEN {format.sep} \ {format.point} ELSE {}
SignRead(text) == IF Signed(text) /\ text[NumberAt(text)] = Minus THEN -1 ELSE 1
Start(text) == IF Signed(text) THEN NumberAt(text) + 1 ELSE NumberAt(text)
WholeRead(format, text) == BeforeFrom(format, text, Start(text))
PointAt(format, text) == Start(text) + WholeRead(format, text)
IsPoint(format, text) ==
  PointAt(format, text) <= Len(text) /\ text[PointAt(format, text)] = format.point
AllRead(format, text) ==
  IF IsPoint(format, text) THEN RunOf(Digits, text, PointAt(format, text) + 1) ELSE 0
PartRead(format, text) ==
  IF AllRead(format, text) > MaxPoints THEN MaxPoints ELSE AllRead(format, text)

LEMMA ParseIs ==
  ASSUME NEW format, NEW text
  PROVE  parse_unpacked(format, text) =
           IF /\ WholeRead(format, text) = 0
              /\ ~IsPoint(format, text) \/ PartRead(format, text) < MaxPoints
           THEN Failure
           ELSE [ok |-> TRUE, digits |-> PartRead(format, text),
                 before |-> Wrapped(SignRead(text) * ValueOf(text, Start(text), WholeRead(format, text))),
                 after |-> Wrapped(SignRead(text) *
                             ValueOf(text, PointAt(format, text) + 1, PartRead(format, text)))]
  BY Zenon DEF parse_unpacked, Seps, SignRead, Start, WholeRead, PointAt, IsPoint, AllRead, PartRead,
         Signed, NumberAt

IsFormat(format) == /\ format.point \in Nat \ Digits /\ format.sep \in Nat
                    /\ format.thousands \in BOOLEAN

\* A number is read as the digits it was made of.
ReadAs(p, sign, w, d) ==
  /\ p.ok
  /\ Len(d) <= MaxPoints =>
       /\ p.digits = Len(d) /\ p.before = Wrapped(SignOf(sign) * Amount[w])
       /\ p.after = Wrapped(SignOf(sign) * Amount[d])

LEMMA ParseReads ==
  ASSUME NEW format, IsFormat(format), NEW sign \in Signs, NEW w \in Seq(Digits \cup Seps(format)),
         w # <<>>, w[1] \in Digits, NEW d \in Seq(Digits), NEW pt \in {<<>>, <<format.point>>},
         pt = <<>> => d = <<>>
  PROVE  ReadAs(parse_unpacked(format, ((sign \o w) \o pt) \o d), sign, w, d)
<1> DEFINE text == ((sign \o w) \o pt) \o d
           r == pt \o d
           n == Len(sign)
           m == Len(w)
           k == Len(d)
           S == Digits \cup Seps(format)
           pos == (n + m) + 1
<1>1. /\ S \subseteq Nat /\ format.point \notin S /\ format.point \in Nat /\ format.point \notin Digits
      /\ Digits \subseteq Nat /\ Digits \subseteq S
  BY DEF IsFormat, Seps, Digits
<1>2. sign \in CharTexts
  BY SignsAreChars
<1>3. w \in Seq(S) /\ w \in CharTexts /\ d \in CharTexts /\ pt \in CharTexts
  <2> HIDE DEF S
  <2>1. w \in CharTexts
    <3>1. w \in Seq(S)
      BY DEF S
    <3> QED
      BY <1>1, <3>1, SeqMonotonic DEF CharTexts
  <2>2. pt \in CharTexts
    <3>1. <<>> \in CharTexts /\ \A x \in Nat : <<x>> \in CharTexts
      BY DEF CharTexts
    <3> QED
      BY <1>1, <3>1
  <2> QED
    BY <2>1, <2>2, DigitsAreChars DEF S
<1>4. r \in CharTexts
  BY <1>3, Joined
<1>5. text = (sign \o w) \o r
  <2>1. sign \o w \in CharTexts
    BY <1>2, <1>3, Joined
  <2> QED
    BY <1>3, <2>1, ThreeParts
<1>6. n \in Nat /\ m \in Nat \ {0} /\ k \in Nat
  BY <1>2, <1>3 DEF CharTexts
<1> HIDE DEF text, r
<1>7. /\ text \in CharTexts /\ Len(text) = (n + m) + Len(r)
      /\ \A j \in 1 .. m : text[n + j] = w[j]
      /\ \A j \in 1 .. Len(r) : text[(n + m) + j] = r[j]
      /\ SubSeq(text, n + 1, n + m) = w
  <2>1. HasMiddle(text, sign, w, r)
    BY <1>2, <1>3, <1>4, <1>5, MiddleIs
  <2> QED
    BY <2>1 DEF HasMiddle
<1>8. SignRead(text) = SignOf(sign) /\ Start(text) = n + 1
  BY <1>3, <1>4, <1>5, SignIsRead DEF IsRead, SignRead, Start
<1>9. pt # <<>> => r # <<>> /\ r[1] = format.point /\ Len(r) \in Nat \ {0}
  <2> SUFFICES ASSUME pt # <<>> PROVE r # <<>> /\ r[1] = format.point /\ Len(r) \in Nat \ {0}
    OBVIOUS
  <2>1. Len(pt) = 1 /\ pt[1] = format.point
    OBVIOUS
  <2>2. Len(r) = Len(pt) + k /\ r[1] = pt[1] /\ r # <<>>
    BY <1>3, Joined DEF r, k
  <2> QED
    BY <1>6, <2>1, <2>2
<1>10. pt = <<>> => r = <<>>
  BY <1>3, Joined DEF r
<1>11. RunOf(S, text, n + 1) = m
  <2>1. r # <<>> => r[1] \notin S
    BY <1>1, <1>9, <1>10
  <2> HIDE DEF text, S, r, n, m
  <2>2. RunOf(S, (sign \o w) \o r, Len(sign) + 1) = Len(w)
    BY <1>2, <1>3, <1>4, <2>1, RunOfMiddle
  <2> QED
    BY <1>5, <2>2 DEF n, m
<1>12. pt # <<>> => RunOf(Digits, text, pos + 1) = k /\ SubSeq(text, pos + 1, (pos + 1) + k - 1) = d
  <2> SUFFICES ASSUME pt # <<>>
               PROVE  RunOf(Digits, text, pos + 1) = k /\ SubSeq(text, pos + 1, (pos + 1) + k - 1) = d
    OBVIOUS
  <2> DEFINE a == (sign \o w) \o pt
  <2>1. Len(a) = pos /\ a \in CharTexts
    <3>1. sign \o w \in CharTexts /\ Len(sign \o w) = n + m
      BY <1>2, <1>3, Joined
    <3>2. a \in CharTexts /\ Len(a) = Len(sign \o w) + Len(pt) /\ Len(pt) = 1
      BY <1>3, <3>1, Joined
    <3> QED
      BY <3>1, <3>2
  <2>6. a \o d \in CharTexts /\ <<>> \in CharTexts
    BY <1>3, <2>1, Joined
  <2>2. text = (a \o d) \o <<>>
    BY <2>6, Joined DEF text
  <2> HIDE DEF a, n, m
  <2>3. RunOf(Digits, (a \o d) \o <<>>, Len(a) + 1) = Len(d)
    <3> DEFINE e == <<>>
    <3>1. e \in CharTexts /\ (e # <<>> => e[1] \notin Digits)
      BY <2>6
    <3> HIDE DEF e
    <3>2. RunOf(Digits, (a \o d) \o e, Len(a) + 1) = Len(d)
      BY <1>3, <2>1, <3>1, RunOfMiddle
    <3> QED
      BY <3>2 DEF e
  <2>4. SubSeq((a \o d) \o <<>>, Len(a) + 1, Len(a) + Len(d)) = d
    BY <1>3, <2>1, <2>6, MiddleIs DEF HasMiddle
  <2>5. (pos + 1) + k - 1 = pos + k
    BY <1>6
  <2> QED
    BY <2>1, <2>2, <2>3, <2>4, <2>5 DEF k
<1> HIDE DEF n, m, k, S
<1>13. WholeRead(format, text) = m
  <2>1. 1 \in 1 .. m /\ n + 1 <= Len(text) /\ Len(r) \in Nat
    BY <1>4, <1>6, <1>7 DEF CharTexts
  <2>2. text[n + 1] \in Digits
    BY <1>7, <2>1
  <2> QED
    BY <1>8, <1>11, <2>1, <2>2 DEF WholeRead, BeforeFrom, S, Seps
<1>14. PointAt(format, text) = pos
  BY <1>6, <1>8, <1>13 DEF PointAt
<1>15. IsPoint(format, text) <=> pt # <<>>
  <2>1. CASE pt # <<>>
    <3>1. 1 \in 1 .. Len(r) /\ pos <= Len(text)
      BY <1>6, <1>7, <1>9, <2>1
    <3>2. text[pos] = format.point
      BY <1>7, <1>9, <2>1, <3>1
    <3> QED
      BY <1>14, <2>1, <3>1, <3>2 DEF IsPoint
  <2>2. CASE pt = <<>>
    <3>1. ~(pos <= Len(text))
      BY <1>6, <1>7, <1>10, <2>2
    <3> QED
      BY <1>14, <2>2, <3>1 DEF IsPoint
  <2> QED
    BY <2>1, <2>2
<1>16. AllRead(format, text) = k
  BY <1>12, <1>14, <1>15 DEF AllRead, k
<1>17. k <= MaxPoints => PartRead(format, text) = k
  BY <1>6, <1>16, DecimalAssumption DEF PartRead
<1>18. ValueOf(text, n + 1, m) = Amount[w]
  <2>1. (n + 1) + m - 1 = n + m
    BY <1>6
  <2> QED
    BY <1>7, <2>1 DEF ValueOf
<1>19. ValueOf(text, pos + 1, k) = Amount[d]
  <2>1. CASE pt # <<>>
    BY <1>12, <2>1 DEF ValueOf
  <2>2. CASE pt = <<>>
    <3>1. d = <<>> /\ k = 0
      BY <2>2 DEF k
    <3>2. (pos + 1) + k - 1 = pos /\ pos \in Nat
      BY <1>6, <3>1
    <3> HIDE DEF pos
    <3>3. SubSeq(text, pos + 1, pos) = <<>>
      BY <1>7, <3>2, SubSeqEmpty DEF CharTexts
    <3> QED
      BY <3>1, <3>2, <3>3 DEF ValueOf
  <2> QED
    BY <2>1, <2>2
<1> DEFINE p == parse_unpacked(format, text)
<1>20. p = [ok |-> TRUE, digits |-> PartRead(format, text),
            before |-> Wrapped(SignOf(sign) * Amount[w]),
            after |-> Wrapped(SignOf(sign) * ValueOf(text, pos + 1, PartRead(format, text)))]
  BY <1>6, <1>8, <1>13, <1>14, <1>18, ParseIs
<1>21. ReadAs(p, sign, w, d)
  <2> HIDE DEF p, pos
  <2>1. p.ok /\ p.digits = PartRead(format, text) /\ p.before = Wrapped(SignOf(sign) * Amount[w])
        /\ p.after = Wrapped(SignOf(sign) * ValueOf(text, pos + 1, PartRead(format, text)))
    BY <1>20
  <2> QED
    BY <1>17, <1>19, <2>1 DEF ReadAs, k
<1> QED
  BY <1>21 DEF text

-----------------------------------------------------------------------------
(* fromStream.                                                             *)

\* With no more digits after the point than the precision, nothing is lost.
IsExactly(c, P, k, s, A, B) == c \in Int /\ c * F(k) = (s * (A * F(k) + B)) * F(P)

\* pack, before it wraps around.
Packed(P, before, after) == before * F(P) + (IF P > 0 THEN Rem(after, F(P)) ELSE 0)

LEMMA PackIsExact ==
  ASSUME NEW P \in Nat, NEW k \in Nat, k <= P, NEW s \in {-1, 1},
         NEW A \in Nat, NEW B \in Nat, B < F(k)
  PROVE  /\ IsExactly(Packed(P, s * A, (s * B) * F(P - k)), P, k, s, A, B)
         /\ A <= abs(Packed(P, s * A, (s * B) * F(P - k)))
         /\ abs((s * B) * F(P - k)) < F(P)
<1> DEFINE f == F(k)
           g == F(P - k)
           x == (s * B) * g
           c == Packed(P, s * A, x)
<1>1. f \in Nat \ {0} /\ g \in Nat \ {0} /\ F(P) = f * g
  <2>1. Finer(k, P)
    BY FactorsDivide
  <2> QED
    BY <2>1 DEF Finer
<1>2. P = 0 => f = 1 /\ g = 1
  BY Factors
<1> HIDE DEF f, g
<1>3. B * g < f * g /\ B * g \in Nat /\ f * g \in Nat \ {0}
  <2>1. B < f
    BY DEF f
  <2>2. B + 1 <= f
    BY <1>1, <2>1
  <2>3. (B + 1) * g <= f * g
    BY <1>1, <2>2
  <2>4. (B + 1) * g = B * g + g
    BY <1>1
  <2>5. B * g \in Nat /\ f * g \in Nat \ {0}
    BY <1>1
  <2> QED
    BY <1>1, <2>3, <2>4, <2>5
<1>4. x = s * (B * g) /\ x \in Int /\ abs(x) = B * g
  <2>1. x = s * (B * g)
    BY <1>1
  <2> DEFINE z == B * g
  <2>2. z \in Nat /\ x = s * z
    BY <1>3, <2>1
  <2> HIDE DEF z, x
  <2>3. x \in Int /\ abs(x) = z
    BY <2>2 DEF abs
  <2> QED
    BY <2>1, <2>3 DEF z
<1> HIDE DEF x
<1>5. Rem(x, F(P)) = x
  BY <1>1, <1>3, <1>4, LeavesItself
<1>6. P = 0 => x = 0
  <2> SUFFICES ASSUME P = 0 PROVE x = 0
    OBVIOUS
  <2>1. B * g < 1 /\ B * g \in Nat
    BY <1>2, <1>3
  <2>2. B * g = 0
    BY <2>1
  <2> QED
    BY <1>4, <2>2
<1>7. c = (s * A) * (f * g) + x
  <2>1. c = (s * A) * F(P) + (IF P > 0 THEN Rem(x, F(P)) ELSE 0)
    BY DEF Packed
  <2>2. (IF P > 0 THEN Rem(x, F(P)) ELSE 0) = x
    BY <1>5, <1>6
  <2> QED
    BY <1>1, <2>1, <2>2
<1>8. c \in Int /\ c * f = (s * (A * f + B)) * (f * g)
  <2> HIDE DEF c
  <2>1. c = (s * A) * (f * g) + s * (B * g)
    BY <1>4, <1>7
  <2>2. c \in Int
    BY <1>1, <2>1
  <2>3. CASE s = 1
    <3>1. c = A * (f * g) + B * g
      BY <1>1, <2>1, <2>3
    <3>2. (A * (f * g) + B * g) * f = (A * f + B) * (f * g)
      BY <1>1
    <3>3. s * (A * f + B) = A * f + B
      BY <1>1, <2>3
    <3> QED
      BY <2>2, <3>1, <3>2, <3>3
  <2>4. CASE s = -1
    <3>1. c = -(A * (f * g) + B * g)
      <4>1. (s * A) * (f * g) = -(A * (f * g)) /\ s * (B * g) = -(B * g)
        BY <1>1, <2>4
      <4>2. A * (f * g) \in Int /\ B * g \in Int
        BY <1>1
      <4> QED
        BY <2>1, <4>1, <4>2
    <3>2. (-(A * (f * g) + B * g)) * f = (-(A * f + B)) * (f * g)
      BY <1>1
    <3>3. s * (A * f + B) = -(A * f + B)
      BY <1>1, <2>4
    <3> QED
      BY <2>2, <3>1, <3>2, <3>3
  <2> QED
    BY <2>2, <2>3, <2>4
<1>9. c \in Int /\ c * F(k) = (s * (A * F(k) + B)) * F(P)
  BY <1>1, <1>8 DEF f
<1>10. A <= abs(c)
  <2> HIDE DEF c
  <2> DEFINE y == A * (f * g)
             z == B * g
  <2>1. y \in Nat /\ z \in Nat /\ A <= y
    BY <1>1, <1>3
  <2>2. c = (s * A) * (f * g) + s * z /\ (s * A) * (f * g) = s * y
    BY <1>1, <1>4, <1>7
  <2> HIDE DEF y, z
  <2>3. c = y + z \/ c = -(y + z)
    BY <2>1, <2>2
  <2> QED
    BY <2>1, <2>3 DEF abs
<1>11. abs(x) < F(P)
  BY <1>1, <1>3, <1>4
<1> QED
  BY <1>9, <1>10, <1>11 DEF c, x, g, IsExactly

\* fromStream gives the decimal nearest to what is written, if it can be stored:
\* m units of 10^-k are within the limits, or they are exactly a decimal that is.
Storable(P, m, k) == Fits(m * F(P), F(k)) \/ (k <= P /\ m * F(P - k) \in -IntMax .. IntMax)

StreamIsNearest(P, c, s, w, d) ==
  /\ Len(d) <= MaxPoints /\ CanRound(P, s * Amount[w \o d], Len(d))
  /\ Storable(P, s * Amount[w \o d], Len(d))
  =>
    c \in Int /\ Nearest(c, (s * Amount[w \o d]) * F(P), F(Len(d)))

LEMMA ExactIsNearest ==
  ASSUME NEW c \in Int, NEW n \in Int, NEW f \in Nat \ {0}, c * f = n
  PROVE  Nearest(c, n, f)
<1> DEFINE m == c * f
<1>1. m \in Int /\ m = n
  OBVIOUS
<1> HIDE DEF m
<1>2. abs(m - n) = 0 /\ abs(f) = f
  BY <1>1 DEF abs
<1> QED
  BY <1>2 DEF Nearest, m

LEMMA StreamReads ==
  ASSUME NEW P \in 0 .. MaxPoints, NEW format, IsFormat(format), NEW sign \in Signs,
         NEW w \in Seq(Digits \cup Seps(format)),
         w # <<>>, w[1] \in Digits, NEW d \in Seq(Digits), NEW pt \in {<<>>, <<format.point>>},
         pt = <<>> => d = <<>>
  PROVE  StreamIsNearest(P, fromStream(P, "def", format, ((sign \o w) \o pt) \o d),
                         SignOf(sign), w, d)
<1> DEFINE text == ((sign \o w) \o pt) \o d
           p == parse_unpacked(format, text)
           s == SignOf(sign)
           k == Len(d)
           A == Amount[w]
           B == Amount[d]
           n == Amount[w \o d]
           c == fromStream(P, "def", format, text)
<1>1. ReadAs(p, sign, w, d)
  BY ParseReads
<1>2. w \in CharTexts /\ d \in CharTexts /\ w \o d \in CharTexts
  <2>1. Digits \cup Seps(format) \subseteq Nat
    BY DEF IsFormat, Seps, Digits
  <2>2. w \in CharTexts
    BY <2>1, SeqMonotonic DEF CharTexts
  <2> QED
    BY <2>2, DigitsAreChars, Joined
<1>3. n = A * F(k) + B /\ B < F(k) /\ A \in Nat /\ B \in Nat /\ k \in Nat /\ n \in Nat
  BY <1>2, AmountOfDigits, AmountIsNat
<1>4. s \in {-1, 1}
  BY DEF SignOf
<1> HIDE DEF A, B, n, k, s
<1>11. P \in Nat /\ F(P) \in 1 .. IntMax
  BY FactorsFit
<1> SUFFICES ASSUME k <= MaxPoints, CanRound(P, s * n, k), Storable(P, s * n, k)
             PROVE  c \in Int /\ Nearest(c, (s * n) * F(P), F(k))
  BY DEF StreamIsNearest, k, s, n
<1>12. F(k) \in 1 .. IntMax
  <2>1. k \in 0 .. MaxPoints
    BY <1>3, DecimalAssumption
  <2> QED
    BY <2>1, FactorsFit
<1>13. Wrapped(s * B) = s * B
  <2>1. s * B \in IntMin .. IntMax
    BY <1>3, <1>4, <1>12, WidthIsPositive
  <2> QED
    BY <2>1, WrappedIs
<1>5. p.digits = k /\ p.before = Wrapped(s * A) /\ p.after = s * B
  BY <1>1, <1>13 DEF ReadAs, s, A, B, k
<1>6. c = IF k <= P THEN pack(P, Wrapped(s * A), Wrapped((s * B) * F(P - k)))
          ELSE initWithPrec(P, "def", Wrapped(Wrapped(s * A) * F(k) + s * B), F(k))
  <2>1. c = IF p.digits <= P THEN pack(P, p.before, Wrapped(p.after * F(P - p.digits)))
            ELSE initWithPrec(P, "def", Wrapped(p.before * F(p.digits) + p.after), F(p.digits))
    BY DEF fromStream
  <2> HIDE DEF c, p
  <2> QED
    BY <1>5, <2>1
<1> HIDE DEF c, p
<1>7. F(k) \in Nat \ {0} /\ F(P) \in Nat \ {0}
  BY <1>3, <1>11, FactorIsPositive
<1>8. s * n \in Int
  BY <1>3, <1>4
<1>14. A <= IntMax => Wrapped(s * A) = s * A
  <2>1. A <= IntMax => s * A \in IntMin .. IntMax
    BY <1>3, <1>4, WidthIsPositive
  <2> QED
    BY <2>1, WrappedIs
<1>9. CASE k <= P
  <2> DEFINE x == (s * B) * F(P - k)
             e == Packed(P, s * A, x)
  <2>1. /\ e \in Int /\ e * F(k) = (s * (A * F(k) + B)) * F(P)
        /\ A <= abs(e) /\ abs(x) < F(P)
    <3>1. B < F(k) /\ A \in Nat /\ B \in Nat /\ k \in Nat /\ P \in Nat
      BY <1>3, <1>11
    <3>2. /\ IsExactly(Packed(P, s * A, (s * B) * F(P - k)), P, k, s, A, B)
          /\ A <= abs(Packed(P, s * A, (s * B) * F(P - k)))
          /\ abs((s * B) * F(P - k)) < F(P)
      BY <1>4, <1>9, <3>1, PackIsExact
    <3>3. IsExactly(e, P, k, s, A, B) /\ A <= abs(e) /\ abs(x) < F(P)
      BY <3>2
    <3> HIDE DEF e, x
    <3> QED
      BY <3>3 DEF IsExactly
  <2>7. x \in Int
    <3>1. F(P - k) \in Int
      <4>1. P - k \in Nat
        BY <1>3, <1>9, <1>11
      <4> QED
        BY <4>1, FactorIsPositive
    <3> QED
      BY <1>3, <1>4, <3>1
  <2> HIDE DEF e
  <2>2. e * F(k) = (s * n) * F(P) /\ (s * n) * F(P) \in Int
    BY <1>3, <1>7, <1>8, <2>1
  <2>3. e \in -IntMax .. IntMax
    <3> DEFINE m == s * n
               y == m * F(P)
               f == F(k)
    <3>1. CASE Fits(y, f)
      <4>1. Nearest(e, y, f) /\ y \in Int /\ f \in Nat \ {0}
        BY <1>7, <2>1, <2>2, ExactIsNearest
      <4>2. Fits(y, f)
        BY <3>1
      <4> HIDE DEF y, f
      <4> QED
        BY <2>1, <4>1, <4>2, NearestFits
    <3>2. CASE m * F(P - k) \in -IntMax .. IntMax
      <4>1. F(P) = f * F(P - k) /\ F(P - k) \in Nat \ {0} /\ f \in Nat \ {0}
        <5>1. Finer(k, P)
          BY <1>3, <1>9, <1>11, FactorsDivide
        <5> QED
          BY <5>1 DEF Finer
      <4> DEFINE g == F(P - k)
                 z == m * g
      <4>2. g \in Nat \ {0} /\ z \in Int /\ m \in Int /\ y = m * (f * g)
        BY <1>8, <4>1
      <4> HIDE DEF g, f, m, y
      <4>3. y = z * f
        BY <4>1, <4>2
      <4>4. e * f = y
        BY <2>2 DEF y, f, m
      <4> HIDE DEF z
      <4>5. e = z
        BY <2>1, <4>1, <4>2, <4>3, <4>4
      <4> QED
        BY <3>2, <4>5 DEF z, g
    <3> QED
      BY <3>1, <3>2 DEF Storable
  <2>4. Wrapped(s * A) = s * A /\ Wrapped(x) = x
    <3>1. A <= IntMax
      BY <1>3, <2>1, <2>3, IntMaxAssumption DEF abs
    <3>2. x \in IntMin .. IntMax
      <4> HIDE DEF x
      <4> QED
        BY <1>11, <2>1, <2>7, WidthIsPositive DEF abs
    <3> QED
      BY <1>14, <3>1, <3>2, WrappedIs
  <2>5. c = Wrapped(e)
    <3>1. c = pack(P, s * A, x)
      BY <1>6, <1>9, <2>4
    <3> QED
      BY <3>1 DEF pack, Packed, e
  <2>6. c = e
    <3>1. e \in IntMin .. IntMax
      BY <2>3, WidthIsPositive
    <3> QED
      BY <2>5, <3>1, WrappedIs
  <2> QED
    BY <1>7, <2>1, <2>2, <2>6, ExactIsNearest
<1>10. CASE ~(k <= P)
  <2>1. (s * A) * F(k) + s * B = s * n /\ A <= n
    <3> DEFINE f == F(k)
    <3>1. f \in Nat \ {0} /\ n = A * f + B
      BY <1>3, <1>7
    <3> HIDE DEF f
    <3>2. (s * A) * f + s * B = s * (A * f + B) /\ A <= A * f
      BY <1>3, <1>4, <3>1
    <3>3. A <= n
      BY <1>3, <3>1, <3>2
    <3> QED
      BY <3>1, <3>2, <3>3 DEF f
  <2>2. s * n \in IntMin .. IntMax /\ n <= IntMax
    <3>1. Room(s * n, F(k - P)) /\ F(k - P) \in Nat \ {0}
      <4>1. k - P \in Nat /\ k > P
        BY <1>3, <1>10, <1>11
      <4> QED
        BY <4>1, FactorIsPositive DEF CanRound
    <3> DEFINE m == s * n
               g == F(k - P)
    <3>2. m \in Int /\ g \in Nat \ {0} /\ Room(m, g) /\ (m = n \/ m = -n)
      BY <1>3, <1>4, <1>8, <3>1
    <3> HIDE DEF m, g
    <3>3. m \in IntMin .. IntMax /\ n <= IntMax
      BY <1>3, <3>2, WidthIsPositive DEF Room
    <3> QED
      BY <3>3 DEF m
  <2>3. Wrapped(s * A) = s * A
    BY <1>3, <1>14, <2>1, <2>2, WidthIsPositive
  <2>4. c = initWithPrec(P, "def", s * n, F(k))
    <3>1. Wrapped((s * A) * F(k) + s * B) = s * n
      BY <2>1, <2>2, WrappedIs
    <3> QED
      BY <1>6, <1>10, <2>3, <3>1
  <2>5. Fits((s * n) * F(P), F(k))
    BY <1>10 DEF Storable
  <2>6. P \in Nat /\ k \in Nat /\ s * n \in Int
    BY <1>3, <1>8, <1>11
  <2> DEFINE m == s * n
  <2> HIDE DEF m
  <2>7. LET y == initWithPrec(P, "def", m, F(k))
        IN  y \in -IntMax .. IntMax /\ Nearest(y, m * F(P), F(k))
    <3>1. m \in Int /\ CanRound(P, m, k) /\ Fits(m * F(P), F(k))
      BY <2>5, <2>6 DEF m
    <3> QED
      BY <2>6, <3>1, InitIsNearest
  <2> QED
    BY <2>4, <2>7, WidthIsPositive DEF m
<1> QED
  BY <1>9, <1>10

-----------------------------------------------------------------------------
(* toStream.                                                               *)

SignText(u) == IF u.before < 0 \/ u.after < 0 THEN <<Minus>> ELSE <<>>

\* The parts of a decimal have one sign, and make its amount up.
MakeUp(P, v, u) ==
  /\ abs(u.before) \in Nat /\ abs(u.after) \in Nat /\ abs(u.after) < F(P)
  /\ v = SignOf(SignText(u)) * (abs(u.before) * F(P) + abs(u.after))

LEMMA PartsMakeUp ==
  ASSUME NEW P \in Nat, NEW v \in IntMin .. IntMax
  PROVE  MakeUp(P, v, unpack(P, v))
<1> DEFINE f == F(P)
           q == Quot(v, f)
           r == Rem(v, f)
           u == unpack(P, v)
<1>1. f \in Nat \ {0} /\ v \in Int
  BY FactorIsPositive, WidthIsPositive
<1>2. u.before = q /\ u.after = r
  <2>1. Quot(trunc(P, v), f) = q
    <3>1. trunc(P, v) = f * q /\ q \in Int
      BY Unpacked
    <3> HIDE DEF f, q
    <3>2. Quot(f * q, f) = q
      BY <1>1, <3>1, Exact
    <3> QED
      BY <3>1, <3>2
  <2> QED
    BY <2>1 DEF unpack
<1> HIDE DEF f
<1>3. /\ q \in Int /\ r \in Int /\ v = (f * q) + r
      /\ v >= 0 => 0 <= r /\ r < f /\ r <= v
      /\ v <= 0 => r <= 0 /\ -f < r /\ v <= r
  <2>1. f \in Int \ {0} /\ abs(f) = f
    BY <1>1 DEF abs
  <2> QED
    BY <1>1, <2>1, Division
<1> HIDE DEF q, r
<1>4. v >= 0 => q >= 0
  <2> SUFFICES ASSUME v >= 0, q < 0 PROVE FALSE
    BY <1>3
  <2>1. q <= -1
    BY <1>3
  <2>2. f * q <= f * (-1) /\ f * (-1) = -f /\ f * q \in Int
    BY <1>1, <1>3, <2>1
  <2> QED
    BY <1>1, <1>3, <2>2
<1>5. v <= 0 => q <= 0
  <2> SUFFICES ASSUME v <= 0, q > 0 PROVE FALSE
    BY <1>3
  <2>1. q >= 1
    BY <1>3
  <2>2. f * q >= f /\ f * q \in Int
    BY <1>1, <1>3, <2>1
  <2> QED
    BY <1>1, <1>3, <2>2
<1>6. SignOf(<<Minus>>) = -1 /\ SignOf(<<>>) = 1
  BY DEF SignOf, Last, Plus, Minus
<1>7. abs(q) \in Nat /\ abs(r) \in Nat /\ abs(r) < f
  BY <1>1, <1>3 DEF abs
<1>8. CASE q < 0 \/ r < 0
  <2>1. q <= 0 /\ r <= 0
    BY <1>3, <1>4, <1>5, <1>8
  <2>2. abs(q) = -q /\ abs(r) = -r
    BY <1>3, <2>1 DEF abs
  <2>3. v = (-1) * ((-q) * f + (-r))
    BY <1>1, <1>3
  <2>4. SignOf(SignText(u)) = -1
    BY <1>2, <1>6, <1>8 DEF SignText
  <2>5. MakeUp(P, v, u)
    BY <1>2, <1>7, <2>2, <2>3, <2>4 DEF MakeUp, f
  <2> QED
    BY <2>5
<1>9. CASE ~(q < 0 \/ r < 0)
  <2>1. abs(q) = q /\ abs(r) = r
    BY <1>3, <1>9 DEF abs
  <2>2. v = 1 * (q * f + r)
    BY <1>1, <1>3
  <2>3. SignOf(SignText(u)) = 1
    BY <1>2, <1>6, <1>9 DEF SignText
  <2>4. MakeUp(P, v, u)
    BY <1>2, <1>7, <2>1, <2>2, <2>3 DEF MakeUp, f
  <2> QED
    BY <2>4
<1> QED
  BY <1>8, <1>9

\* What stands before the point can be read.
CanBeRead(w, format, x) ==
  w \in Seq(Digits \cup Seps(format)) /\ w # <<>> /\ w[1] \in Digits /\ Amount[w] = x

IsGrouped(format) == IsFormat(format) /\ format.grouping \in Seq(Nat \ {0}) /\ Readable(format)

LEMMA DigitsCanBeRead ==
  ASSUME NEW format, NEW w \in Seq(Digits), w # <<>>
  PROVE  CanBeRead(w, format, Amount[w])
<1>1. w[1] \in Digits
  OBVIOUS
<1>2. w \in Seq(Digits \cup Seps(format))
  BY SeqMonotonic
<1> QED
  BY <1>1, <1>2 DEF CanBeRead

\* Digits that are too few for the groups of a facet are written as they are.
IsFacet(facet) == facet.sep \in Nat /\ facet.grouping \in Seq(Nat \ {0})

LEMMA UngroupedIs ==
  ASSUME NEW facet, IsFacet(facet), NEW x \in Nat,
         facet.grouping = <<>> \/ Len(Written[x]) <= facet.grouping[1]
  PROVE  InGroups(x, facet) = Written[x]
<1> DEFINE w == Written[x]
           g == [digits |-> w, grouping |-> facet.grouping, sep |-> facet.sep]
<1>1. w \in Seq(Digits) /\ InGroups(x, facet) = Grouped[g]
  BY WrittenWrites DEF Writes, InGroups
<1>2. facet.grouping = <<>> \/ Len(w) <= facet.grouping[1]
  OBVIOUS
<1> HIDE DEF w
<1>3. g \in DigitGroups /\ g.digits = w /\ g.grouping = facet.grouping
  BY <1>1 DEF DigitGroups, IsFacet
<1>4. IsOne(g)
  <2>1. facet.grouping # <<>> => facet.grouping[1] \in Nat
    BY DEF IsFacet
  <2>2. Len(w) \in Nat
    BY <1>1
  <2> HIDE DEF g
  <2> QED
    BY <1>2, <1>3, <2>1, <2>2 DEF IsOne
<1> HIDE DEF g
<1>5. Grouped[g] = w
  BY <1>3, <1>4, GroupedIs DEF GroupedStep
<1> QED
  BY <1>1, <1>5 DEF w

\* So it is with the digits after the point, which are not more than the
\* precision.
LEMMA AfterPointIs ==
  ASSUME NEW P \in Nat, NEW format, NEW stream, IsFacet(stream), Ungrouped(P, format, stream),
         NEW x \in Nat, x < F(P), P > 0
  PROVE  AfterPoint(x, P, stream) = Padded(Written[x], P)
<1> DEFINE n == P - 1
           w == Written[x]
<1>1. n \in Nat /\ n + 1 = P
  OBVIOUS
<1> HIDE DEF n
<1>2. Len(w) <= P /\ Len(w) \in Nat
  <2>1. Writes(w, x)
    BY WrittenWrites
  <2> HIDE DEF w
  <2>2. x < F(n + 1)
    BY <1>1
  <2> QED
    BY <1>1, <2>1, <2>2 DEF Writes
<1>3. stream.grouping = <<>> \/ Len(w) <= stream.grouping[1]
  <2>1. stream.grouping # <<>> => stream.grouping[1] \in Nat
    BY DEF IsFacet
  <2> HIDE DEF w
  <2> QED
    BY <1>2, <2>1 DEF Ungrouped
<1>4. InGroups(x, stream) = w
  BY <1>3, UngroupedIs
<1> QED
  BY <1>4 DEF AfterPoint

LEMMA BeforeCanBeRead ==
  ASSUME NEW P, NEW format, IsGrouped(format), NEW stream, IsFacet(stream),
         Ungrouped(P, format, stream), NEW x \in Nat
  PROVE  CanBeRead(BeforePoint(x, format, stream), format, x)
<1> DEFINE w == Written[x]
           g == [digits |-> w, grouping |-> format.grouping, sep |-> format.sep]
<1>1. w \in Seq(Digits) /\ w # <<>> /\ Amount[w] = x
  BY WrittenWrites DEF Writes
<1>2. CanBeRead(w, format, x)
  BY <1>1, DigitsCanBeRead
<1> HIDE DEF w
<1>3. g \in DigitGroups /\ g.digits = w /\ g.grouping = format.grouping /\ g.sep = format.sep
  BY <1>1 DEF DigitGroups, IsGrouped, IsFormat
<1>4. CASE ~format.thousands
  <2>1. stream.grouping = <<>>
    BY <1>4 DEF Ungrouped
  <2>2. BeforePoint(x, format, stream) = w
    BY <1>4, <2>1, UngroupedIs DEF BeforePoint, w
  <2> QED
    BY <1>2, <2>2
<1>5. CASE format.thousands
  <2>1. BeforePoint(x, format, stream) = Grouped[g]
    BY <1>5 DEF BeforePoint, InGroups, w
  <2> HIDE DEF g
  <2>2. CASE format.grouping = <<>>
    <3>1. Grouped[g] = w
      BY <1>3, <2>2, GroupedIs DEF GroupedStep, IsOne
    <3> QED
      BY <1>2, <2>1, <3>1
  <2>3. CASE format.grouping # <<>>
    <3>1. format.sep \notin Digits /\ format.sep # format.point
      BY <1>5, <2>3 DEF IsGrouped, Readable
    <3>2. Spaced(Grouped[g], g)
      BY <1>1, <1>3, <3>1, GroupsAreSpaced
    <3>3. Seps(format) = {g.sep}
      BY <1>3, <1>5, <3>1 DEF Seps
    <3> QED
      BY <1>1, <1>3, <2>1, <3>2, <3>3 DEF Spaced, CanBeRead
  <2> QED
    BY <2>2, <2>3
<1> QED
  BY <1>4, <1>5 DEF IsGrouped, IsFormat

\* A decimal that is written is read back.
LEMMA ReadBack ==
  ASSUME NEW P \in 0 .. MaxPoints, NEW v \in -IntMax .. IntMax, NEW format, IsGrouped(format),
         NEW stream, IsFacet(stream), Ungrouped(P, format, stream)
  PROVE  fromStream(P, "def", format, toStream(P, format, stream, v)) = v
<1> DEFINE u == unpack(P, v)
           sign == SignText(u)
           w == BeforePoint(abs(u.before), format, stream)
           d == IF P > 0 THEN AfterPoint(abs(u.after), P, stream) ELSE <<>>
           pt == IF P > 0 THEN <<format.point>> ELSE <<>>
           text == ((sign \o w) \o pt) \o d
           s == SignOf(sign)
           A == abs(u.before)
           B == abs(u.after)
           n == Amount[w \o d]
           c == fromStream(P, "def", format, text)
<1>14. P \in Nat /\ v \in IntMin .. IntMax /\ v \in Int /\ P <= MaxPoints
  BY FactorsFit, WidthIsPositive, DecimalAssumption
<1>1. A \in Nat /\ B \in Nat /\ B < F(P) /\ v = s * (A * F(P) + B)
  BY <1>14, PartsMakeUp DEF MakeUp
<1>2. CanBeRead(w, format, A)
  BY <1>1, BeforeCanBeRead
<1>3. d \in Seq(Digits) /\ Len(d) = P /\ Amount[d] = B
  <2>1. CASE P = 0
    <3>1. d = <<>>
      BY <2>1
    <3>2. B = 0
      BY <1>1, <2>1, Factors
    <3> QED
      BY <2>1, <3>1, <3>2, AmountOfAppend
  <2>2. CASE P # 0
    <3> DEFINE m == P - 1
    <3>1. m \in Nat /\ P = m + 1 /\ P > 0
      BY <1>14, <2>2
    <3> HIDE DEF m, A, B, u
    <3>2. B < F(m + 1)
      BY <1>1, <3>1
    <3>3. LET t == Padded(Written[B], m + 1)
          IN  t \in Seq(Digits) /\ Len(t) = m + 1 /\ Amount[t] = B
      BY <1>1, <3>1, <3>2, PaddedWrites
    <3>5. AfterPoint(B, P, stream) = Padded(Written[B], P)
      BY <1>1, <1>14, <3>1, AfterPointIs
    <3>4. d = Padded(Written[B], m + 1)
      BY <3>1, <3>5 DEF B
    <3> HIDE DEF d
    <3> QED
      BY <3>1, <3>3, <3>4
  <2> QED
    BY <2>1, <2>2
<1>4. sign \in Signs
  BY DEF SignText, Signs
<1>5. pt \in {<<>>, <<format.point>>} /\ (pt = <<>> => d = <<>>)
  OBVIOUS
<1>7. w \in CharTexts
  <2>1. Digits \cup Seps(format) \subseteq Nat
    BY DEF IsGrouped, IsFormat, Seps, Digits
  <2> QED
    BY <1>2, <2>1, SeqMonotonic DEF CharTexts, CanBeRead
<1>6. toStream(P, format, stream, v) = text
  <2>1. toStream(P, format, stream, v) = (sign \o w) \o (IF P > 0 THEN <<format.point>> \o AfterPoint(abs(u.after), P, stream) ELSE <<>>)
    BY DEF toStream, SignText
  <2>2. toStream(P, format, stream, v) = (sign \o w) \o (pt \o d)
    <3>1. (IF P > 0 THEN <<format.point>> \o AfterPoint(abs(u.after), P, stream) ELSE <<>>) = pt \o d
      <4>1. CASE P > 0
        BY <4>1, Zenon
      <4>2. CASE ~(P > 0)
        <5>1. pt = <<>> /\ d = <<>> /\ <<>> \o <<>> = <<>>
          BY <4>2
        <5> HIDE DEF pt, d
        <5> QED
          BY <4>2, <5>1
      <4> QED
        BY <4>1, <4>2
    <3> QED
      BY <2>1, <3>1, Zenon
  <2>3. sign \in CharTexts /\ w \in CharTexts /\ pt \in CharTexts /\ d \in CharTexts
    <3>2. pt \in CharTexts
      <4>1. <<>> \in CharTexts /\ \A x \in Nat : <<x>> \in CharTexts
        BY DEF CharTexts
      <4> QED
        BY <1>5, <4>1 DEF IsGrouped, IsFormat
    <3> HIDE DEF sign, w, pt, d
    <3> QED
      BY <1>3, <1>4, <1>7, <3>2, SignsAreChars, DigitsAreChars
  <2> HIDE DEF sign, w, pt, d, u
  <2>4. sign \o w \in CharTexts
    BY <2>3, Joined
  <2> QED
    BY <2>2, <2>3, <2>4, ThreeParts
<1> HIDE DEF sign, w, pt, d, u, A, B
<1>8. StreamIsNearest(P, c, s, w, d)
  <2>1. w \in Seq(Digits \cup Seps(format)) /\ w # <<>> /\ w[1] \in Digits /\ IsFormat(format)
    BY <1>2 DEF CanBeRead, IsGrouped
  <2> QED
    BY <1>3, <1>4, <1>5, <2>1, StreamReads
<1>9. n = A * F(P) + B
  BY <1>2, <1>3, <1>7, AmountOfDigits DEF CanBeRead
<1>10. CanRound(P, s * n, P)
  BY DEF CanRound
<1>11. s * n = v
  BY <1>1, <1>9
<1>15. Storable(P, s * n, P)
  <2>1. F(P - P) = 1 /\ v * 1 = v
    BY <1>14, Factors
  <2> QED
    BY <1>11, <1>14, <2>1 DEF Storable
<1> HIDE DEF s, n, c, text
<1>12. c \in Int /\ Nearest(c, v * F(P), F(P))
  BY <1>3, <1>8, <1>10, <1>11, <1>14, <1>15 DEF StreamIsNearest, n
<1>13. c = v
  <2> DEFINE f == F(P)
             e == (c - v) * f
  <2>1. f \in Nat \ {0}
    BY <1>14, FactorIsPositive
  <2>2. 2 * abs(c * f - v * f) <= abs(f)
    BY <1>12 DEF Nearest
  <2> HIDE DEF f
  <2>3. c * f - v * f = e /\ abs(f) = f /\ e \in Int
    BY <1>12, <1>14, <2>1 DEF abs
  <2>4. ~(c - v >= 1)
    <3> SUFFICES ASSUME c - v >= 1 PROVE FALSE
      OBVIOUS
    <3>1. e >= f
      BY <1>12, <1>14, <2>1
    <3> HIDE DEF e
    <3> QED
      BY <2>1, <2>2, <2>3, <3>1 DEF abs
  <2>5. ~(c - v <= -1)
    <3> SUFFICES ASSUME c - v <= -1 PROVE FALSE
      OBVIOUS
    <3>1. e <= -f
      BY <1>12, <1>14, <2>1
    <3> HIDE DEF e
    <3> QED
      BY <2>1, <2>2, <2>3, <3>1 DEF abs
  <2> QED
    BY <1>12, <1>14, <2>4, <2>5
<1> QED
  BY <1>6, <1>13 DEF c

-----------------------------------------------------------------------------
(* What a decimal is made of.                                              *)

\* basic_decimal_format and the format of the classic locale are the same, and
\* can be read.
LEMMA ClassicFormat ==
  /\ format_from_stream({Classic}) = basic_decimal_format
  /\ IsGrouped(basic_decimal_format) /\ IsFacet(Classic) /\ Classic.grouping = <<>>
<1> DEFINE facet == Classic
<1>2. {facet} # {} /\ (CHOOSE f \in {facet} : TRUE) = facet
  OBVIOUS
<1>3. format_from_stream({Classic}) = decimal_format(facet.point, facet.sep, facet.grouping # <<>>, facet.grouping)
  BY <1>2 DEF format_from_stream
<1>4. facet.point = Point /\ facet.sep = Comma /\ facet.grouping = <<>>
  BY DEF Classic
<1>5. format_from_stream({Classic}) = basic_decimal_format
  BY <1>3, <1>4 DEF decimal_format, basic_decimal_format
<1>6. IsGrouped(basic_decimal_format)
  BY DEF basic_decimal_format, IsGrouped, IsFormat, Readable, Point, Comma, Digits
<1>7. IsFacet(Classic) /\ Classic.grouping = <<>>
  BY DEF IsFacet, Classic, Comma
<1> QED
  BY <1>5, <1>6, <1>7

\* The format of a stream is one that a format can be.
IsNatural(format) == /\ format.point \in Nat /\ format.sep \in Nat /\ format.thousands \in BOOLEAN
                     /\ format.grouping \in Seq(Nat \ {0})

LEMMA StreamFormat ==
  ASSUME NEW stream, IsFacet(stream), stream.point \in Nat
  PROVE  IsNatural(format_from_stream({stream}))
<1>1. {stream} # {} /\ (CHOOSE f \in {stream} : TRUE) = stream
  OBVIOUS
<1>2. format_from_stream({stream}) =
        decimal_format(stream.point, stream.sep, stream.grouping # <<>>, stream.grouping)
  BY <1>1 DEF format_from_stream
<1> DEFINE b == stream.grouping # <<>>
<1>3. b \in BOOLEAN
  OBVIOUS
<1> HIDE DEF b
<1>4. format_from_stream({stream}) = decimal_format(stream.point, stream.sep, b, stream.grouping)
  BY <1>2 DEF b
<1> QED
  BY <1>3, <1>4 DEF decimal_format, IsNatural, IsFacet

\* A typed number, of which the nearest decimal is read.
IsText(x) == IsTyped(x) /\ x.whole # <<>>

LEMMA TypedIsRead ==
  ASSUME NEW P \in 0 .. MaxPoints, NEW x, IsText(x)
  PROVE  /\ parse_unpacked(basic_decimal_format, TextOf(x)).ok
         /\ Meant(x) \in Int /\ F(Len(x.fraction)) \in Nat \ {0}
         /\ Typable(P, x) =>
              LET c == fromString(P, "def", TextOf(x))
              IN  c \in Int /\ Nearest(c, Meant(x) * F(P), F(Len(x.fraction)))
<1> DEFINE sign == x.sign
           w == x.whole
           pt == x.point
           d == x.fraction
           n == Amount[w \o d]
           s == SignOf(sign)
           format == basic_decimal_format
           text == ((sign \o w) \o pt) \o d
           c == fromString(P, "def", text)
<1>1. /\ sign \in Signs /\ w \in Seq(Digits) /\ w # <<>> /\ d \in Seq(Digits)
      /\ pt \in {<<>>, <<Point>>} /\ (pt = <<>> => d = <<>>)
  BY DEF IsText, IsTyped
<1>2. TextOf(x) = text /\ Meant(x) = (IF Last(<<Plus>> \o sign) = Minus THEN -n ELSE n)
  BY DEF TextOf, Meant
<1>3. c = fromStream(P, "def", format, text)
  BY ClassicFormat DEF fromString
<1> HIDE DEF sign, w, pt, d
<1>4. IsFormat(format) /\ format.point = Point
  BY ClassicFormat DEF IsGrouped, basic_decimal_format
<1>5. CanBeRead(w, format, Amount[w])
  BY <1>1, DigitsCanBeRead
<1> HIDE DEF format
<1>6. w \in Seq(Digits \cup Seps(format)) /\ w[1] \in Digits /\ pt \in {<<>>, <<format.point>>}
  BY <1>1, <1>4, <1>5 DEF CanBeRead
<1>7. ReadAs(parse_unpacked(format, text), sign, w, d)
  BY <1>1, <1>4, <1>6, ParseReads
<1>8. StreamIsNearest(P, c, s, w, d)
  <2>1. StreamIsNearest(P, fromStream(P, "def", format, text), s, w, d)
    BY <1>1, <1>4, <1>6, StreamReads
  <2> QED
    BY <1>3, <2>1
<1>9. n \in Nat /\ Len(d) \in Nat /\ F(Len(d)) \in Nat \ {0}
  <2>1. w \in CharTexts /\ d \in CharTexts
    BY <1>1, DigitsAreChars
  <2> QED
    BY <2>1, Joined, AmountIsNat, FactorIsPositive
<1> HIDE DEF n, text, c
<1>10. Meant(x) = s * n /\ Meant(x) \in Int
  BY <1>2, <1>9 DEF SignOf
<1> HIDE DEF s
<1>11. Typable(P, x) => /\ Len(d) <= MaxPoints /\ CanRound(P, s * n, Len(d))
                        /\ Storable(P, s * n, Len(d))
  BY <1>10 DEF Typable, Storable, d
<1>12. Typable(P, x) => c \in Int /\ Nearest(c, Meant(x) * F(P), F(Len(d)))
  BY <1>8, <1>10, <1>11 DEF StreamIsNearest, n
<1> QED
  BY <1>2, <1>7, <1>9, <1>10, <1>12 DEF ReadAs, c, d, format

\* A double is rounded to the nearest decimal, if that is within the limits.
LEMMA DoubleIsNearest ==
  ASSUME NEW P \in Nat, NEW n \in Int, NEW d \in Nat \ {0}, Fits(n * F(P), d)
  PROVE  LET c == fpToStorage(P, "def", n, d)
         IN  c \in Int /\ Nearest(c, n * F(P), d)
<1> DEFINE f == F(P)
           q == Quot(n, d)
           r == Rem(n, d)
           m == f * r
           z == round("def", m, d)
           c == z + f * q
<1>1. f \in Nat \ {0} /\ d \in Int \ {0} /\ abs(d) = d
  BY FactorIsPositive DEF abs
<1>2. fpToStorage(P, "def", n, d) = Wrapped(c)
  BY DEF fpToStorage
<1>10. n * f \in Int /\ Fits(n * f, d)
  BY <1>1
<1> HIDE DEF f
<1>3. q \in Int /\ r \in Int /\ n = (d * q) + r
  BY <1>1, Division
<1> HIDE DEF q, r
<1>4. m \in Int
  BY <1>1, <1>3
<1>5. n * f = d * (f * q) + m
  BY <1>1, <1>3
<1> HIDE DEF m
<1>6. z \in Int
  <2>1. ~(d < 0)
    BY <1>1
  <2>2. (IF d < 0 THEN round("def", -m, -d) ELSE round("def", m, d)) \in Int
    BY <1>1, <1>4, DefFloatIsInt
  <2> QED
    BY <2>1, <2>2
<1>7. 2 * abs(z * d - m) <= d
  <2>1. Rounded("def", z, m, d)
    BY <1>1, <1>4, DefFloatRounds
  <2> HIDE DEF z
  <2> QED
    BY <2>1 DEF Rounded
<1> HIDE DEF z
<1>8. c \in Int /\ c * d - n * f = z * d - m
  <2> DEFINE k == f * q
  <2>1. k \in Int /\ n * f = d * k + m
    BY <1>1, <1>3, <1>5
  <2>2. c = z + k
    OBVIOUS
  <2> HIDE DEF k, c
  <2>3. (z + k) * d = z * d + d * k /\ z * d \in Int /\ d * k \in Int
    BY <1>6, <2>1
  <2> QED
    BY <1>4, <1>6, <2>1, <2>2, <2>3
<1>9. c \in Int /\ Nearest(c, n * F(P), d)
  <2> HIDE DEF c
  <2> QED
    BY <1>1, <1>7, <1>8 DEF Nearest, f
<1>11. Wrapped(c) = c
  <2>1. Nearest(c, n * f, d)
    BY <1>9 DEF f
  <2> HIDE DEF c
  <2> QED
    BY <1>1, <1>9, <1>10, <2>1, NearestFits
<1> QED
  BY <1>2, <1>9, <1>11

\* The nearest decimal never compares the wrong way with what it is made of.
Ordered(c, n, d) ==
  \A v \in Int : /\ v < c => v * d < n
                 /\ ~(v < c) /\ v # c => v * d > n

LEMMA NearestIsOrdered ==
  ASSUME NEW c \in Int, NEW n \in Int, NEW d \in Nat \ {0}, Nearest(c, n, d)
  PROVE  Ordered(c, n, d)
<1> SUFFICES ASSUME NEW v \in Int
             PROVE  (v < c => v * d < n) /\ (~(v < c) /\ v # c => v * d > n)
  BY DEF Ordered
<1> DEFINE x == c * d
           y == v * d
<1>1. x \in Int /\ y \in Int
  OBVIOUS
<1>2. (v < c => y <= x - d) /\ (v > c => y >= x + d)
  <2>1. v <= c - 1 => v * d <= (c - 1) * d
    OBVIOUS
  <2>2. v >= c + 1 => v * d >= (c + 1) * d
    OBVIOUS
  <2>3. (c - 1) * d = x - d /\ (c + 1) * d = x + d
    OBVIOUS
  <2> QED
    BY <2>1, <2>2, <2>3
<1>3. 2 * abs(x - n) <= abs(d)
  BY DEF Nearest
<1> HIDE DEF x, y
<1>4. 2 * abs(x - n) <= d /\ -abs(x - n) <= x - n /\ x - n <= abs(x - n) /\ abs(x - n) \in Int
  BY <1>1, <1>3 DEF abs
<1>5. v < c => y < n
  BY <1>1, <1>2, <1>4
<1>6. ~(v < c) /\ v # c => y > n
  BY <1>1, <1>2, <1>4
<1> QED
  BY <1>5, <1>6 DEF y

\* What a constructor is given.
IsArgument(x) ==
  \/ x.type = "int" /\ x.n \in Int
  \/ x.type = "double" /\ x.n \in Int /\ x.d \in Nat \ {0}
  \/ x.type = "decimal" /\ x.m_value \in Int /\ x.P \in 0 .. MaxPoints
  \/ x.type = "text" /\ IsText(x)

\* A decimal made of it is the nearest.
MadeOf(P, x) ==
  LET m == Meaning(x)
      c == decimal_cast(P, "def", x)
  IN  /\ m.n \in Int /\ m.d \in Nat \ {0}
      /\ Constructible(P, x) => c \in Int /\ Nearest(c, m.n * F(P), m.d)

LEMMA CastIsNearest ==
  ASSUME NEW P \in 0 .. MaxPoints, NEW x, IsArgument(x)
  PROVE  MadeOf(P, x)
<1>5. P \in Nat
  BY FactorsFit
<1>6. Constructible(P, x) => Fits(Meaning(x).n * F(P), Meaning(x).d)
  BY DEF Constructible
<1>1. CASE x.type = "int" /\ x.n \in Int
  <2>1. Meaning(x).n = x.n /\ Meaning(x).d = 1 /\ decimal_cast(P, "def", x) = Wrapped(F(P) * x.n)
    BY <1>1 DEF Meaning, decimal_cast, Constructed
  <2> DEFINE n == x.n
             c == F(P) * n
  <2>2. c \in Int /\ n * F(P) \in Int /\ c * 1 = n * F(P) /\ n \in Int /\ 1 \in Nat \ {0}
    BY <1>1, <1>5, FactorIsPositive
  <2>3. Nearest(c, n * F(P), 1)
    <3> HIDE DEF c
    <3> QED
      BY <2>2, ExactIsNearest
  <2>4. Fits(n * F(P), 1) => Wrapped(c) = c
    <3> HIDE DEF c
    <3>1. 1 \in Int \ {0}
      OBVIOUS
    <3> QED
      BY <2>2, <2>3, <3>1, NearestFits
  <2> QED
    BY <1>6, <2>1, <2>2, <2>3, <2>4 DEF MadeOf
<1>2. CASE x.type = "double" /\ x.n \in Int /\ x.d \in Nat \ {0}
  <2>1. Meaning(x).n = x.n /\ Meaning(x).d = x.d /\ decimal_cast(P, "def", x) = fpToStorage(P, "def", x.n, x.d)
    BY <1>2 DEF Meaning, decimal_cast, Constructed
  <2>2. Fits(x.n * F(P), x.d) =>
          LET c == fpToStorage(P, "def", x.n, x.d) IN c \in Int /\ Nearest(c, x.n * F(P), x.d)
    BY <1>2, <1>5, DoubleIsNearest
  <2> QED
    BY <1>2, <1>6, <2>1, <2>2 DEF MadeOf
<1>3. CASE x.type = "decimal" /\ x.m_value \in Int /\ x.P \in 0 .. MaxPoints
  <2>1. Meaning(x).n = x.m_value /\ Meaning(x).d = F(x.P)
        /\ decimal_cast(P, "def", x) = initWithPrec(P, "def", x.m_value, F(x.P))
    BY <1>3 DEF Meaning, decimal_cast
  <2>2. Constructible(P, x) => CanRound(P, x.m_value, x.P)
    BY <1>3 DEF Constructible
  <2>5. x.P \in Nat
    BY <1>3, FactorsFit
  <2>3. CanRound(P, x.m_value, x.P) /\ Fits(x.m_value * F(P), F(x.P)) =>
          LET c == initWithPrec(P, "def", x.m_value, F(x.P))
          IN  c \in Int /\ Nearest(c, x.m_value * F(P), F(x.P))
    BY <1>3, <1>5, <2>5, InitIsNearest
  <2>4. F(x.P) \in Nat \ {0}
    BY <2>5, FactorIsPositive
  <2> QED
    BY <1>3, <1>6, <2>1, <2>2, <2>3, <2>4 DEF MadeOf
<1>4. CASE x.type = "text" /\ IsText(x)
  <2>1. Meaning(x).n = Meant(x) /\ Meaning(x).d = F(Len(x.fraction))
        /\ decimal_cast(P, "def", x) = fromString(P, "def", TextOf(x))
    BY <1>4 DEF Meaning, decimal_cast, Constructed
  <2>2. Constructible(P, x) => Typable(P, x)
    BY <1>4 DEF Constructible
  <2> QED
    BY <1>4, <2>1, <2>2, TypedIsRead DEF MadeOf
<1> QED
  BY <1>1, <1>2, <1>3, <1>4 DEF IsArgument

\* A decimal that is written is read back in every format of which the reader
\* can tell the point and the separators from digits and from each other, unless
\* the stream groups the digits after the point; of a typed number the nearest
\* decimal is read, and what a decimal is made of is never compared the wrong
\* way, as long as the decimal is within the limits: for every width, precision,
\* value and text.
THEOREM TextsAreReadBack == DecimalSpec => []DecimalReadsBack
<1>1. CallInit => DecimalReadsBack
  BY DEF CallInit, DecimalReadsBack, NoCall
<1>2. DecimalReadsBack /\ [DecimalNext]_call => DecimalReadsBack'
  <2> SUFFICES ASSUME DecimalReadsBack, [DecimalNext]_call PROVE DecimalReadsBack'
    OBVIOUS
  <2>1. CASE Round \/ MultDiv \/ Arithmetic \/ Whole
    BY <2>1, CallsAreNamed DEF DecimalReadsBack
  <2>2. CASE Construction
    <3>1. PICK P \in Prec, x \in Arguments, v \in Units :
            call' = [f |-> "cast", P |-> P, x |-> x, v |-> v,
                     cast |-> decimal_cast(P, "def", x),
                     assigned |-> IF x.type \in {"int", "double"} THEN {Assigned(P, "def", x)} ELSE {},
                     comparable |-> x.type # "decimal",
                     less |-> x.type # "decimal" /\ LessThan(P, "def", v, x),
                     equal |-> x.type # "decimal" /\ EqualTo(P, "def", v, x)]
      BY <2>2 DEF Construction
    <3>2. P \in 0 .. MaxPoints /\ P \in Nat /\ v \in Int /\ IsArgument(x)
      <4>1. P \in 0 .. MaxPoints /\ P \in Nat /\ v \in Int
        BY DecimalCallsAssumption, FactorsFit, WidthIsPositive
      <4>2. IsArgument(x)
        BY TextAssumption, WidthIsPositive DEF IsArgument, IsText
      <4> QED
        BY <4>1, <4>2
    <3> DEFINE k == call'
               c == decimal_cast(P, "def", x)
               n == Meaning(x).n * F(P)
               d == Meaning(x).d
    <3>3. /\ k.f = "cast" /\ k.P = P /\ k.x = x /\ k.v = v /\ k.cast = c
          /\ k.assigned = (IF x.type \in {"int", "double"} THEN {Assigned(P, "def", x)} ELSE {})
          /\ k.comparable = (x.type # "decimal")
          /\ k.less = (x.type # "decimal" /\ LessThan(P, "def", v, x))
          /\ k.equal = (x.type # "decimal" /\ EqualTo(P, "def", v, x))
      BY <3>1
    <3>4. MadeOf(P, x)
      BY <3>2, CastIsNearest
    <3>5. d \in Nat \ {0} /\ n \in Int
      BY <3>2, <3>4, FactorIsPositive DEF MadeOf
    <3>6. k.assigned \subseteq {c}
      BY <3>3 DEF Assigned, decimal_cast, Constructed
    <3>7. x.type # "decimal" => k.less = (v < c) /\ k.equal = (v = c)
      BY <3>3 DEF LessThan, EqualTo, decimal_cast
    <3>8. ConstructedIs(k)
      <4> SUFFICES ASSUME Constructible(P, x)
                   PROVE  /\ Nearest(c, n, d) /\ k.assigned \subseteq {c}
                          /\ k.less => v * d < n
                          /\ k.comparable /\ ~k.less /\ ~k.equal => v * d > n
        BY <3>3 DEF ConstructedIs
      <4>1. c \in Int /\ Nearest(c, n, d)
        BY <3>4 DEF MadeOf
      <4> HIDE DEF c, n, d, k
      <4>2. Ordered(c, n, d)
        BY <3>5, <4>1, NearestIsOrdered
      <4> QED
        BY <3>2, <3>3, <3>6, <3>7, <4>1, <4>2 DEF Ordered
    <3> QED
      BY <3>3, <3>8 DEF DecimalReadsBack
  <2>3. CASE Text
    <3> DEFINE IsCall(P, v, stream, format) ==
          call' = [f |-> "text", P |-> P, v |-> v, format |-> format, stream |-> stream,
                   text |-> toStream(P, format, stream, v),
                   read |-> fromStream(P, "def", format, toStream(P, format, stream, v)),
                   plain |-> fromString(P, "def", toString(P, v))]
    <3>1. PICK P \in Prec, v \in Units, stream \in Streams :
            \E format \in Formats \cup {format_from_stream({stream})} : IsCall(P, v, stream, format)
      BY <2>3 DEF Text
    <3>5. PICK format \in Formats \cup {format_from_stream({stream})} : IsCall(P, v, stream, format)
      BY <3>1
    <3>2. P \in 0 .. MaxPoints /\ v \in -IntMax .. IntMax
      BY DecimalCallsAssumption
    <3>6. IsFacet(stream) /\ stream.point \in Nat
      BY TextAssumption DEF IsFacet
    <3>7. IsNatural(format)
      <4>1. CASE format \in Formats
        BY <4>1, TextAssumption DEF IsNatural
      <4>2. CASE format = format_from_stream({stream})
        BY <3>6, <4>2, StreamFormat
      <4> QED
        BY <4>1, <4>2
    <3>3. Readable(format) /\ Ungrouped(P, format, stream) =>
            fromStream(P, "def", format, toStream(P, format, stream, v)) = v
      <4>1. Readable(format) => IsGrouped(format)
        BY <3>7 DEF IsNatural, IsGrouped, IsFormat, Readable
      <4> QED
        BY <3>2, <3>6, <4>1, ReadBack
    <3>4. fromString(P, "def", toString(P, v)) = v
      <4>1. Ungrouped(P, basic_decimal_format, Classic)
        BY ClassicFormat DEF Ungrouped
      <4> QED
        BY <3>2, <4>1, ClassicFormat, ReadBack DEF fromString, toString
    <3> QED
      BY <3>3, <3>4, <3>5 DEF DecimalReadsBack
  <2>4. CASE Typed
    <3> DEFINE IsCall(P, x) ==
          /\ IsTyped(x)
          /\ call' = [f |-> "typed", P |-> P, x |-> x,
                      ok |-> parse_unpacked(basic_decimal_format, TextOf(x)).ok,
                      read |-> fromString(P, "def", TextOf(x))]
    <3>4. PICK P \in Prec : \E y : IsCall(P, y)
      BY <2>4 DEF Typed
    <3>1. PICK x : IsCall(P, x)
      BY <3>4
    <3>2. P \in 0 .. MaxPoints
      BY DecimalCallsAssumption
    <3>3. x.whole # <<>> => TypedIs(call')
      <4> SUFFICES ASSUME x.whole # <<>> PROVE TypedIs(call')
        OBVIOUS
      <4>1. IsText(x)
        BY <3>1 DEF IsText
      <4> QED
        BY <3>1, <3>2, <4>1, TypedIsRead DEF TypedIs
    <3> QED
      BY <3>1, <3>3 DEF DecimalReadsBack
  <2>5. CASE UNCHANGED call
    BY <2>5 DEF DecimalReadsBack
  <2> QED
    BY <2>1, <2>2, <2>3, <2>4, <2>5 DEF DecimalNext
<1> QED
  BY <1>1, <1>2, PTL DEF DecimalSpec
=============================================================================
