------------------------------ MODULE Rounding ------------------------------
(***************************************************************************)
(* How dec::decimal (decimal.h) rounds: div_rounded and round of each      *)
(* policy.  Floating point arguments are exact fractions n/d, d > 0.       *)
(***************************************************************************)
EXTENDS Integers

CONSTANT IntMax  \* DEC_MAX_INT64

ASSUME IntMaxAssumption == IntMax \in Nat \ {0}

IntMin == -IntMax - 1

\* What int64 makes of a sum, a difference or a product that is x.
Wrapped(x) == IntMin + ((x - IntMin) % (IntMax - IntMin + 1))

abs(x) == IF x < 0 THEN -x ELSE x

\* C++ division and remainder, which truncate.
Quot(a, b) ==
  LET q == abs(a) \div abs(b) IN IF (a < 0) = (b < 0) THEN q ELSE -q
Rem(a, b) == a - b * Quot(a, b)

-----------------------------------------------------------------------------
(* The rounding policies: div_rounded(output, a, b) of each.               *)

Policies == {"null", "def", "half_down", "half_up", "half_even", "ceiling",
             "floor", "round_up"}

Output(x)  == [ok |-> TRUE, output |-> x]
Overflowed == [ok |-> FALSE, output |-> 0]

\* a can be moved away from 0 by x.
Room(a, x) == IF a >= 0 THEN IntMax - a >= x ELSE a - IntMin >= x

Toward(a, x) == IF a >= 0 THEN a - x ELSE a + x
Away(a, x)   == IF a >= 0 THEN a + x ELSE a - x

def_div_rounded(a, b) ==
  LET corr == abs(b) \div 2
  IN  IF Room(a, corr)     THEN Output(Quot(Away(a, corr), b))
      ELSE IF Rem(a, b) < corr THEN Output(Quot(a, b))
      ELSE Overflowed

\* A slip: half is rounded up.
half_down_up(a, b) ==
  LET corr == abs(b) \div 2
  IN  IF ~Room(a, corr) THEN Overflowed
      ELSE IF a >= 0 /\ abs(a) % abs(b) < corr THEN Output(Quot(a, b))
      ELSE Output(Quot(Away(a, corr), b))

half_down_div_rounded(a, b) ==
  LET corr == abs(b) \div 2
  IN  IF ~Room(a, corr) THEN Overflowed
      ELSE IF a >= 0 /\ abs(a) % abs(b) <= corr THEN Output(Quot(a, b))
      ELSE Output(Quot(Away(a, corr), b))

half_up_div_rounded(a, b) ==
  LET corr == abs(b) \div 2
      r    == abs(a) % abs(b)
  IN  CASE ~Room(a, corr)       -> Overflowed
        [] a >= 0 /\ r >= corr  -> Output(Quot(a + corr, b))
        [] a >= 0 /\ r < corr   -> Output(Quot(a, b))
        [] a < 0 /\ r < corr    -> Output(Quot(a - r, b))
        [] a < 0 /\ r = corr    -> Output(Quot(a + corr, b))
        [] OTHER                -> Output(Quot(a + r - abs(b), b))

\* A remainder of half of an odd b, rounded down, counts as a tie.
half_even_div_rounded(a, b) ==
  LET half == abs(b) \div 2
      r    == abs(a) % abs(b)
      up   == r > half \/ (r = half /\ abs(Quot(a, b)) % 2 # 0)
  IN  IF r # 0 /\ up THEN Output(Quot(Toward(a, r - abs(b)), b))
                     ELSE Output(Quot(Toward(a, r), b))

ceiling_div_rounded(a, b) ==
  IF abs(a) % abs(b) # 0 /\ a >= 0 THEN Output(Quot(a + abs(b), b))
                                   ELSE Output(Quot(a, b))

floor_div_rounded(a, b) ==
  LET r == abs(a) % abs(b)
  IN  IF r # 0 /\ a < 0 THEN Output(Quot(a + r - abs(b), b))
                        ELSE Output(Quot(a, b))

round_up_div_rounded(a, b) ==
  IF abs(a) % abs(b) # 0 THEN Output(Quot(Away(a, abs(b)), b))
                         ELSE Output(Quot(a, b))

div_rounded(policy, a, b) ==
  CASE policy = "null"      -> Output(Quot(a, b))
    [] policy = "def"       -> def_div_rounded(a, b)
    [] policy = "half_down" -> half_down_div_rounded(a, b)
    [] policy = "half_up"   -> half_up_div_rounded(a, b)
    [] policy = "half_even" -> half_even_div_rounded(a, b)
    [] policy = "ceiling"   -> ceiling_div_rounded(a, b)
    [] policy = "floor"     -> floor_div_rounded(a, b)
    [] policy = "round_up"  -> round_up_div_rounded(a, b)

\* round(value) of the policies, for the fraction n/d: towards the integer
\* Low below it or the one above, comparing what is left with 1/2.
Low(n, d) == n \div d
High(n, d) == -((-n) \div d)

\* What is left above the integer before n/d, in units of 1/(2d).
Left(n, d) == 2 * abs(Rem(n, d))

half_down_round(n, d) ==
  IF n >= 0 THEN (IF Left(n, d) > d THEN High(n, d) ELSE Low(n, d))
            ELSE (IF Left(n, d) < d THEN High(n, d) ELSE Low(n, d))

half_up_round(n, d) ==
  IF n >= 0 THEN (IF Left(n, d) >= d THEN High(n, d) ELSE Low(n, d))
            ELSE (IF Left(n, d) <= d THEN High(n, d) ELSE Low(n, d))

half_even_round(n, d) ==
  LET near == Quot(n, d)
      far  == IF n >= 0 THEN High(n, d) ELSE Low(n, d)
  IN  IF Left(n, d) < d \/ (Left(n, d) = d /\ near % 2 = 0) THEN near ELSE far

round(policy, n, d) ==
  CASE policy = "null"     -> Quot(n, d)
    [] policy = "def"      -> Quot(2 * n + (IF n < 0 THEN -d ELSE d), 2 * d)
    [] policy = "ceiling"  -> High(n, d)
    [] policy = "floor"    -> Low(n, d)
    [] policy = "round_up" -> IF n >= 0 THEN High(n, d) ELSE Low(n, d)
    [] policy = "half_down" -> half_down_round(n, d)
    [] policy = "half_up"   -> half_up_round(n, d)
    [] policy = "half_even" -> half_even_round(n, d)
=============================================================================
