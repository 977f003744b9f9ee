--------------------------- MODULE RateConversion ---------------------------
(***************************************************************************)
(* Sample rates as a factor and a multiplier of 16 bits (pack.c) and back  *)
(* (unpack.c).  A rate is a rational <<p, q>>; the doubles of the code are *)
(* taken as exact.                                                         *)
(***************************************************************************)
EXTENDS Integers

CONSTANTS
  MaxFactor,     \* the largest factor: 32767
  RatePrecision  \* the inverse of the precision asked for: 10^8

ASSUME RateAssumption == MaxFactor \in Nat \ {0, 1} /\ RatePrecision \in Nat \ {0}

Reciprocal(r) == <<r[2], r[1]>>
SameRate(r, s) == r[1] * s[2] = s[1] * r[2]
Apart(r, s) == LET d == r[1] * s[2] - s[1] * r[2] IN IF d < 0 THEN <<-d, r[2] * s[2]>> ELSE <<d, r[2] * s[2]>>
MoreThan(r, inverse) == r[1] * inverse > r[2]

(* The convergents of the continued fraction of rate, up to the first one  *)
(* that is close enough or too large; the one before it if it is too       *)
(* large.  x is what is left to expand, a and b are numerator and          *)
(* denominator, a1 and b1 those of the convergent before.                  *)
RECURSIVE Convergent(_, _, _, _, _, _)
Convergent(rate, x, a, b, a1, b1) ==
  LET part == (x[1] * RatePrecision + x[2]) \div (x[2] * RatePrecision)
  IN  CASE ~(a < MaxFactor /\ b < MaxFactor) -> IF b1 = 0 THEN <<a, b>> ELSE <<a1, b1>>
        [] ~MoreThan(Apart(rate, <<a, b>>), RatePrecision) -> <<a, b>>
        [] OTHER -> Convergent(rate, <<x[2], x[1] - part * x[2]>>, part * a + a1, part * b + b1, a, b)

ms_ratapprox(rate) ==
  LET whole == (rate[1] * RatePrecision + rate[2]) \div (rate[2] * RatePrecision)
  IN  Convergent(rate, <<rate[2], rate[1] - whole * rate[2]>>, whole, 1, 1, 0)

(* The whole part of the square root.  The estimate of the code is never   *)
(* below the root, and too close to it to reach the next integer.          *)
ms_rsqrt64(n) == CHOOSE s \in 0 .. MaxFactor : s * s <= n /\ (s + 1) * (s + 1) > n

(* The search for a divisor downwards from the root; the divisor with the  *)
(* smallest remainder when the other factor becomes too large.             *)
RECURSIVE SearchFactor(_, _, _, _)
SearchFactor(n, s, closest, closestdiff) ==
  LET next == s - 1
      better == n % next < closestdiff
      factor == IF better THEN next ELSE closest
  IN  CASE n % s = 0 -> s
        [] n \div (next - 1) > MaxFactor -> factor
        [] OTHER -> SearchFactor(n, next, factor, IF better THEN n % next ELSE closestdiff)

NoFactors == [ok |-> FALSE, f |-> 0, m |-> 0]
Factors(f, m) == [ok |-> TRUE, f |-> f, m |-> m]

ms_reduce_rate(rate) ==
  LET n == (2 * rate[1] + rate[2]) \div (2 * rate[2])
      whole == rate[1] = n * rate[2]
      root == ms_rsqrt64(n)
      f1 == SearchFactor(n, root, root, root)
  IN  CASE whole /\ n <= MaxFactor -> Factors(n, 1)
        [] whole /\ n <= MaxFactor * MaxFactor ->
             IF f1 <= MaxFactor /\ n \div f1 <= MaxFactor THEN Factors(f1, n \div f1) ELSE NoFactors
        [] ~whole /\ rate[1] <= MaxFactor * rate[2] ->
             LET r == ms_ratapprox(rate) IN Factors(r[1], -r[2])
        [] OTHER -> NoFactors

(* Rates below one are given by their period: both factors negated.        *)
ms_genfactmult(rate) ==
  CASE rate[1] = 0 -> Factors(0, 0)
    [] rate[1] >= rate[2] -> ms_reduce_rate(rate)
    [] OTHER -> LET r == ms_reduce_rate(Reciprocal(rate)) IN [r EXCEPT !.f = -r.f, !.m = -r.m]

ms_nomsamprate(f, m) ==
  LET base == CASE f > 0 -> <<f, 1>> [] f < 0 -> <<1, -f>> [] OTHER -> <<0, 1>>
  IN  CASE m > 0 -> <<base[1] * m, base[2]>>
        [] m < 0 -> <<base[1], base[2] * (-m)>>
        [] OTHER -> base
=============================================================================
