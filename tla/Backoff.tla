------------------------------ MODULE Backoff ------------------------------
(***************************************************************************)
(* The delays of retry/backoff/backoff.go and the cap and jitter of        *)
(* retry/strategy.go.                                                      *)
(***************************************************************************)
EXTENDS Int64

CONSTANT Precision  \* bits of the significand of a float64, 53 in Go

MaxExact == 2 ^ Precision  \* up to here a float64 holds every integer

-----------------------------------------------------------------------------
(***************************************************************************)
(* External: float64.  Above MaxExact the integers it holds lie apart.     *)
(***************************************************************************)
Spacing(n) ==
  CHOOSE u \in {2 ^ e : e \in 0 .. Width} : n <= MaxExact * u /\ (u = 1 \/ 2 * n > MaxExact * u)

\* float64(n) for n >= 0: the nearest, and of two the one with an even significand.
Float(n) ==
  LET u == Spacing(n)
      low == n \div u
      rest == 2 * (n % u)
  IN  u * (IF rest > u \/ (rest = u /\ low % 2 = 1) THEN low + 1 ELSE low)

\* time.Duration(x) for a float64, which on amd64 gives the least integer for a
\* value out of range.
FromFloat(x) == IF x \in MinInt .. MaxInt THEN x ELSE MinInt

\* The integer part of math.Pow(num / den, n).
Pow(num, den, n) == Float(num ^ n \div den ^ n)

\* How far the integer part of a product with n may be from the exact one: the
\* factor and the product are rounded, and what is behind the point is cut off.
Slack(n) == IF n = 0 THEN 0 ELSE 1 + (3 * n) \div MaxExact

-----------------------------------------------------------------------------
Constant(interval, attempts) == interval

Linear(baseDelay, attempts) ==
  LET delay == Wrap(baseDelay * attempts) IN IF delay >= 0 THEN delay ELSE MaxInt

\* Variant: the exponent starts at 1.
ExponentialLate(baseDelay, num, den, attempts) ==
  LET delay == Wrap(baseDelay * FromFloat(Pow(num, den, attempts)))
  IN  IF delay >= 0 THEN delay ELSE MaxInt

\* The power is cut to an integer before it is multiplied.
Exponential(baseDelay, num, den, attempts) ==
  LET delay == Wrap(baseDelay * FromFloat(Pow(num, den, attempts - 1)))
  IN  IF delay >= 0 THEN delay ELSE MaxInt

BinaryExponential(baseDelay, attempts) == Exponential(baseDelay, 2, 1, attempts)

\* The cap and the delay are compared as float64.  A cap that is rounded to more
\* than the largest duration, such as that duration itself, makes the least of it.
Capped(delay, maxBackoff) ==
  LET max == Float(maxBackoff)
      f == Float(delay)
  IN  FromFloat(IF f < max THEN f ELSE max)

\* The end of the range of BackoffWithJitter that is off by the given percentage.
Jittered(capped, percent) ==
  LET n == IF capped < 0 THEN -capped ELSE capped
      exact == (n * (100 + percent)) \div 100
      end == IF percent > 0 THEN exact + Slack(n)
             ELSE IF exact > Slack(n) THEN exact - Slack(n) ELSE 0
  IN  FromFloat(IF capped < 0 THEN -end ELSE end)
=============================================================================
