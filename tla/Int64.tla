------------------------------- MODULE Int64 -------------------------------
(***************************************************************************)
(* The integers of Go: int64 and time.Duration, in two's complement.  The  *)
(* width is a constant, so that values that wrap around stay small.        *)
(***************************************************************************)
EXTENDS Integers

CONSTANT Width  \* bits of an int64, 64 in Go

ASSUME WidthAssumption == Width \in Nat \ {0, 1}

Modulus == 2 ^ Width
MaxInt  == 2 ^ (Width - 1) - 1
MinInt  == -(2 ^ (Width - 1))

\* What the powers of two give, whatever the width.
ASSUME WordAssumption == MaxInt \in Nat \ {0} /\ MinInt = -MaxInt - 1 /\ Modulus = 2 * MaxInt + 2

\* Arithmetic wraps around.
Wrap(x) == LET r == x % Modulus IN IF r <= MaxInt THEN r ELSE r - Modulus
=============================================================================
