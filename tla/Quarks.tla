------------------------------- MODULE Quarks -------------------------------
(***************************************************************************)
(* Amounts: ToQuarks and FromQuarks of kin/utils.go, and the amount that   *)
(* kin/friendbot/friendbot.go asks for.                                    *)
(*                                                                         *)
(* The text of an amount is a sign, the digits before the point, and the   *)
(* digits after it if there is a point; digits are a number and how many   *)
(* there are.  negative says that the second number has a sign too.        *)
(***************************************************************************)
EXTENDS Int64

CONSTANTS
  KinDigits,    \* the most characters before the point, 14 in the code
  QuarkDigits,  \* the digits after it, 5 in the code
  MinFund, MaxQuarks  \* bounds of a request to friendbot

QuarksPerKin == 10 ^ QuarkDigits

Digits(n, len) == [value |-> n, len |-> len]
Text(minus, whole, frac, negative) ==
  [minus |-> minus, whole |-> whole, frac |-> frac, negative |-> negative]

\* How many digits %d writes.
DigitsOf(n) == CHOOSE d \in 1 .. n + 1 : n < 10 ^ d /\ (d = 1 \/ n >= 10 ^ (d - 1))

\* Variant: the digits after the point are taken as they are.
ToQuarksUnpadded(t) ==
  IF \/ t.whole.len + (IF t.minus THEN 1 ELSE 0) > KinDigits
     \/ t.whole.len = 0
     \/ t.frac # <<>> /\ (t.frac[1].len > QuarkDigits \/ t.negative)
  THEN <<>>
  ELSE LET kin == IF t.minus THEN -t.whole.value ELSE t.whole.value
           quarks == IF t.frac = <<>> THEN 0 ELSE t.frac[1].value
       IN  <<Wrap(kin * QuarksPerKin + quarks)>>

\* The quarks of a text, or <<>> for an error.  The fraction is added, also to a
\* number with a sign.
ToQuarks(t) ==
  IF \/ t.whole.len + (IF t.minus THEN 1 ELSE 0) > KinDigits
     \/ t.whole.len = 0
     \/ t.frac # <<>> /\ (t.frac[1].len > QuarkDigits \/ t.negative)
  THEN <<>>
  ELSE LET kin == IF t.minus THEN -t.whole.value ELSE t.whole.value
           quarks == IF t.frac = <<>> THEN 0
                     ELSE t.frac[1].value * 10 ^ (QuarkDigits - t.frac[1].len)
       IN  <<Wrap(kin * QuarksPerKin + quarks)>>

\* %05d writes a negative amount with its sign behind the point.
FromQuarks(amount) ==
  IF amount < QuarksPerKin
  THEN Text(FALSE, Digits(0, 1),
            <<Digits(IF amount < 0 THEN -amount ELSE amount, QuarkDigits)>>, amount < 0)
  ELSE LET kin == amount \div QuarksPerKin
       IN  Text(FALSE, Digits(kin, DigitsOf(kin)), <<Digits(amount % QuarksPerKin, QuarkDigits)>>,
                FALSE)

\* The amount of CreateAccount and FundAccount, <<>> if it is out of bounds.
friendbotAmount(least, quarkAmount) ==
  IF quarkAmount < least \/ quarkAmount > MaxQuarks THEN <<>>
  ELSE LET kin == quarkAmount \div QuarksPerKin
           rest == quarkAmount % QuarksPerKin
       IN  <<Text(FALSE, Digits(kin, DigitsOf(kin)), <<Digits(rest, DigitsOf(rest))>>, FALSE)>>

CreateAccount(quarkAmount) == friendbotAmount(0, quarkAmount)
FundAccount(quarkAmount) == friendbotAmount(MinFund, quarkAmount)
=============================================================================
