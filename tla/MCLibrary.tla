----------------------------- MODULE MCLibrary -----------------------------
(***************************************************************************)
(* Library for model checking, with the arguments of the conversions.      *)
(***************************************************************************)
EXTENDS Library

MCMinTimestampSeconds == -60

MCTimes ==
  {Time(sec, nsec, zone) : sec \in -UnixBound .. UnixBound, nsec \in 0 .. Second - 1,
                           zone \in {-2, 0, 2}}

\* Numbers of a duration at the limits of a unit and of an int64.
MCNumbers(unit) ==
  LET limit == MaxInt \div unit
  IN  {<<>>} \cup {<<n>> : n \in {MinInt - 1, MinInt, -limit - 1, -limit, -1, 0, 1, limit,
                                  limit + 1, MaxInt}}

MCDurations ==
  {d \in [sign : {"", "-"}, days : MCNumbers(Day * Second), hours : MCNumbers(Hour * Second),
          minutes : MCNumbers(Minute * Second), seconds : MCNumbers(Second),
          nanos : {0, 1, Second - 1}] : d.seconds = <<>> => d.nanos = 0}

\* Digits with and without zeros in front, up to one digit too many.
MCDigits(most) ==
  {d \in {Digits(n, digits) : n \in {0, 1, 5, 6, 9, 10, 11, 50, 99, 100, 101, 999}, digits \in 0 .. most} :
     d.value < 10 ^ d.len}

MCTexts ==
  {Text(minus, whole, frac, FALSE) :
     minus \in BOOLEAN, whole \in MCDigits(KinDigits + 1),
     frac \in {<<>>} \cup {<<d>> : d \in MCDigits(QuarkDigits + 1)}}

MCInputs ==
  [c \in Conversions |->
     CASE c = "SafeUnix"       -> MinInt .. MaxInt
       [] c \in {"ToUnixMillis", "ToTimestamp"} -> MCTimes
       [] c = "FromUnixMillis" -> 0 .. Modulus - 1
       [] c = "FromTimestamp"  -> [seconds : MinInt .. MaxInt, nanos : -2 * Second - 1 .. 2 * Second + 1]
       [] c = "ParseISO8601"   -> MCDurations
       [] c = "ToQuarks"       -> MCTexts
       [] c = "FromQuarks"     -> MinInt .. MaxInt
       [] c \in {"CreateAccount", "FundAccount"} -> 0 .. MaxQuarks + 1]
=============================================================================
