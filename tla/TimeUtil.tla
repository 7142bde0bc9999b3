------------------------------ MODULE TimeUtil ------------------------------
(***************************************************************************)
(* timeutil/time.go and timeutil/duration.go.  A time.Time is a number of  *)
(* seconds since 1970, a number of nanoseconds below Second, and the       *)
(* offset of its location, which only Year looks at.  The units and the    *)
(* bounds keep the order, and the remainders, that they have in Go.        *)
(***************************************************************************)
EXTENDS Int64, SequencesExt

CONSTANTS
  Second, Millisecond,  \* nanoseconds in a second, in a millisecond
  Minute, Hour, Day,    \* seconds in a minute, in an hour, in a day
  MinTimestampSeconds,
  MaxTimestampSeconds,
  UnixBound,            \* unixOverflow, and -unixUnderflow
  NanoYear              \* the first second of maxNanoYear

ASSUME TimeAssumption ==
  /\ Second % Millisecond = 0 /\ Second % 2 = 0 /\ MinInt % Second # 0
  /\ -UnixBound < MinTimestampSeconds /\ MinTimestampSeconds < 0
  /\ NanoYear < MaxInt \div Second /\ MaxInt \div Second < MaxTimestampSeconds
  /\ MaxTimestampSeconds < UnixBound /\ UnixBound < MaxInt

Time(sec, nsec, zone) == [sec |-> sec, nsec |-> nsec, zone |-> zone]
ZeroTime == Time(MinTimestampSeconds, 0, 0)
MaxTime  == Time(MaxTimestampSeconds, Second - 1, 0)
In(t, zone) == [t EXCEPT !.zone = zone]

SafeUnix(sec) ==
  CASE sec < -UnixBound -> ZeroTime
    [] sec > UnixBound  -> MaxTime
    [] OTHER            -> Time(sec, 0, 0)

Millis == Second \div Millisecond

ToUnixMillis(t) ==
  CASE t.sec + t.zone >= NanoYear -> MaxTimestampSeconds * Millis
    [] t.sec + t.zone < NanoYear /\ t.sec < 0 -> 0
    [] OTHER -> Wrap(t.sec * Second + t.nsec) \div Millisecond

FromUnixMillis(ms) ==
  LET secs == ms \div Millis
  IN  CASE ms >= MaxInt \div Millis -> ZeroTime
        [] ms < MaxInt \div Millis /\ secs > UnixBound -> MaxTime
        [] OTHER -> Time(secs, (ms % Millis) * Millisecond, 0)

\* The year of t is over 9999, in its location.  A year below 0 is below the
\* least timestamp in any location.
boundTime(t) ==
  CASE t.sec + t.zone > MaxTimestampSeconds \/ t.sec > MaxTimestampSeconds -> In(MaxTime, t.zone)
    [] t.sec < MinTimestampSeconds -> In(ZeroTime, t.zone)
    [] OTHER -> t

ToTimestamp(t) == LET bound == boundTime(t) IN [seconds |-> bound.sec, nanos |-> bound.nsec]

\* Go's division rounds to zero.
Quotient(a, b) == IF a >= 0 THEN a \div b ELSE -((-a) \div b)

\* Variant: a negative remainder is not made up for in the seconds.
FromTimestampNoBorrow(ts) ==
  LET n == Quotient(ts.nanos, Second)
      rest == ts.nanos - n * Second
      sec == Wrap(ts.seconds + n)
      nsec == IF rest < 0 THEN rest + Second ELSE rest
  IN  CASE sec < MinTimestampSeconds -> ZeroTime
        [] sec > MaxTimestampSeconds -> MaxTime
        [] OTHER -> Time(sec, nsec, 0)

FromTimestamp(ts) ==
  LET n == Quotient(ts.nanos, Second)
      rest == ts.nanos - n * Second
      sec == Wrap(ts.seconds + n - (IF rest < 0 THEN 1 ELSE 0))
      nsec == IF rest < 0 THEN rest + Second ELSE rest
  IN  CASE sec < MinTimestampSeconds -> ZeroTime
        [] sec > MaxTimestampSeconds -> MaxTime
        [] OTHER -> Time(sec, nsec, 0)

-----------------------------------------------------------------------------
(***************************************************************************)
(* ParseISO8601.  A duration that the regular expression matches has a     *)
(* sign, four numbers of which any may be missing (<<>>), and the digits   *)
(* after the point, padded.  The result is <<>> for an error.              *)
(***************************************************************************)
absInt64(n) == IF n >= 0 THEN n ELSE Wrap(-n)

addDuration(x, y) ==
  IF x = <<>> THEN <<>>
  ELSE LET r == Wrap(x[1] + y)
       IN  IF (x[1] < 0) # (r < 0) /\ (y < 0) # (r < 0) THEN <<>> ELSE <<r>>

\* A number of the text does not fit into an int64, or is too many units.
Invalid(n, unit) ==
  n # <<>> /\ (n[1] \notin MinInt .. MaxInt \/ absInt64(n[1]) > MaxInt \div unit)

ParseISO8601(d) ==
  LET numbers == <<d.days, d.hours, d.minutes, d.seconds>>
      units   == <<Day * Second, Hour * Second, Minute * Second, Second>>
      terms   == [j \in 1..4 |-> IF numbers[j] = <<>> THEN 0 ELSE Wrap(numbers[j][1] * units[j])]
      sum     == FoldLeft(addDuration, <<terms[1]>>, Append(Tail(terms), d.nanos))
  IN  IF \/ \A j \in 1..4 : numbers[j] = <<>>
         \/ \E j \in 1..4 : Invalid(numbers[j], units[j])
         \/ sum = <<>>
      THEN <<>>
      ELSE <<Wrap((IF d.sign = "-" THEN -1 ELSE 1) * sum[1])>>
=============================================================================
