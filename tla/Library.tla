------------------------------ MODULE Library ------------------------------
(***************************************************************************)
(* The parts that share no state with another: SubmitBatch and the timer   *)
(* of a worker (taskqueue/sqs), the typed configs, retry, metrics, and the *)
(* conversions of timeutil, kin and kin/friendbot.  One behaviour is about *)
(* one of them; a conversion is one call.                                  *)
(***************************************************************************)
EXTENDS TaskSubmitter, VisibilityTimer, ConfigWrapper, Retry, Metrics, TimeUtil, Quarks

CONSTANTS
  Inputs  \* the arguments to consider, for each conversion

VARIABLES
  part,     \* "submit", "timer", "config", "retry", "metrics" or a conversion
  arg,      \* its argument, once it is called
  ret       \* what it returned, <<>> before

callVars == <<part, arg, ret>>
sqsVars == <<submitVars, timerVars>>
allVars == <<sqsVars, configVars, retryVars, metricsVars, callVars>>

Conversions == {"SafeUnix", "ToUnixMillis", "FromUnixMillis", "ToTimestamp", "FromTimestamp",
                "ParseISO8601", "ToQuarks", "FromQuarks", "CreateAccount", "FundAccount"}

\* Where a part that the behaviour is not about stays.
IdleSubmit == SubmitInit /\ len = 0

IdleConfig == ConfigInit /\ wrapper = "String" /\ source = "noop"

IdleRetry ==
  /\ strategies = <<>> /\ maxAttempts = 0 /\ looping = FALSE
  /\ backoff = [strategy |-> "constant", base |-> 0, max |-> 0]
  /\ retrying = "act" /\ i = 1 /\ k = 1 /\ lastErr = "nil"
  /\ calls = 0 /\ fails = 0 /\ slept = <<>>

IdleMetrics == MetricsInit /\ client.kind = "memory" /\ client.global = <<>> /\ timer.len = 0

LibraryInit ==
  /\ part \in {"submit", "timer", "config", "retry", "metrics"} \cup Conversions
  /\ arg = 0 /\ ret = <<>>
  /\ IF part = "submit" THEN SubmitInit ELSE IdleSubmit
  /\ TimerInit
  /\ IF part = "config" THEN ConfigInit ELSE IdleConfig
  /\ IF part = "retry" THEN RetryInit ELSE IdleRetry
  /\ IF part = "metrics" THEN MetricsInit ELSE IdleMetrics

Call ==
  /\ part \in Conversions
  /\ ret = <<>>
  /\ \E a \in Inputs[part] :
       /\ arg' = a
       /\ ret' = <<CASE part = "SafeUnix"       -> SafeUnix(a)
                     [] part = "ToUnixMillis"   -> ToUnixMillis(a)
                     [] part = "FromUnixMillis" -> FromUnixMillis(a)
                     [] part = "ToTimestamp"    -> ToTimestamp(a)
                     [] part = "FromTimestamp"  -> FromTimestamp(a)
                     [] part = "ParseISO8601"   -> ParseISO8601(a)
                     [] part = "ToQuarks"       -> ToQuarks(a)
                     [] part = "FromQuarks"     -> FromQuarks(a)
                     [] part = "CreateAccount"  -> CreateAccount(a)
                     [] part = "FundAccount"    -> FundAccount(a)>>
  /\ UNCHANGED <<part, sqsVars, configVars, retryVars, metricsVars>>

LibraryNext ==
  \/ part = "submit" /\ SubmitNext /\ UNCHANGED <<timerVars, configVars, retryVars, metricsVars, callVars>>
  \/ part = "timer" /\ TimerNext /\ UNCHANGED <<submitVars, configVars, retryVars, metricsVars, callVars>>
  \/ part = "config" /\ ConfigNext /\ UNCHANGED <<sqsVars, retryVars, metricsVars, callVars>>
  \/ part = "retry" /\ RetryNext /\ UNCHANGED <<sqsVars, configVars, metricsVars, callVars>>
  \/ part = "metrics" /\ MetricsNext /\ UNCHANGED <<sqsVars, configVars, retryVars, callVars>>
  \/ Call

LibrarySpec == LibraryInit /\ [][LibraryNext]_allVars

-----------------------------------------------------------------------------
Returned(conversion) == part = conversion /\ ret # <<>>

Clamp(n, low, high) == IF n < low THEN low ELSE IF n > high THEN high ELSE n
Instant(sec, nsec) == sec * Second + nsec
InstantOf(t) == Instant(t.sec, t.nsec)
Oldest == InstantOf(ZeroTime)
Latest == InstantOf(MaxTime)

\* In exact arithmetic, what timeutil makes of a time is that time, or the nearest
\* that a timestamp can hold, or the limit that the code documents: no sum or
\* product wraps around unseen.  The exceptions are seconds so close to the ends of
\* an int64 that the carry of the nanoseconds wraps, a time.Time whose year is over
\* a bound in its own location only, and milliseconds that FromUnixMillis refuses.
TimesExact ==
  /\ Returned("FromTimestamp") /\ arg.seconds \in MinInt + 3 .. MaxInt - 3 =>
       InstantOf(ret[1]) = Clamp(Instant(arg.seconds, arg.nanos), Oldest, Latest)
  /\ Returned("ToTimestamp") =>
       /\ ret[1].nanos \in 0 .. Second - 1
       /\ arg.sec + arg.zone <= MaxTimestampSeconds \/ arg.sec > MaxTimestampSeconds =>
            Instant(ret[1].seconds, ret[1].nanos) = Clamp(InstantOf(arg), Oldest, Latest)
       /\ InstantOf(FromTimestamp(ret[1])) = Instant(ret[1].seconds, ret[1].nanos)
  /\ Returned("ToUnixMillis") =>
       /\ arg.sec + arg.zone < NanoYear => ret[1] = Clamp(InstantOf(arg), 0, InstantOf(arg)) \div Millisecond
       /\ InstantOf(FromUnixMillis(ret[1])) <= Latest
  /\ Returned("FromUnixMillis") /\ arg < MaxInt \div Millis =>
       InstantOf(ret[1]) = arg * Millisecond
  /\ Returned("SafeUnix") /\ arg \in -UnixBound .. UnixBound => InstantOf(ret[1]) = arg * Second

\* The value that the text of a duration stands for in Java.
DurationOf(d) ==
  LET number(n) == IF n = <<>> THEN 0 ELSE n[1]
      sum == (IF number(d.seconds) < 0 THEN -d.nanos ELSE d.nanos)
             + Second * (number(d.seconds) + Minute * number(d.minutes)
                         + Hour * number(d.hours) + Day * number(d.days))
  IN  IF d.sign = "-" THEN -sum ELSE sum

\* The value of an amount that has no sign.
QuarksOf(t) ==
  t.whole.value * QuarksPerKin
  + (IF t.frac = <<>> THEN 0 ELSE t.frac[1].value * 10 ^ (QuarkDigits - t.frac[1].len))

\* A duration or an amount that is accepted is exact, as far as its numbers are
\* above the least int64, no seconds with a sign have a fraction, and the amount is
\* below the largest; FromQuarks of an amount can be read again; and friendbot is
\* asked for the amount that was meant if its fraction needs no zero in front.
NumbersExact ==
  /\ /\ Returned("ParseISO8601") /\ ret[1] # <<>>
     /\ \A n \in {arg.days, arg.hours, arg.minutes, arg.seconds} : n # <<MinInt>>
     /\ arg.nanos = 0 \/ arg.seconds[1] >= 0
     => ret[1][1] = DurationOf(arg)
  /\ Returned("ToQuarks") /\ ret[1] # <<>> /\ ~arg.minus /\ QuarksOf(arg) <= MaxInt =>
       ret[1][1] = QuarksOf(arg)
  /\ Returned("FromQuarks") =>
       IF arg >= 0 THEN ToQuarks(ret[1]) = <<arg>> ELSE ToQuarks(ret[1]) = <<>>
  /\ /\ Returned("CreateAccount") \/ Returned("FundAccount")
     /\ ret[1] # <<>>
     /\ arg % QuarksPerKin = 0 \/ arg % QuarksPerKin >= QuarksPerKin \div 10
     => QuarksOf(ret[1][1]) = arg

\* "FundAccount funds an existing account on the test Kin network with the
\* requested amount."
FundsRequested ==
  Returned("FundAccount") /\ ret[1] # <<>> => QuarksOf(ret[1][1]) = arg

\* "An error is returned if the value string is invalid, or it cannot be accurately
\* represented as quarks."
Represented ==
  Returned("ToQuarks") /\ ~arg.minus /\ ret[1] # <<>> => ret[1][1] = QuarksOf(arg)
=============================================================================
