------------------------------- MODULE Retry -------------------------------
(***************************************************************************)
(* Retry and Loop of retry/retry.go with the strategies of                 *)
(* retry/strategy.go.  A strategy is named here by what it looks at: the   *)
(* attempt counter, the error, or nothing but the clock.                   *)
(***************************************************************************)
EXTENDS Backoff, Sequences

CONSTANTS
  Errors,        \* what the action may return besides nil
  Listed,        \* the errors, or gRPC codes, given to the error strategies
  Limits,        \* the limits to consider
  MaxStrategies, \* bound: how many strategies are given
  BaseDelays,    \* the base delays to consider
  MaxBackoffs,   \* the caps to consider
  Jitter,        \* jitter, in percent
  MaxCalls       \* bound: calls of the action

Names    == {"limit", "retriable", "nonRetriable", "backoff"}
Backoffs == {"constant", "linear", "exponential", "fractional", "binary"}

ASSUME RetryAssumption ==
  /\ "nil" \notin Errors
  /\ Listed \subseteq Errors
  /\ Limits \subseteq Nat
  /\ MaxStrategies \in Nat
  /\ BaseDelays \subseteq 0 .. MaxInt
  /\ MaxBackoffs \subseteq 0 .. MaxInt
  /\ Jitter \in 0 .. 100
  /\ MaxCalls \in Nat

\* Powers are positive.
ASSUME PowersAssumption ==
  \A n \in 0 .. MaxCalls : 1 ^ n = 1 /\ 2 ^ n \in Nat \ {0} /\ 3 ^ n \in Nat \ {0}

\* A float64 has fewer bits than an integer, and holds those up to MaxExact.
ASSUME FloatAssumption ==
  /\ MaxExact \in 1 .. MaxInt
  /\ \A n \in 0 .. MaxInt : Float(n) \in Nat /\ (IF n <= MaxExact THEN Float(n) = n
                                                ELSE Float(n) >= MaxExact)

VARIABLES
  strategies,   \* the strategies, in the order they are given
  maxAttempts,  \* what Limit was given
  looping,      \* whether this is Loop or Retry
  backoff,      \* the backoff.Strategy of the backoff, its base delay and maxBackoff
  retrying,     \* "act", "decide" or "done"
  i,            \* the attempt counter
  k,            \* the strategy that is next
  lastErr,      \* what the action returned last
  calls,        \* history: calls of the action
  fails,        \* history: calls that failed since the last success
  slept         \* history: the sleeps since the last call of the action

conf == <<strategies, maxAttempts, looping, backoff>>
retryVars == <<conf, retrying, i, k, lastErr, calls, fails, slept>>

RetryTypeOK ==
  /\ strategies \in Seq(Names) /\ maxAttempts \in Limits /\ looping \in BOOLEAN
  /\ backoff \in [strategy : Backoffs, base : BaseDelays, max : MaxBackoffs]
  /\ retrying \in {"act", "decide", "done"}
  /\ i \in Nat /\ k \in Nat
  /\ lastErr \in Errors \cup {"nil"}
  /\ calls \in Nat /\ fails \in Nat
  /\ slept \in Seq(Int)

RetryInit ==
  /\ strategies \in UNION {[1 .. n -> Names] : n \in 0 .. MaxStrategies}
  /\ maxAttempts \in Limits
  /\ looping \in BOOLEAN
  /\ backoff \in [strategy : Backoffs, base : BaseDelays, max : MaxBackoffs]
  /\ retrying = "act"
  /\ i = 1
  /\ k = 1
  /\ lastErr = "nil"
  /\ calls = 0
  /\ fails = 0
  /\ slept = <<>>

\* Variant: Loop keeps its counter when the action succeeds.
ActionSucceedsCounting ==
  /\ retrying = "act"
  /\ calls < MaxCalls
  /\ calls' = calls + 1
  /\ lastErr' = "nil"
  /\ fails' = 0
  /\ slept' = <<>>
  /\ IF looping THEN retrying' = retrying /\ i' = i + 1 ELSE retrying' = "done" /\ i' = i
  /\ UNCHANGED <<conf, k>>

\* The action returns nil: Retry returns, Loop sets i to 0 and increments it.
ActionSucceeds ==
  /\ retrying = "act"
  /\ calls < MaxCalls
  /\ calls' = calls + 1
  /\ lastErr' = "nil"
  /\ fails' = 0
  /\ slept' = <<>>
  /\ IF looping THEN retrying' = retrying /\ i' = 1 ELSE retrying' = "done" /\ i' = i
  /\ UNCHANGED <<conf, k>>

ActionFails ==
  /\ retrying = "act"
  /\ calls < MaxCalls
  /\ calls' = calls + 1
  /\ lastErr' \in Errors
  /\ fails' = fails + 1
  /\ slept' = <<>>
  /\ retrying' = "decide"
  /\ k' = 1
  /\ UNCHANGED <<conf, i>>

ShouldRetry(s) ==
  CASE s = "limit"        -> i < maxAttempts
    [] s = "retriable"    -> lastErr \in Listed
    [] s = "nonRetriable" -> lastErr \notin Listed
    [] s = "backoff"      -> TRUE

\* What the strategy given to Backoff or BackoffWithJitter returns.
Delay(attempts) ==
  CASE backoff.strategy = "constant"    -> Constant(backoff.base, attempts)
    [] backoff.strategy = "linear"      -> Linear(backoff.base, attempts)
    [] backoff.strategy = "exponential" -> Exponential(backoff.base, 3, 1, attempts)
    [] backoff.strategy = "fractional"  -> Exponential(backoff.base, 3, 2, attempts)
    [] backoff.strategy = "binary"      -> BinaryExponential(backoff.base, attempts)

\* The sleeps of a Backoff, and the shortest and the longest of a
\* BackoffWithJitter.
Sleeps(delay) ==
  LET capped == Capped(delay, backoff.max)
  IN  {capped} \cup {Jittered(capped, percent) : percent \in {-Jitter, Jitter}}

\* The next strategy decides, and sleeps if it is a backoff.
Decide ==
  /\ retrying = "decide"
  /\ k <= Len(strategies)
  /\ IF strategies[k] = "backoff"
     THEN \E d \in Sleeps(Delay(i)) : slept' = Append(slept, d)
     ELSE UNCHANGED slept
  /\ IF ShouldRetry(strategies[k])
     THEN k' = k + 1 /\ UNCHANGED retrying
     ELSE retrying' = "done" /\ UNCHANGED k
  /\ UNCHANGED <<conf, i, lastErr, calls, fails>>

\* No strategy objects: the next attempt.
Again ==
  /\ retrying = "decide"
  /\ k > Len(strategies)
  /\ retrying' = "act"
  /\ i' = i + 1
  /\ UNCHANGED <<conf, k, lastErr, calls, fails, slept>>

RetryNext == ActionSucceeds \/ ActionFails \/ Decide \/ Again

RetrySpec == RetryInit /\ [][RetryNext]_retryVars

-----------------------------------------------------------------------------
Given(s) == \E n \in DOMAIN strategies : strategies[n] = s

\* An action is repeated after an error only if no strategy given forbids it,
\* in whatever order they are given, and an error is returned only if one does.
\* The limit counts the consecutive calls that failed, also in a Loop that had
\* successes before, and Retry returns the number of calls.
AllStrategiesAgree ==
  LET Forbidden == \/ Given("limit") /\ fails >= maxAttempts
                   \/ Given("retriable") /\ lastErr \notin Listed
                   \/ Given("nonRetriable") /\ lastErr \in Listed
  IN  /\ retrying = "act" /\ fails > 0 => ~Forbidden
      /\ retrying = "done" /\ lastErr # "nil" => Forbidden
      /\ retrying = "done" => i = IF lastErr = "nil" THEN calls ELSE fails

\* The delay after the failures so far that the comments of package backoff
\* document, cut to a nanosecond.
Documented ==
  CASE backoff.strategy = "constant"    -> backoff.base
    [] backoff.strategy = "linear"      -> backoff.base * fails
    [] backoff.strategy = "exponential" -> backoff.base * 3 ^ (fails - 1)
    [] backoff.strategy = "fractional"  -> (backoff.base * 3 ^ (fails - 1)) \div 2 ^ (fails - 1)
    [] backoff.strategy = "binary"      -> backoff.base * 2 ^ (fails - 1)

\* A backoff is given, and only as the last strategy.
BackoffLast ==
  /\ Given("backoff")
  /\ \A n \in DOMAIN strategies : strategies[n] = "backoff" <=> n = Len(strategies)

\* With a cap that leaves a float64 two bits (26 days), no sleep is negative, and
\* none exceeds the cap by more than the jitter and a nanosecond, even after so many
\* attempts that the product of the delay wraps around.  As long as a float64 holds
\* the documented delay, and the base of the power is an integer, it is what the
\* retrier sleeps for, up to the cap, the jitter and a nanosecond.  "any strategies
\* that induce delays should be specified last": then nobody sleeps before giving
\* up, and exactly one backoff passes before each retry.
SleepsAsDocumented ==
  LET capped == IF Documented < backoff.max THEN Documented ELSE backoff.max
  IN  /\ 4 * backoff.max <= MaxExact =>
           \A n \in DOMAIN slept :
             /\ slept[n] \in 0 .. (backoff.max * (100 + Jitter)) \div 100 + 1
             /\ Documented <= MaxExact /\ backoff.strategy # "fractional" =>
                  slept[n] \in (capped * (100 - Jitter)) \div 100 - 1
                                .. (capped * (100 + Jitter)) \div 100 + 1
      /\ BackoffLast =>
           /\ retrying = "done" => slept = <<>>
           /\ retrying = "act" /\ fails > 0 => Len(slept) = 1
=============================================================================
