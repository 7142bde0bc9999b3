------------------------------ MODULE Metrics ------------------------------
(***************************************************************************)
(* The instruments of metrics: timers with their contexts, meters, and     *)
(* gauges, which one goroutine polls, over a client that keeps records     *)
(* (metrics/memory) or sends them at once (metrics/statsd).                *)
(*                                                                         *)
(* Tags are Go slices, so the arrays they are kept in are modelled: append *)
(* writes into the array of its argument as long as there is room.  Each   *)
(* goroutine has a gauge and a tag of its own, named after it.             *)
(***************************************************************************)
EXTENDS Naturals, Sequences, FiniteSets

CONSTANTS
  Goroutines,
  Contexts,    \* the TimerContexts of the timer
  TagCounts,   \* how many tags an instrument may have
  MaxOps,      \* bound: calls of a goroutine
  MaxRounds,   \* bound: rounds of the poller
  Global,      \* a tag for every metric
  NoCell       \* a cell that has not been written

ASSUME MetricsAssumption ==
  /\ TagCounts \subseteq Nat /\ MaxOps \in Nat /\ MaxRounds \in Nat
  /\ NoCell \notin Goroutines \cup Contexts \cup {"poller"}

VARIABLES
  client,     \* the kind of client, and whether there is a global tag
  heap,       \* the arrays
  timer, meter, gaugeTags,  \* the tags of the instruments
  gaugeRegistry,  \* a slice of gauges
  gaugeMu,    \* who holds the lock: NoCell, "poller" or a goroutine
  poller,     \* its rounds, and its position in the registry, 0 when it sleeps
  polled,     \* history: the gauges polled in this round, in order
  registered, \* history: the gauges between NewGauge and Stop
  go,         \* control state of a goroutine, and its calls
  tags,       \* the variable tags of submitTiming
  stateMu,    \* the contexts that are locked
  stopped,    \* the contexts with stopped set
  records     \* what the client has: slice or tags, what was given, and for whom

instruments == <<client, timer, meter, gaugeTags>>
gaugeVars == <<gaugeRegistry, gaugeMu, poller, polled, registered>>
metricsVars == <<instruments, heap, gaugeVars, go, tags, stateMu, stopped, records>>

-----------------------------------------------------------------------------
(***************************************************************************)
(* Slices.                                                                 *)
(***************************************************************************)
Cells(h, s) == SubSeq(h[s.array], 1, s.len)
Capacity(n) == IF n = 0 THEN 0 ELSE CHOOSE c \in {2 ^ e : e \in 0 .. n} : c >= n /\ c < 2 * n
Blank(n) == [j \in 1..n |-> NoCell]

\* The powers of two are that dense.
ASSUME CapacityAssumption == \A n \in TagCounts : Capacity(n) \in Nat /\ Capacity(n) >= n

\* append(s, xs...): the arrays and the slice.  An array that is too small is
\* copied into one of twice the size, or of the size that is needed.
append(h, s, xs) ==
  LET need == s.len + Len(xs)
      size == Len(h[s.array])
      room == IF need > 2 * size THEN need ELSE 2 * size
  IN  IF need <= size
      THEN [heap |-> [h EXCEPT ![s.array] = [j \in 1..size |->
                        IF j \in s.len + 1 .. need THEN xs[j - s.len] ELSE @[j]]],
            slice |-> [array |-> s.array, len |-> need]]
      ELSE [heap |-> Append(h, Cells(h, s) \o xs \o Blank(room - need)),
            slice |-> [array |-> Len(h) + 1, len |-> need]]

\* Variant: room for one more tag is made in advance.
GetTagsRoomy(opts) == opts \o Blank(1)

\* The array that GetTags makes, growing it by one tag after the other.
GetTags(opts) == opts \o Blank(Capacity(Len(opts)) - Len(opts))

\* The tags an instrument is made with, and its slice of them.
OwnTags(n) == [j \in 1..n |-> j]
Tagged(n, a) == [array |-> a, len |-> n]

-----------------------------------------------------------------------------
MetricsInit ==
  /\ client \in [kind : {"memory", "statsd"}, global : {<<>>, <<Global>>}]
  /\ \E n \in TagCounts :
       /\ heap = [a \in 1..3 |-> GetTags(OwnTags(n))] \o <<<<>>>>
       /\ timer = Tagged(n, 1) /\ meter = Tagged(n, 2) /\ gaugeTags = Tagged(n, 3)
  /\ gaugeRegistry = Tagged(0, 4)
  /\ gaugeMu = NoCell
  /\ poller = [rounds |-> 0, pos |-> 0]
  /\ polled = <<>> /\ registered = {}
  /\ go = [g \in Goroutines |-> [at |-> "idle", ops |-> 0, context |-> NoCell]]
  /\ tags = [g \in Goroutines |-> Tagged(0, 4)]
  /\ stateMu = {} /\ stopped = {}
  /\ records = {}

\* Count, Gauge and Timing of the client: the memory client keeps the slice with
\* the global tags appended, the other one writes the tags out.  who is unique.
Record(h, s, given, who) ==
  LET all == append(h, s, client.global)
  IN  IF client.kind = "memory"
      THEN /\ heap' = all.heap
           /\ records' = records \cup {[slice |-> all.slice, given |-> given \o client.global,
                                        who |-> who]}
      ELSE /\ heap' = h
           /\ records' = records \cup {[cells |-> Cells(h, s), given |-> given, who |-> who]}

Begin(g, at, context) ==
  /\ go[g].at = "idle" /\ go[g].ops < MaxOps
  /\ go' = [go EXCEPT ![g] = [at |-> at, ops |-> @.ops + 1, context |-> context]]

Return(g) == go' = [go EXCEPT ![g].at = "idle", ![g].context = NoCell]

\* Who a record is of: an instrument, the number of the call, and the context.
Who(instrument, g, n, context) ==
  [instrument |-> instrument, call |-> <<g, n>>, context |-> context]

-----------------------------------------------------------------------------
(***************************************************************************)
(* Timers and meters.                                                      *)
(***************************************************************************)
\* submitTiming: the additional tag is appended to those of the timer ...
submitTiming(g) ==
  LET all == append(heap, timer, <<g>>)
  IN  heap' = all.heap /\ tags' = [tags EXCEPT ![g] = all.slice]

AddTiming(g) ==
  /\ Begin(g, "timing", NoCell)
  /\ submitTiming(g)
  /\ UNCHANGED <<instruments, gaugeVars, stateMu, stopped, records>>

\* Stop of a context that has been stopped does nothing.
Stop(g, c) ==
  /\ c \notin stateMu
  /\ \/ /\ c \in stopped
        /\ Begin(g, "idle", NoCell)
        /\ UNCHANGED <<heap, tags, stateMu>>
     \/ /\ c \notin stopped
        /\ Begin(g, "timing", c)
        /\ submitTiming(g)
        /\ stateMu' = stateMu \cup {c}
  /\ UNCHANGED <<instruments, gaugeVars, stopped, records>>

\* ... and the client gets them.
Timing(g) ==
  /\ go[g].at = "timing"
  /\ Record(heap, tags[g], Append(OwnTags(timer.len), g),
            Who("timer", g, go[g].ops, go[g].context))
  /\ Return(g)
  /\ stateMu' = stateMu \ {go[g].context}
  /\ stopped' = stopped \cup ({go[g].context} \ {NoCell})
  /\ UNCHANGED <<instruments, gaugeVars, tags>>

Count(g) ==
  /\ Begin(g, "idle", NoCell)
  /\ Record(heap, meter, OwnTags(meter.len), Who("meter", g, go[g].ops + 1, NoCell))
  /\ UNCHANGED <<instruments, gaugeVars, tags, stateMu, stopped>>

-----------------------------------------------------------------------------
(***************************************************************************)
(* Gauges.                                                                 *)
(***************************************************************************)
NewGauge(g) ==
  /\ gaugeMu = NoCell
  /\ g \notin registered
  /\ Begin(g, "idle", NoCell)
  /\ LET all == append(heap, gaugeRegistry, <<g>>)
     IN  heap' = all.heap /\ gaugeRegistry' = all.slice
  /\ registered' = registered \cup {g}
  /\ UNCHANGED <<instruments, gaugeMu, poller, polled, tags, stateMu, stopped, records>>

\* Gauge.Stop moves the gauges after this one to the front, in their array.
StopGauge(g) ==
  /\ gaugeMu = NoCell
  /\ g \in registered
  /\ Begin(g, "idle", NoCell)
  /\ LET all == Cells(heap, gaugeRegistry)
         j   == CHOOSE j \in DOMAIN all : all[j] = g
         rest == append(heap, [gaugeRegistry EXCEPT !.len = j - 1],
                        SubSeq(all, j + 1, Len(all)))
     IN  heap' = rest.heap /\ gaugeRegistry' = rest.slice
  /\ registered' = registered \ {g}
  /\ UNCHANGED <<instruments, gaugeMu, poller, polled, tags, stateMu, stopped, records>>

\* Variant: the lock is held to read the registry only.
PollBeginsUnlocked ==
  /\ poller.pos = 0 /\ poller.rounds < MaxRounds
  /\ gaugeMu = NoCell
  /\ poller' = [rounds |-> poller.rounds + 1, pos |-> 1]
  /\ polled' = <<>>
  /\ UNCHANGED <<instruments, heap, gaugeRegistry, gaugeMu, registered, go, tags, stateMu, stopped, records>>

\* pollAllGauges: it takes the lock ...
PollBegins ==
  /\ poller.pos = 0 /\ poller.rounds < MaxRounds
  /\ gaugeMu = NoCell
  /\ gaugeMu' = "poller"
  /\ poller' = [rounds |-> poller.rounds + 1, pos |-> 1]
  /\ polled' = <<>>
  /\ UNCHANGED <<instruments, heap, gaugeRegistry, registered, go, tags, stateMu, stopped, records>>

\* ... asks one gauge after the other for its value, for the client ...
PollGauge ==
  /\ poller.pos \in 1 .. gaugeRegistry.len
  /\ LET g == Cells(heap, gaugeRegistry)[poller.pos]
     IN  /\ polled' = Append(polled, g)
         /\ Record(heap, gaugeTags, OwnTags(gaugeTags.len), Who("gauge", g, poller.rounds, NoCell))
  /\ poller' = [poller EXCEPT !.pos = @ + 1]
  /\ UNCHANGED <<instruments, gaugeRegistry, gaugeMu, registered, go, tags, stateMu, stopped>>

\* ... and unlocks.
PollEnds ==
  /\ poller.pos > gaugeRegistry.len
  /\ gaugeMu' = NoCell
  /\ poller' = [poller EXCEPT !.pos = 0]
  /\ UNCHANGED <<instruments, heap, gaugeRegistry, polled, registered, go, tags, stateMu, stopped, records>>

MetricsNext ==
  \/ PollBegins \/ PollGauge \/ PollEnds
  \/ \E g \in Goroutines :
       \/ AddTiming(g) \/ Timing(g) \/ Count(g) \/ NewGauge(g) \/ StopGauge(g)
       \/ \E c \in Contexts : Stop(g, c)

MetricsSpec == MetricsInit /\ [][MetricsNext]_metricsVars

-----------------------------------------------------------------------------
TagsOf(r) == IF client.kind = "memory" THEN Cells(heap, r.slice) ELSE r.cells

\* What the client has recorded keeps the tags it was given, whatever is recorded
\* after it or at the same time: for meters and gauges always, for a timer unless
\* its tags, three for example, leave a cell free in the array that submitTiming
\* appends to.  Even then only the additional tag is at risk.  And however many
\* goroutines stop a context, there is one record of it.
RecordsKept ==
  /\ \A r \in records :
       LET is == TagsOf(r)
       IN  /\ Len(is) = Len(r.given)
           /\ \A j \in DOMAIN is :
                \/ is[j] = r.given[j]
                \/ /\ r.who.instrument = "timer"
                   /\ timer.len < Capacity(timer.len) /\ j = timer.len + 1
  /\ \A r, q \in records : r.who.context = q.who.context /\ r.who.context # NoCell => r = q

\* A round of the poller asks every gauge that is registered exactly once, and
\* none whose Stop has returned, although Stop moves the others in their array.
PolledOnce ==
  poller.pos > 0 =>
    /\ \A j \in DOMAIN polled : polled[j] \in registered
    /\ Cardinality({polled[j] : j \in DOMAIN polled}) = Len(polled)
    /\ poller.pos > gaugeRegistry.len => Len(polled) = Cardinality(registered)
=============================================================================
