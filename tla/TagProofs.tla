----------------------------- MODULE TagProofs ------------------------------
(***************************************************************************)
(* The tags of the records, for any number of goroutines, contexts, tags,  *)
(* calls and rounds of the poller.                                         *)
(***************************************************************************)
EXTENDS GaugeProofs

\* The cell behind the tags of a timer is written again by the next timing when
\* the array of the timer has room for it.
Risk == timer.len < Capacity(timer.len)
AtRisk(instrument, j) == instrument = "timer" /\ Risk /\ j = timer.len + 1

\* In h, slice sl has the tags of given.
Holds(h, sl, given, instrument) ==
  /\ sl.len = Len(given)
  /\ \A j \in 1 .. sl.len : h[sl.array][j] = given[j] \/ AtRisk(instrument, j)

\* The tags of a timing, and those a client is given and adds to.
TimingTags(g) == Append(OwnTags(timer.len), g)
GivenTags(instrument, g) == IF instrument = "timer" THEN TimingTags(g) ELSE OwnTags(timer.len)
AllTags(instrument, g) ==
  GivenTags(instrument, g) \o (IF client.kind = "memory" THEN client.global ELSE <<>>)
Behind(instrument) == IF instrument = "timer" THEN timer.len + 1 ELSE timer.len

Kinds == {"timer", "meter", "gauge"}

\* What the instruments and the goroutines have in their arrays.
InstrumentsInv ==
  \A a \in 1 .. 3 : /\ Len(heap[a]) = Capacity(timer.len)
                    /\ \A j \in 1 .. timer.len : heap[a][j] = j

TimingsInv ==
  \A g \in Timings : /\ Holds(heap, tags[g], TimingTags(g), "timer")
                     /\ tags[g].array = 1 => Risk

\* A record has the tags it was given, and only those of timings are in the array
\* of the timer, and only if it has room.
RecordInv(r) ==
  /\ r.who.instrument \in Kinds
  /\ \E g \in Goroutines : r.given = AllTags(r.who.instrument, g)
  /\ client.kind = "memory" =>
       /\ Holds(heap, r.slice, r.given, r.who.instrument)
       /\ r.slice.array = 1 => r.who.instrument = "timer" /\ Risk
       /\ r.slice.array \in {2, 3} => r.who.instrument # "timer"
  /\ client.kind = "statsd" =>
       /\ Len(r.cells) = Len(r.given)
       /\ \A j \in 1 .. Len(r.cells) : r.cells[j] = r.given[j] \/ AtRisk(r.who.instrument, j)
       /\ DOMAIN r.cells = 1 .. Len(r.cells)

TagsInv == InstrumentsInv /\ TimingsInv /\ \A r \in records : RecordInv(r)

\* The tags that are given.
LEMMA GivenFacts ==
  ASSUME MetricsTypes, NEW instrument \in Kinds, NEW g \in Goroutines
  PROVE  /\ timer.len \in Nat /\ Behind(instrument) \in Nat
         /\ GivenTags(instrument, g) \in Seq(TagCells)
         /\ Len(GivenTags(instrument, g)) = Behind(instrument)
         /\ \A j \in 1 .. timer.len : GivenTags(instrument, g)[j] = j
         /\ instrument = "timer" => GivenTags(instrument, g)[timer.len + 1] = g
<1>1. timer.len \in Nat
  BY MetricsAssumption, Zenon DEF MetricsTypes
<1>2. /\ OwnTags(timer.len) \in Seq(TagCells) /\ Len(OwnTags(timer.len)) = timer.len
      /\ \A j \in 1 .. timer.len : OwnTags(timer.len)[j] = j
  BY <1>1 DEF OwnTags, TagCells
<1>3. g \in TagCells
  BY DEF TagCells
<1>4. /\ TimingTags(g) \in Seq(TagCells) /\ Len(TimingTags(g)) = timer.len + 1
      /\ \A j \in 1 .. timer.len : TimingTags(g)[j] = j
      /\ TimingTags(g)[timer.len + 1] = g
  BY <1>1, <1>2, <1>3 DEF TimingTags
<1> QED
  BY <1>1, <1>2, <1>4 DEF GivenTags, Behind

\* What the client adds is the global tag.
LEMMA AllFacts ==
  ASSUME MetricsTypes, NEW instrument \in Kinds, NEW g \in Goroutines, client.kind = "memory"
  PROVE  /\ AllTags(instrument, g) = GivenTags(instrument, g) \o client.global
         /\ AllTags(instrument, g) \in Seq(TagCells)
         /\ Len(AllTags(instrument, g)) = Behind(instrument) + Len(client.global)
         /\ \A j \in 1 .. Behind(instrument) : AllTags(instrument, g)[j] = GivenTags(instrument, g)[j]
         /\ \A j \in Behind(instrument) + 1 .. Len(AllTags(instrument, g)) :
              AllTags(instrument, g)[j] = Global
<1>1. AllTags(instrument, g) = GivenTags(instrument, g) \o client.global
  BY DEF AllTags
<1>2. /\ GivenTags(instrument, g) \in Seq(TagCells) /\ Behind(instrument) \in Nat
      /\ Len(GivenTags(instrument, g)) = Behind(instrument)
  BY GivenFacts
<1>3. /\ client.global \in Seq(TagCells) /\ Len(client.global) \in Nat
      /\ \A j \in 1 .. Len(client.global) : client.global[j] = Global
  BY GlobalTags
<1> DEFINE p == GivenTags(instrument, g)
           q == client.global
           all == AllTags(instrument, g)
<1> HIDE DEF p, q, all
<1>4. p \in Seq(TagCells) /\ q \in Seq(TagCells)
  BY <1>2, <1>3 DEF p, q
<1>5. /\ p \o q \in Seq(TagCells) /\ Len(p \o q) = Len(p) + Len(q)
      /\ \A j \in 1 .. Len(p) : (p \o q)[j] = p[j]
      /\ \A j \in Len(p) + 1 .. Len(p) + Len(q) : (p \o q)[j] = q[j - Len(p)]
  BY <1>4, Concatenated, Zenon
<1>6. all = p \o q /\ Len(p) = Behind(instrument)
  BY <1>1, <1>2 DEF p, q, all
<1>7. \A j \in Len(p) + 1 .. Len(p) + Len(q) : q[j - Len(p)] = Global
  <2>1. \A j \in 1 .. Len(q) : q[j] = Global
    BY <1>3 DEF q
  <2>2. \A j \in Len(p) + 1 .. Len(p) + Len(q) : j - Len(p) \in 1 .. Len(q)
    BY <1>4
  <2> QED
    BY <2>1, <2>2
<1>8. /\ all = p \o q /\ all \in Seq(TagCells) /\ Len(all) = Behind(instrument) + Len(q)
      /\ \A j \in 1 .. Behind(instrument) : all[j] = p[j]
      /\ \A j \in Behind(instrument) + 1 .. Len(all) : all[j] = Global
  BY <1>5, <1>6, <1>7
<1> QED
  BY <1>8, Zenon DEF p, q, all

\* A slice keeps its tags when append writes nothing else into them.
LEMMA HoldsStays ==
  ASSUME MetricsTypes, NEW sl \in Slices, Within(heap, sl), NEW xs \in Seq(TagCells),
         NEW sl2, Appended(heap, sl, xs, heap', sl2),
         NEW other \in Slices, Within(heap, other), NEW given, NEW instrument,
         Holds(heap, other, given, instrument),
         \A j \in sl.len + 1 .. sl.len + Len(xs) :
           other.array = sl.array /\ j <= other.len =>
             given[j] = xs[j - sl.len] \/ AtRisk(instrument, j)
  PROVE  Holds(heap', other, given, instrument)
<1>1. heap \in Seq(Seq(TagCells)) /\ sl2.len = sl.len + Len(xs)
  BY DEF MetricsTypes, Appended
<1>2. \A j \in 1 .. Len(heap[other.array]) :
        \/ heap'[other.array][j] = heap[other.array][j]
        \/ /\ other.array = sl.array
           /\ j \in sl.len + 1 .. sl2.len /\ heap'[other.array][j] = xs[j - sl.len]
  BY <1>1, AppendKeeps
<1>3. \A j \in 1 .. other.len : j \in 1 .. Len(heap[other.array]) /\ j <= other.len
  BY <1>1, SliceFacts, SMTT(30)
<1>4. \A j \in 1 .. other.len : heap'[other.array][j] = given[j] \/ AtRisk(instrument, j)
  BY <1>1, <1>2, <1>3 DEF Holds
<1> QED
  BY <1>4 DEF Holds

\* What is written behind sl is behind the instruments, and where a timing or a
\* record has a tag it is that tag or the tag is at risk.
Harmless(sl, xs) ==
  /\ sl.array \in 1 .. 3 => sl.len >= timer.len
  /\ \A j \in sl.len + 1 .. sl.len + Len(xs) : \A g \in Timings :
       tags[g].array = sl.array /\ j <= tags[g].len => AtRisk("timer", j)
  /\ client.kind = "memory" =>
       \A j \in sl.len + 1 .. sl.len + Len(xs) : \A r \in records :
         r.slice.array = sl.array /\ j <= r.slice.len =>
           r.given[j] = xs[j - sl.len] \/ AtRisk(r.who.instrument, j)

\* The same for all that is in the arrays.
LEMMA WritesKeep ==
  ASSUME MetricsTypes, OwnInv, TagsInv, NEW sl \in Slices, Within(heap, sl),
         NEW xs \in Seq(TagCells), NEW sl2, Appended(heap, sl, xs, heap', sl2),
         UNCHANGED instruments, Harmless(sl, xs)
  PROVE  /\ InstrumentsInv'
         /\ \A g \in Timings : Holds(heap', tags[g], TimingTags(g), "timer")
         /\ \A r \in records : RecordInv(r)'
<1>1. /\ heap \in Seq(Seq(TagCells)) /\ timer.len \in Nat /\ Len(heap) >= 4 /\ Len(heap) \in Nat
      /\ UNCHANGED <<timer, client>> /\ sl.len \in Nat /\ sl2.len = sl.len + Len(xs)
  <2>1. UNCHANGED <<timer, client>>
    BY DEF instruments
  <2>2. sl.len \in Nat /\ sl2.len = sl.len + Len(xs)
    BY DEF Slices, Appended
  <2> QED
    BY <2>1, <2>2, HeapFacts, Zenon
<1>2. InstrumentsInv'
  <2> SUFFICES ASSUME NEW a \in 1 .. 3
               PROVE  /\ Len(heap'[a]) = Capacity(timer.len)
                      /\ \A j \in 1 .. timer.len : heap'[a][j] = j
    BY <1>1, Zenon DEF InstrumentsInv
  <2>1. /\ Len(heap[a]) = Capacity(timer.len) /\ \A j \in 1 .. timer.len : heap[a][j] = j
    BY DEF TagsInv, InstrumentsInv
  <2>2. a \in {1, 2, 3} /\ a \in 1 .. Len(heap) /\ Len(heap[a]) >= timer.len
    BY HeapFacts, SMTT(30)
  <2>5. /\ Len(heap'[a]) = Len(heap[a])
        /\ \A j \in 1 .. Len(heap[a]) :
             \/ heap'[a][j] = heap[a][j]
             \/ a = sl.array /\ j \in sl.len + 1 .. sl2.len
    <3>1. CASE sl2.len <= Len(heap[sl.array])
      BY <2>2, <3>1 DEF Appended
    <3>2. CASE ~(sl2.len <= Len(heap[sl.array]))
      BY <2>2, <3>2 DEF Appended
    <3> QED
      BY <3>1, <3>2
  <2>6. Len(heap[a]) \in Nat
    BY <1>1, <2>2
  <2>7. \A j \in 1 .. timer.len : /\ j \in 1 .. Len(heap[a])
                                  /\ ~(a = sl.array /\ j \in sl.len + 1 .. sl2.len)
    <3>1. timer.len <= Len(heap[a]) /\ timer.len \in Nat /\ sl.len \in Nat
      BY <1>1, <2>2
    <3>2. a = sl.array => sl.len >= timer.len
      BY DEF Harmless
    <3> QED
      BY <2>6, <3>1, <3>2
  <2> QED
    BY <2>1, <2>5, <2>7
<1>3. ASSUME NEW g \in Timings
      PROVE  Holds(heap', tags[g], TimingTags(g), "timer")
  <2>1. tags[g] \in Slices /\ Within(heap, tags[g])
    BY DEF MetricsTypes, OwnInv, Timings
  <2>2. Holds(heap, tags[g], TimingTags(g), "timer")
    BY DEF TagsInv, TimingsInv
  <2>3. \A j \in sl.len + 1 .. sl.len + Len(xs) :
          tags[g].array = sl.array /\ j <= tags[g].len =>
             TimingTags(g)[j] = xs[j - sl.len] \/ AtRisk("timer", j)
    BY DEF Harmless
  <2> QED
    BY <2>1, <2>2, <2>3, HoldsStays
<1>4. ASSUME NEW r \in records
      PROVE  RecordInv(r)'
  <2>1. RecordInv(r)
    BY DEF TagsInv
  <2>2. /\ (r.who.instrument \in Kinds) /\ (\E g \in Goroutines : r.given = AllTags(r.who.instrument, g)')
    <3>1. \A g \in Goroutines : AllTags(r.who.instrument, g)' = AllTags(r.who.instrument, g)
      BY <1>1 DEF AllTags, GivenTags, TimingTags
    <3> QED
      BY <2>1, <3>1 DEF RecordInv
  <2>3. ASSUME client.kind = "memory"
        PROVE  Holds(heap', r.slice, r.given, r.who.instrument)
    <3>1. r.slice \in Slices /\ Within(heap, r.slice) /\ Holds(heap, r.slice, r.given, r.who.instrument)
      BY <2>1, <2>3 DEF MetricsTypes, OwnInv, RecordInv
    <3>2. \A j \in sl.len + 1 .. sl.len + Len(xs) :
            r.slice.array = sl.array /\ j <= r.slice.len =>
               r.given[j] = xs[j - sl.len] \/ AtRisk(r.who.instrument, j)
      BY <2>3 DEF Harmless
    <3> QED
      BY <3>1, <3>2, HoldsStays
  <2>4. \A j : AtRisk(r.who.instrument, j)' <=> AtRisk(r.who.instrument, j)
    BY <1>1 DEF AtRisk, Risk
  <2>5. client.kind = "memory" => Holds(heap, r.slice, r.given, r.who.instrument)'
    BY <2>3, <2>4 DEF Holds
  <2> QED
    BY <1>1, <2>1, <2>2, <2>4, <2>5 DEF RecordInv, Risk
<1> QED
  BY <1>2, <1>3, <1>4

\* The slice that append returns has both.
LEMMA AppendHolds ==
  ASSUME MetricsTypes, NEW sl \in Slices, Within(heap, sl), NEW xs \in Seq(TagCells),
         NEW sl2, Appended(heap, sl, xs, heap', sl2), NEW given, NEW instrument,
         Holds(heap, sl, given, instrument), NEW both, Len(both) = Len(given) + Len(xs),
         \A j \in 1 .. Len(given) : both[j] = given[j],
         \A j \in Len(given) + 1 .. Len(both) : both[j] = xs[j - Len(given)]
  PROVE  Holds(heap', sl2, both, instrument)
<1>1. /\ sl.array \in 1 .. Len(heap) /\ sl.len \in Nat /\ sl.len <= Len(heap[sl.array])
      /\ Len(heap[sl.array]) \in Nat /\ Len(xs) \in Nat
  BY SliceFacts DEF MetricsTypes
<1>2. sl.len = Len(given) /\ sl2.len = Len(both)
  BY DEF Holds, Appended
<1>3. /\ \A j \in 1 .. sl.len : heap'[sl2.array][j] = heap[sl.array][j]
      /\ \A j \in sl.len + 1 .. sl2.len : heap'[sl2.array][j] = xs[j - sl.len]
  <2>1. CASE sl2.len <= Len(heap[sl.array])
    <3>1. /\ sl2.array = sl.array
          /\ \A a \in 1 .. Len(heap) : \A j \in 1 .. Len(heap[a]) :
               heap'[a][j] = IF a = sl.array /\ j \in sl.len + 1 .. sl2.len THEN xs[j - sl.len]
                             ELSE heap[a][j]
      BY <2>1, Zenon DEF Appended
    <3>2. /\ sl2.array = sl.array
          /\ \A j \in 1 .. Len(heap[sl.array]) :
               heap'[sl.array][j] = IF j \in sl.len + 1 .. sl2.len THEN xs[j - sl.len]
                                    ELSE heap[sl.array][j]
      BY <1>1, <3>1, Zenon
    <3>3. /\ \A j \in 1 .. sl.len : j \in 1 .. Len(heap[sl.array]) /\ j \notin sl.len + 1 .. sl2.len
          /\ \A j \in sl.len + 1 .. sl2.len : j \in 1 .. Len(heap[sl.array])
      BY <1>1, <1>2, <2>1, SMTT(30)
    <3> QED
      BY <3>2, <3>3
  <2>2. CASE ~(sl2.len <= Len(heap[sl.array]))
    BY <2>2 DEF Appended
  <2> QED
    BY <2>1, <2>2
<1>4. \A j \in 1 .. sl2.len : j \in 1 .. sl.len \/ j \in sl.len + 1 .. sl2.len
  BY <1>1, <1>2
<1>5. \A j \in 1 .. sl2.len : heap'[sl2.array][j] = both[j] \/ AtRisk(instrument, j)
  BY <1>2, <1>3, <1>4 DEF Holds
<1> QED
  BY <1>2, <1>5 DEF Holds

\* The array that append returns.
LEMMA AppendArray ==
  ASSUME MetricsTypes, OwnInv, NEW sl \in Slices, Within(heap, sl), NEW xs \in Seq(TagCells),
         NEW sl2, Appended(heap, sl, xs, heap', sl2), sl2.array \in 1 .. 3
  PROVE  sl2.array = sl.array /\ sl.len + Len(xs) <= Len(heap[sl.array])
<1>1. Len(heap) >= 4 /\ Len(heap) \in Nat
  BY DEF OwnInv, MetricsTypes
<1> QED
  BY <1>1 DEF Appended

\* A timing begins, and its tags are those of the timer and the additional one.
\* With the global tag behind them a record has all the tags.
LEMMA RecordHolds ==
  ASSUME MetricsTypes, NEW sl \in Slices, Within(heap, sl), NEW instrument \in Kinds,
         NEW g \in Goroutines, client.kind = "memory", NEW sl2,
         Appended(heap, sl, client.global, heap', sl2),
         Holds(heap, sl, GivenTags(instrument, g), instrument)
  PROVE  Holds(heap', sl2, AllTags(instrument, g), instrument)
<1> DEFINE given == GivenTags(instrument, g)
           all   == AllTags(instrument, g)
<1>1. /\ given \in Seq(TagCells) /\ Len(given) = Behind(instrument) /\ Behind(instrument) \in Nat
  BY GivenFacts
<1>2. /\ client.global \in Seq(TagCells) /\ Len(client.global) \in Nat
      /\ \A j \in 1 .. Len(client.global) : client.global[j] = Global
  BY GlobalTags
<1>3. /\ Len(all) = Behind(instrument) + Len(client.global)
      /\ \A j \in 1 .. Behind(instrument) : all[j] = given[j]
      /\ \A j \in Behind(instrument) + 1 .. Len(all) : all[j] = Global
  BY AllFacts
<1>4. Holds(heap, sl, given, instrument)
  OBVIOUS
<1> HIDE DEF given, all
<1>5. /\ Len(all) = Len(given) + Len(client.global)
      /\ \A j \in 1 .. Len(given) : all[j] = given[j]
  BY <1>1, <1>3
<1>6. \A j \in Len(given) + 1 .. Len(all) : j - Len(given) \in 1 .. Len(client.global)
  BY <1>1, <1>2, <1>3
<1>7. \A j \in Len(given) + 1 .. Len(all) : all[j] = client.global[j - Len(given)]
  BY <1>1, <1>2, <1>3, <1>6
<1>8. Holds(heap', sl2, all, instrument)
  BY <1>2, <1>4, <1>5, <1>7, AppendHolds, ZenonT(30)
<1> QED
  BY <1>8 DEF all

-----------------------------------------------------------------------------
\* A goroutine that stops a context holds its lock, which nobody else does, and
\* there is no record of a context that has not been stopped.
ContextInv ==
  /\ \A g \in Goroutines : go[g].context # NoCell =>
       go[g].at = "timing" /\ go[g].context \in stateMu /\ go[g].context \notin stopped
  /\ \A g, h \in Goroutines : go[g].context = go[h].context /\ go[g].context # NoCell => g = h
  /\ \A r \in records : r.who.context \in stopped \cup {NoCell}
  /\ \A r, q \in records : r.who.context = q.who.context /\ r.who.context # NoCell => r = q

\* What is recorded for who.
LEMMA RecordAdds ==
  ASSUME MetricsTypes, NEW sl \in Slices, Within(heap, sl), NEW given, NEW who,
         Record(heap, sl, given, who)
  PROVE  \E new : records' = records \cup {new} /\ new.who = who
<1>1. CASE \E sl2 : records' = records \cup {[slice |-> sl2, given |-> given \o client.global,
                                              who |-> who]}
  <2>1. PICK sl2 : records' = records \cup {[slice |-> sl2, given |-> given \o client.global,
                                             who |-> who]}
    BY <1>1, Zenon
  <2>2. PICK new : new = [slice |-> sl2, given |-> given \o client.global, who |-> who]
    BY Zenon
  <2>3. new.who = who
    BY <2>2
  <2> QED
    BY <2>1, <2>2, <2>3, Zenon
<1>2. CASE records' = records \cup {[cells |-> Cells(heap, sl), given |-> given, who |-> who]}
  <2>1. PICK new : new = [cells |-> Cells(heap, sl), given |-> given, who |-> who]
    BY Zenon
  <2>2. new.who = who
    BY <2>1
  <2> QED
    BY <1>2, <2>1, <2>2, Zenon
<1> QED
  BY <1>1, <1>2, RecordDoes, Zenon

\* A record without a context.
LEMMA ContextSame ==
  ASSUME ContextInv, NEW new, records' = records \cup {new}, new.who.context = NoCell,
         UNCHANGED <<stateMu, stopped>>,
         \A g \in Goroutines : go'[g].context # NoCell =>
           go'[g].context = go[g].context /\ go'[g].at = go[g].at
  PROVE  ContextInv'
BY DEF ContextInv

LEMMA ContextIdle ==
  ASSUME ContextInv, UNCHANGED <<stateMu, stopped, records>>,
         \A g \in Goroutines : go'[g].context # NoCell =>
           go'[g].context = go[g].context /\ go'[g].at = go[g].at
  PROVE  ContextInv'
BY DEF ContextInv

LEMMA IdleContexts ==
  ASSUME MetricsTypes, NEW g \in Goroutines, Begin(g, "idle", NoCell)
  PROVE  \A h \in Goroutines : go'[h].context # NoCell =>
           go'[h].context = go[h].context /\ go'[h].at = go[h].at
BY DEF Begin, MetricsTypes

\* Every step keeps the contexts.
LEMMA ContextStep ==
  ASSUME MetricsTypes, OwnInv, ContextInv, MetricsNext
  PROVE  ContextInv'
<1>1. CASE PollBegins \/ PollEnds
  BY <1>1, ContextIdle DEF PollBegins, PollEnds
<1>2. CASE PollGauge
  <2>1. PICK given, who : Record(heap, gaugeTags, given, who) /\ who.context = NoCell
    BY <1>2 DEF PollGauge, Who
  <2>2. gaugeTags \in Slices /\ Within(heap, gaugeTags)
    BY InstrumentSlices
  <2>3. PICK new : records' = records \cup {new} /\ new.who = who
    BY <2>1, <2>2, RecordAdds
  <2>4. UNCHANGED <<go, stateMu, stopped>>
    BY <1>2 DEF PollGauge
  <2> QED
    BY <2>1, <2>3, <2>4, ContextSame
<1>3. ASSUME NEW g \in Goroutines, AddTiming(g)
      PROVE  ContextInv'
  <2>1. /\ UNCHANGED <<stateMu, stopped, records>>
        /\ go' = [go EXCEPT ![g] = [at |-> "timing", ops |-> @.ops + 1, context |-> NoCell]]
    BY <1>3 DEF AddTiming, Begin
  <2>2. \A h \in Goroutines : go'[h].context # NoCell =>
          go'[h].context = go[h].context /\ go'[h].at = go[h].at
    BY <2>1 DEF MetricsTypes
  <2> QED
    BY <2>1, <2>2, ContextIdle
<1>4. ASSUME NEW g \in Goroutines, NEW c \in Contexts, Stop(g, c)
      PROVE  ContextInv'
  <2>1. c \notin stateMu /\ UNCHANGED <<stopped, records>>
    BY <1>4 DEF Stop
  <2>2. CASE Begin(g, "idle", NoCell) /\ UNCHANGED stateMu
    BY <2>1, <2>2, IdleContexts, ContextIdle
  <2>3. CASE c \notin stopped /\ Begin(g, "timing", c) /\ stateMu' = stateMu \cup {c}
    <3>1. /\ go'[g].context = c /\ go'[g].at = "timing"
          /\ \A h \in Goroutines : h # g => go'[h] = go[h]
      BY <2>3 DEF Begin, MetricsTypes
    <3>2. \A h \in Goroutines : go[h].context # NoCell => go[h].context # c
      BY <2>1 DEF ContextInv
    <3>3. c # NoCell
      BY MetricsAssumption
    <3> QED
      BY <2>1, <2>3, <3>1, <3>2, <3>3 DEF ContextInv
  <2> QED
    BY <1>4, <2>2, <2>3 DEF Stop
<1>5. ASSUME NEW g \in Goroutines, Timing(g)
      PROVE  ContextInv'
  <2>1. PICK c : c = go[g].context
    OBVIOUS
  <2>2. PICK given, who : Record(heap, tags[g], given, who) /\ who.context = c
    BY <1>5, <2>1 DEF Timing, Who
  <2>3. tags[g] \in Slices /\ Within(heap, tags[g])
    <3>1. g \in Timings
      BY <1>5 DEF Timing, Timings
    <3>2. tags \in [Goroutines -> Slices]
      BY DEF MetricsTypes
    <3> QED
      BY <3>1, <3>2 DEF OwnInv
  <2>4. PICK new : records' = records \cup {new} /\ new.who = who
    BY <2>2, <2>3, RecordAdds
  <2>5. stateMu' = stateMu \ {c} /\ stopped' = stopped \cup ({c} \ {NoCell}) /\ Return(g)
    BY <1>5, <2>1 DEF Timing
  <2>6. go'[g].context = NoCell /\ \A h \in Goroutines : h # g => go'[h] = go[h]
    BY <2>5 DEF Return, MetricsTypes
  <2>7. \A h \in Goroutines : h # g /\ go[h].context # NoCell => go[h].context # c
    BY <2>1 DEF ContextInv
  <2>8. c # NoCell => c \notin stopped
    BY <2>1 DEF ContextInv
  <2>9. \A h \in Goroutines : go'[h].context # NoCell =>
          /\ h # g /\ go'[h] = go[h] /\ go[h].at = "timing"
          /\ go[h].context \in stateMu' /\ go[h].context \notin stopped'
    BY <2>5, <2>6, <2>7 DEF ContextInv
  <2>10. \A f, h \in Goroutines : go'[f].context = go'[h].context /\ go'[f].context # NoCell => f = h
    BY <2>9 DEF ContextInv
  <2>11. \A r \in records' : r.who.context \in stopped' \cup {NoCell}
    BY <2>2, <2>4, <2>5 DEF ContextInv
  <2>12. c # NoCell => \A r \in records : r.who.context # c
    BY <2>8 DEF ContextInv
  <2>13. \A r, q \in records' : r.who.context = q.who.context /\ r.who.context # NoCell => r = q
    BY <2>2, <2>4, <2>12 DEF ContextInv
  <2> QED
    BY <2>9, <2>10, <2>11, <2>13 DEF ContextInv
<1>6. ASSUME NEW g \in Goroutines, Count(g)
      PROVE  ContextInv'
  <2>1. PICK given, who : Record(heap, meter, given, who) /\ who.context = NoCell
    BY <1>6 DEF Count, Who
  <2>2. meter \in Slices /\ Within(heap, meter)
    BY InstrumentSlices
  <2>3. PICK new : records' = records \cup {new} /\ new.who = who
    BY <2>1, <2>2, RecordAdds
  <2>4. UNCHANGED <<stateMu, stopped>> /\ Begin(g, "idle", NoCell)
    BY <1>6 DEF Count
  <2> QED
    BY <2>1, <2>3, <2>4, IdleContexts, ContextSame
<1>7. ASSUME NEW g \in Goroutines, NewGauge(g) \/ StopGauge(g)
      PROVE  ContextInv'
  <2>1. Begin(g, "idle", NoCell) /\ UNCHANGED <<stateMu, stopped, records>>
    BY <1>7 DEF NewGauge, StopGauge
  <2> QED
    BY <2>1, IdleContexts, ContextIdle
<1> QED
  BY <1>1, <1>2, <1>3, <1>4, <1>5, <1>6, <1>7, SMTT(30) DEF MetricsNext

-----------------------------------------------------------------------------
LEMMA TimingTagsBegin ==
  ASSUME MetricsTypes, OwnInv, TagsInv, NEW g \in Goroutines, g \notin Timings, submitTiming(g),
         Timings' = Timings \cup {g}, UNCHANGED <<instruments, records>>
  PROVE  TagsInv'
<1>1. PICK sl2 : Appended(heap, timer, <<g>>, heap', sl2) /\ tags' = [tags EXCEPT ![g] = sl2]
  BY SubmitDoes
<1>2. /\ <<g>> \in Seq(TagCells) /\ Len(<<g>>) = 1 /\ timer \in Slices /\ Within(heap, timer)
      /\ timer.array = 1 /\ timer.len \in Nat /\ UNCHANGED <<timer, client>>
  BY InstrumentSlices DEF TagCells, instruments
<1>3. \A j \in timer.len + 1 .. timer.len + Len(<<g>>) : j = timer.len + 1
  BY <1>2
<1>4. \A j \in timer.len + 1 .. timer.len + Len(<<g>>) : \A h \in Timings :
        tags[h].array = timer.array /\ j <= tags[h].len => AtRisk("timer", j)
  BY <1>2, <1>3 DEF TagsInv, TimingsInv, AtRisk
<1>5. client.kind = "memory" =>
        \A j \in timer.len + 1 .. timer.len + Len(<<g>>) : \A r \in records :
          r.slice.array = timer.array /\ j <= r.slice.len =>
            r.given[j] = <<g>>[j - timer.len] \/ AtRisk(r.who.instrument, j)
  <2>1. client.kind = "memory" =>
          \A r \in records : r.slice.array = 1 => r.who.instrument = "timer" /\ Risk
    BY DEF TagsInv, RecordInv
  <2> QED
    BY <1>2, <1>3, <2>1 DEF AtRisk
<1>6. Harmless(timer, <<g>>)
  <2>1. timer.array \in 1 .. 3 => timer.len >= timer.len
    BY <1>2
  <2> QED
    BY <1>4, <1>5, <2>1, Zenon DEF Harmless
<1>7. /\ InstrumentsInv'
      /\ \A h \in Timings : Holds(heap', tags[h], TimingTags(h), "timer")
      /\ \A r \in records : RecordInv(r)'
  BY <1>1, <1>2, <1>6, WritesKeep, Zenon
<1>8. /\ timer.len = Len(OwnTags(timer.len))
      /\ \A j \in 1 .. timer.len : heap[1][j] = OwnTags(timer.len)[j]
  BY <1>2 DEF OwnTags, TagsInv, InstrumentsInv
<1>9. Holds(heap, timer, OwnTags(timer.len), "timer")
  BY <1>2, <1>8 DEF Holds
<1>10. /\ Len(TimingTags(g)) = Len(OwnTags(timer.len)) + Len(<<g>>)
       /\ \A j \in 1 .. Len(OwnTags(timer.len)) : TimingTags(g)[j] = OwnTags(timer.len)[j]
       /\ \A j \in Len(OwnTags(timer.len)) + 1 .. Len(TimingTags(g)) :
            TimingTags(g)[j] = <<g>>[j - Len(OwnTags(timer.len))]
  BY <1>2 DEF TimingTags, OwnTags
<1>11. Holds(heap', sl2, TimingTags(g), "timer")
  BY <1>1, <1>2, <1>9, <1>10, AppendHolds, ZenonT(30)
<1>12. sl2.array = 1 => Risk
  <2> SUFFICES ASSUME sl2.array = 1 PROVE Risk
    OBVIOUS
  <2>1. timer.len + Len(<<g>>) <= Len(heap[1])
    <3>1. sl2.array \in 1 .. 3
      OBVIOUS
    <3>2. timer.len + Len(<<g>>) <= Len(heap[timer.array])
      BY <1>1, <1>2, <3>1, AppendArray, Zenon
    <3> QED
      BY <1>2, <3>2, Zenon
  <2>2. Len(heap[1]) = Capacity(timer.len) /\ Len(heap[1]) \in Nat
    BY SliceFacts, <1>2, SMTT(30) DEF TagsInv, InstrumentsInv, MetricsTypes
  <2> QED
    BY <1>2, <2>1, <2>2 DEF Risk
<1>13. /\ tags'[g] = sl2 /\ \A h \in Timings : tags'[h] = tags[h]
       /\ \A h \in Timings' : h \in Timings \/ h = g
  BY <1>1 DEF MetricsTypes, Timings
<1>14. /\ \A h : TimingTags(h)' = TimingTags(h)
       /\ Risk' <=> Risk
       /\ \A j : AtRisk("timer", j)' <=> AtRisk("timer", j)
  BY <1>2 DEF TimingTags, Risk, AtRisk
<1>15. \A h \in Timings' : Holds(heap', tags'[h], TimingTags(h), "timer") /\ (tags'[h].array = 1 => Risk)
  BY <1>7, <1>11, <1>12, <1>13 DEF TagsInv, TimingsInv
<1>16. TimingsInv'
  BY <1>14, <1>15 DEF TimingsInv, Holds
<1> QED
  BY <1>7, <1>16 DEF TagsInv

\* What changes no tags and no record.
LEMMA TagsSame ==
  ASSUME TagsInv, Timings' \subseteq Timings, UNCHANGED <<instruments, heap, tags, records>>
  PROVE  TagsInv'
<1>1. /\ UNCHANGED <<timer, client, heap, tags, records>>
  BY DEF instruments
<1>2. /\ \A h : TimingTags(h)' = TimingTags(h)
      /\ \A instrument, h : AllTags(instrument, h)' = AllTags(instrument, h)
      /\ Risk' <=> Risk
      /\ \A instrument, j : AtRisk(instrument, j)' <=> AtRisk(instrument, j)
  BY <1>1 DEF TimingTags, AllTags, GivenTags, Risk, AtRisk
<1>3. InstrumentsInv'
  BY <1>1 DEF TagsInv, InstrumentsInv
<1>4. TimingsInv'
  BY <1>1, <1>2 DEF TagsInv, TimingsInv, Holds
<1>5. \A r \in records' : RecordInv(r)'
  BY <1>1, <1>2 DEF TagsInv, RecordInv, Holds
<1> QED
  BY <1>3, <1>4, <1>5 DEF TagsInv


\* The array of sl is one of those that instrument makes its records in, and no
\* other instrument has its tags there.
SharedAs(sl, instrument) ==
  /\ sl.array = 1 => instrument = "timer" /\ Risk
  /\ sl.array \in {2, 3} => instrument # "timer"
  /\ \A h \in Timings : tags[h].array = sl.array => instrument = "timer"
  /\ client.kind = "memory" => \A r \in records :
       r.slice.array = sl.array => (r.who.instrument = "timer" <=> instrument = "timer")

\* A record is made of the tags of an instrument: the global tag behind them is
\* what is in that cell of every record that shares the array.
LEMMA RecordTags ==
  ASSUME MetricsTypes, OwnInv, TagsInv, NEW sl \in Slices, Within(heap, sl),
         NEW instrument \in Kinds, NEW g \in Goroutines, NEW who, who.instrument = instrument,
         Record(heap, sl, GivenTags(instrument, g), who),
         Holds(heap, sl, GivenTags(instrument, g), instrument),
         SharedAs(sl, instrument), Timings' \subseteq Timings, UNCHANGED <<instruments, tags>>
  PROVE  TagsInv'
<1> DEFINE given == GivenTags(instrument, g)
<1>1. /\ given \in Seq(TagCells) /\ Len(given) = Behind(instrument) /\ timer.len \in Nat
      /\ Behind(instrument) \in Nat
  BY GivenFacts
<1>2. sl.len = Behind(instrument) /\ UNCHANGED <<timer, client, tags>>
  BY <1>1 DEF Holds, instruments
<1>3. /\ \A h : TimingTags(h)' = TimingTags(h)
      /\ \A kind, h : AllTags(kind, h)' = AllTags(kind, h)
      /\ Risk' <=> Risk
      /\ \A kind, j : AtRisk(kind, j)' <=> AtRisk(kind, j)
  BY <1>2 DEF TimingTags, AllTags, GivenTags, Risk, AtRisk
<1>4. CASE client.kind = "memory"
  <2>1. PICK sl2 : /\ Appended(heap, sl, client.global, heap', sl2)
                   /\ records' = records \cup {[slice |-> sl2, given |-> given \o client.global,
                                                who |-> who]}
    BY <1>4, RecordDoes
  <2>2. /\ client.global \in Seq(TagCells) /\ Len(client.global) \in Nat
        /\ \A j \in 1 .. Len(client.global) : client.global[j] = Global
    BY GlobalTags
  <2>3. \A j \in sl.len + 1 .. sl.len + Len(client.global) : client.global[j - sl.len] = Global
    BY <1>1, <1>2, <2>2
  <2>4. \A j \in sl.len + 1 .. sl.len + Len(client.global) : \A h \in Timings :
          tags[h].array = sl.array /\ j <= tags[h].len => AtRisk("timer", j)
    <3> SUFFICES ASSUME NEW j \in sl.len + 1 .. sl.len + Len(client.global), NEW h \in Timings,
                        tags[h].array = sl.array, j <= tags[h].len
                 PROVE  FALSE
      OBVIOUS
    <3>1. h \in Goroutines /\ "timer" \in Kinds
      BY DEF Timings, Kinds
    <3>2. tags[h].len = Len(TimingTags(h)) /\ Len(TimingTags(h)) = timer.len + 1
      BY <3>1, GivenFacts DEF TagsInv, TimingsInv, Holds, GivenTags, Behind
    <3>3. sl.len = timer.len + 1
      BY <1>2 DEF Behind, SharedAs
    <3> QED
      BY <1>1, <3>2, <3>3
  <2>5. \A j \in sl.len + 1 .. sl.len + Len(client.global) : \A r \in records :
          r.slice.array = sl.array /\ j <= r.slice.len =>
            r.given[j] = client.global[j - sl.len] \/ AtRisk(r.who.instrument, j)
    <3> SUFFICES ASSUME NEW j \in sl.len + 1 .. sl.len + Len(client.global), NEW r \in records,
                        r.slice.array = sl.array, j <= r.slice.len
                 PROVE  r.given[j] = Global
      BY <2>3
    <3>1. RecordInv(r)
      BY DEF TagsInv
    <3>2. PICK h \in Goroutines : r.given = AllTags(r.who.instrument, h)
      BY <3>1 DEF RecordInv
    <3>3. r.who.instrument \in Kinds /\ r.slice.len = Len(r.given)
      BY <1>4, <3>1 DEF RecordInv, Holds
    <3>4. Behind(r.who.instrument) = sl.len
      BY <1>2, <1>4 DEF Behind, SharedAs
    <3>5. \A l \in Behind(r.who.instrument) + 1 .. Len(r.given) : r.given[l] = Global
      <4> DEFINE all == AllTags(r.who.instrument, h)
      <4>1. \A l \in Behind(r.who.instrument) + 1 .. Len(all) : all[l] = Global
        BY <1>4, <3>3, AllFacts
      <4> HIDE DEF all
      <4>2. r.given = all
        BY <3>2 DEF all
      <4> QED
        BY <4>1, <4>2
    <3>6. Len(r.given) \in Nat
      BY <1>4, <3>2, <3>3, AllFacts
    <3>7. j \in Behind(r.who.instrument) + 1 .. Len(r.given)
      BY <1>1, <1>2, <2>2, <3>3, <3>4, <3>6, SMTT(30)
    <3> QED
      BY <3>5, <3>7
  <2>6. sl.array \in 1 .. 3 => sl.len >= timer.len
    BY <1>1, <1>2 DEF Behind
  <2>7. /\ InstrumentsInv'
        /\ \A h \in Timings : Holds(heap', tags[h], TimingTags(h), "timer")
        /\ \A r \in records : RecordInv(r)'
    <3>1. Harmless(sl, client.global)
      BY <2>4, <2>5, <2>6, Zenon DEF Harmless
    <3> QED
      BY <2>1, <2>2, <3>1, WritesKeep, Zenon
  <2>8. TimingsInv'
    <3>1. \A h \in Timings' : /\ Holds(heap', tags'[h], TimingTags(h), "timer")
                              /\ tags'[h].array = 1 => Risk
      BY <1>2, <2>7 DEF TagsInv, TimingsInv
    <3> QED
      BY <1>3, <3>1 DEF TimingsInv, Holds
  <2>9. PICK new : new = [slice |-> sl2, given |-> given \o client.global, who |-> who]
    BY Zenon
  <2>10. RecordInv(new)'
    <3>1. new.slice = sl2 /\ new.who.instrument = instrument
      BY <2>9
    <3>2. new.given = AllTags(instrument, g)
      BY <1>4, <2>9, AllFacts
    <3>4. Holds(heap', sl2, AllTags(instrument, g), instrument)
      BY <1>4, <2>1, RecordHolds, Zenon
    <3>5. sl2.array \in 1 .. 3 => sl2.array = sl.array
      BY <2>1, <2>2, AppendArray
    <3>6. Holds(heap, new.slice, new.given, new.who.instrument)'
      BY <1>3, <3>1, <3>2, <3>4, Zenon DEF Holds
    <3> QED
      <4>1. /\ instrument \in Kinds /\ client' = client /\ (Risk' <=> Risk)
            /\ (\E f \in Goroutines : new.given = AllTags(new.who.instrument, f))'
        BY <1>2, <1>3, <3>1, <3>2
      <4>2. /\ new.slice.array = 1 => new.who.instrument = "timer" /\ Risk
            /\ new.slice.array \in {2, 3} => new.who.instrument # "timer"
        <5>1. /\ sl2.array = 1 => sl.array = 1
              /\ sl2.array \in {2, 3} => sl.array \in {2, 3}
          BY <3>5
        <5> QED
          BY <3>1, <5>1, Zenon DEF SharedAs
      <4> QED
        BY <1>4, <3>1, <3>6, <4>1, <4>2 DEF RecordInv
  <2> QED
    BY <2>1, <2>7, <2>8, <2>9, <2>10, ZenonT(30) DEF TagsInv
<1>5. CASE client.kind = "statsd"
  <2>1. heap' = heap /\ records' = records \cup {[cells |-> Cells(heap, sl), given |-> given,
                                                  who |-> who]}
    BY <1>5, RecordDoes
  <2>2. InstrumentsInv'
    BY <1>2, <2>1 DEF TagsInv, InstrumentsInv
  <2>3. TimingsInv'
    BY <1>2, <1>3, <2>1 DEF TagsInv, TimingsInv, Holds
  <2>4. \A r \in records : RecordInv(r)'
    BY <1>2, <1>3, <2>1 DEF TagsInv, RecordInv, Holds
  <2>5. PICK new : new = [cells |-> Cells(heap, sl), given |-> given, who |-> who]
    BY Zenon
  <2>6. RecordInv(new)'
    <3>1. new.cells = Cells(heap, sl) /\ new.who.instrument = instrument /\ new.given = given
      BY <2>5
    <3>2. /\ sl.len \in Nat /\ sl.len <= Len(heap[sl.array]) /\ heap[sl.array] \in Seq(TagCells)
      BY SliceFacts DEF MetricsTypes
    <3>3. /\ Len(Cells(heap, sl)) = sl.len /\ DOMAIN Cells(heap, sl) = 1 .. sl.len
          /\ \A j \in 1 .. sl.len : Cells(heap, sl)[j] = heap[sl.array][j]
      BY <3>2, FirstCells, Zenon DEF Cells
    <3>4. given = AllTags(instrument, g)
      BY <1>1, <1>5 DEF AllTags
    <3> HIDE DEF given
    <3>5. Holds(heap, sl, given, instrument)
      BY DEF given
    <3>6. /\ Len(new.cells) = Len(new.given)
          /\ \A j \in 1 .. Len(new.cells) : new.cells[j] = new.given[j] \/ AtRisk(instrument, j)
          /\ DOMAIN new.cells = 1 .. Len(new.cells)
      <4>1. /\ sl.len = Len(given)
            /\ \A j \in 1 .. sl.len : heap[sl.array][j] = given[j] \/ AtRisk(instrument, j)
        BY <3>5, Zenon DEF Holds
      <4>2. /\ Len(new.cells) = sl.len /\ DOMAIN new.cells = 1 .. sl.len
            /\ \A j \in 1 .. sl.len : new.cells[j] = heap[sl.array][j]
        BY ONLY <3>1, <3>3, Zenon
      <4>3. \A j \in 1 .. sl.len : new.cells[j] = new.given[j] \/ AtRisk(instrument, j)
        BY ONLY <3>1, <4>1, <4>2, Zenon
      <4> QED
        BY ONLY <3>1, <4>1, <4>2, <4>3, Zenon
    <3> QED
      <4>1. /\ instrument \in Kinds /\ client' = client
            /\ (\E f \in Goroutines : new.given = AllTags(new.who.instrument, f))'
        BY <1>2, <1>3, <3>1, <3>4, Zenon
      <4>2. \A j \in 1 .. Len(new.cells) : new.cells[j] = new.given[j] \/ AtRisk(instrument, j)'
        BY <1>3, <3>6, Zenon
      <4> QED
        BY <1>5, <3>1, <3>6, <4>1, <4>2, Zenon DEF RecordInv
  <2> QED
    BY <2>1, <2>2, <2>3, <2>4, <2>5, <2>6, SMTT(30) DEF TagsInv
<1> QED
  BY <1>4, <1>5 DEF MetricsTypes

\* The registry shares no array with tags.
LEMMA RegistryTags ==
  ASSUME MetricsTypes, OwnInv, TagsInv, NEW sl \in Slices, Within(heap, sl),
         sl.array = gaugeRegistry.array, NEW xs \in Seq(TagCells),
         Appended(heap, sl, xs, heap', gaugeRegistry'),
         Timings' = Timings, UNCHANGED <<instruments, tags, records>>
  PROVE  TagsInv'
<1>1. gaugeRegistry.array > 3 /\ gaugeRegistry.array \in Nat /\ UNCHANGED <<timer, client>>
  BY DEF OwnInv, MetricsTypes, Slices, instruments
<1>2. \A h \in Timings : tags[h].array # sl.array
  BY DEF OwnInv
<1>3. client.kind = "memory" => \A r \in records : r.slice.array # sl.array
  BY DEF OwnInv
<1>4. sl.array \notin 1 .. 3
  BY <1>1
<1>5. /\ InstrumentsInv'
      /\ \A h \in Timings : Holds(heap', tags[h], TimingTags(h), "timer")
      /\ \A r \in records : RecordInv(r)'
  <2>1. Harmless(sl, xs)
    BY <1>2, <1>3, <1>4, Zenon DEF Harmless
  <2>2. UNCHANGED instruments
    OBVIOUS
  <2> QED
    BY <2>1, <2>2, WritesKeep, Zenon
<1>6. \A h \in Timings' : /\ Holds(heap', tags'[h], TimingTags(h), "timer")
                          /\ tags'[h].array = 1 => Risk
  BY <1>5 DEF TagsInv, TimingsInv
<1>7. /\ \A h : TimingTags(h)' = TimingTags(h)
      /\ Risk' <=> Risk
      /\ \A j : AtRisk("timer", j)' <=> AtRisk("timer", j)
  BY <1>1 DEF TimingTags, Risk, AtRisk
<1>8. TimingsInv'
  BY <1>6, <1>7 DEF TimingsInv, Holds
<1> QED
  BY <1>5, <1>8 DEF TagsInv

\* The tags of meters and gauges.
LEMMA InstrumentHolds ==
  ASSUME MetricsTypes, OwnInv, TagsInv, NEW instrument \in {"meter", "gauge"}, NEW g
  PROVE  /\ GivenTags(instrument, g) = OwnTags(timer.len)
         /\ Holds(heap, meter, GivenTags(instrument, g), instrument)
         /\ Holds(heap, gaugeTags, GivenTags(instrument, g), instrument)
<1>1. GivenTags(instrument, g) = OwnTags(timer.len)
  BY DEF GivenTags
<1>2. /\ timer.len \in Nat /\ meter.array = 2 /\ meter.len = timer.len
      /\ gaugeTags.array = 3 /\ gaugeTags.len = timer.len
  BY InstrumentSlices
<1>3. Len(OwnTags(timer.len)) = timer.len /\ \A j \in 1 .. timer.len : OwnTags(timer.len)[j] = j
  BY <1>2 DEF OwnTags
<1>4. \A a \in {2, 3} : \A j \in 1 .. timer.len : heap[a][j] = j
  BY DEF TagsInv, InstrumentsInv
<1> QED
  BY <1>1, <1>2, <1>3, <1>4 DEF Holds

\* Every step keeps the tags.
LEMMA TagsStep ==
  ASSUME MetricsTypes, OwnInv, RegistryInv, TagsInv, MetricsNext
  PROVE  TagsInv'
<1>1. CASE PollBegins \/ PollEnds
  BY <1>1, TagsSame DEF PollBegins, PollEnds, Timings
<1>2. CASE PollGauge
  <2>1. poller.pos \in 1 .. gaugeRegistry.len /\ UNCHANGED <<instruments, go, tags>>
    BY <1>2 DEF PollGauge
  <2>2. PICK who : /\ Record(heap, gaugeTags, OwnTags(gaugeTags.len), who)
                   /\ who.instrument = "gauge"
    BY <1>2 DEF PollGauge, Who
  <2>3. /\ gaugeTags \in Slices /\ gaugeTags.array = 3 /\ gaugeTags.len = timer.len
        /\ Within(heap, gaugeTags)
    BY InstrumentSlices
  <2>4. PICK h \in Goroutines : TRUE
    BY <2>1 DEF RegistryInv, MetricsTypes
  <2>5. /\ GivenTags("gauge", h) = OwnTags(gaugeTags.len)
        /\ Holds(heap, gaugeTags, GivenTags("gauge", h), "gauge")
    BY <2>3, InstrumentHolds
  <2>6. /\ \A f \in Timings : tags[f].array # gaugeTags.array
        /\ Timings' \subseteq Timings
    BY <2>1, <2>3 DEF OwnInv, Timings
  <2>7. client.kind = "memory" => \A r \in records :
          r.slice.array = gaugeTags.array => r.who.instrument # "timer"
    BY <2>3 DEF TagsInv, RecordInv
  <2>8. "gauge" \in Kinds
    BY DEF Kinds
  <2>9. /\ Record(heap, gaugeTags, GivenTags("gauge", h), who)
        /\ UNCHANGED <<instruments, tags>>
        /\ (gaugeTags.array = 1 => "gauge" = "timer" /\ Risk)
        /\ client.kind = "memory" => \A r \in records :
             r.slice.array = gaugeTags.array => (r.who.instrument = "timer" <=> "gauge" = "timer")
    <3>1. "gauge" # "timer" /\ gaugeTags.array # 1
      BY <2>3
    <3> QED
      BY <2>1, <2>2, <2>5, <2>7, <3>1, Zenon
  <2> QED
    BY <2>2, <2>3, <2>5, <2>6, <2>8, <2>9, RecordTags DEF SharedAs
<1>3. ASSUME NEW g \in Goroutines, AddTiming(g)
      PROVE  TagsInv'
  <2>1. /\ go[g].at = "idle" /\ submitTiming(g) /\ UNCHANGED <<instruments, records>>
        /\ go' = [go EXCEPT ![g] = [at |-> "timing", ops |-> go[g].ops + 1, context |-> NoCell]]
    BY <1>3 DEF AddTiming, Begin
  <2>2. g \notin Timings /\ Timings' = Timings \cup {g}
    BY <2>1 DEF Timings, MetricsTypes
  <2> QED
    BY <2>1, <2>2, TimingTagsBegin
<1>4. ASSUME NEW g \in Goroutines, NEW c \in Contexts, Stop(g, c)
      PROVE  TagsInv'
  <2>1. UNCHANGED <<instruments, records>>
    BY <1>4 DEF Stop
  <2>2. CASE Begin(g, "idle", NoCell) /\ UNCHANGED <<heap, tags, stateMu>>
    BY <2>1, <2>2, TimingsAfter, TagsSame
  <2>3. CASE Begin(g, "timing", c) /\ submitTiming(g)
    <3>1. /\ go[g].at = "idle"
          /\ go' = [go EXCEPT ![g] = [at |-> "timing", ops |-> go[g].ops + 1, context |-> c]]
      BY <2>3 DEF Begin
    <3>2. g \notin Timings /\ Timings' = Timings \cup {g}
      BY <3>1 DEF Timings, MetricsTypes
    <3> QED
      BY <2>1, <2>3, <3>2, TimingTagsBegin
  <2> QED
    BY <1>4, <2>2, <2>3 DEF Stop
<1>5. ASSUME NEW g \in Goroutines, Timing(g)
      PROVE  TagsInv'
  <2>1. g \in Timings /\ tags[g] \in Slices /\ Within(heap, tags[g])
    BY <1>5, Zenon DEF Timing, Timings, MetricsTypes, OwnInv
  <2>2. /\ Timings' = Timings \ {g} /\ UNCHANGED <<instruments, tags>>
    BY <1>5, TimingsAfter, Zenon DEF Timing
  <2>3. PICK who : who = Who("timer", g, go[g].ops, go[g].context)
    OBVIOUS
  <2>4. GivenTags("timer", g) = Append(OwnTags(timer.len), g) /\ GivenTags("timer", g) = TimingTags(g)
    BY DEF GivenTags, TimingTags
  <2>5. Record(heap, tags[g], GivenTags("timer", g), who) /\ who.instrument = "timer"
    BY <1>5, <2>3, <2>4, ZenonT(30) DEF Timing, Who
  <2>6. /\ Holds(heap, tags[g], GivenTags("timer", g), "timer")
        /\ tags[g].array = 1 => Risk
    BY <2>1, <2>4 DEF TagsInv, TimingsInv
  <2>7. tags[g].array \notin {2, 3}
    BY <2>1 DEF OwnInv
  <2>8. client.kind = "memory" => \A r \in records :
          r.slice.array = tags[g].array => r.who.instrument = "timer"
    BY <2>1 DEF OwnInv, TagsInv, RecordInv
  <2>9. "timer" \in Kinds
    BY DEF Kinds
  <2>10. Timings' \subseteq Timings
    BY <2>2
  <2> QED
    BY <2>1, <2>2, <2>5, <2>6, <2>7, <2>8, <2>9, <2>10, RecordTags DEF SharedAs
<1>6. ASSUME NEW g \in Goroutines, Count(g)
      PROVE  TagsInv'
  <2>1. Timings' = Timings /\ UNCHANGED <<instruments, tags>>
    BY <1>6, TimingsAfter, Zenon DEF Count
  <2>2. PICK who : who = Who("meter", g, go[g].ops + 1, NoCell)
    OBVIOUS
  <2>3. /\ meter \in Slices /\ meter.array = 2 /\ meter.len = timer.len /\ Within(heap, meter)
    BY InstrumentSlices
  <2>4. /\ GivenTags("meter", g) = OwnTags(meter.len)
        /\ Holds(heap, meter, GivenTags("meter", g), "meter")
    BY <2>3, InstrumentHolds
  <2>5. Record(heap, meter, GivenTags("meter", g), who) /\ who.instrument = "meter"
    BY <1>6, <2>2, <2>4 DEF Count, Who
  <2>6. /\ \A f \in Timings : tags[f].array # meter.array
    BY <2>3 DEF OwnInv
  <2>7. client.kind = "memory" => \A r \in records :
          r.slice.array = meter.array => r.who.instrument # "timer"
    BY <2>3 DEF TagsInv, RecordInv
  <2>8. "meter" \in Kinds
    BY DEF Kinds
  <2>9. /\ (meter.array = 1 => "meter" = "timer" /\ Risk) /\ Timings' \subseteq Timings
        /\ client.kind = "memory" => \A r \in records :
             r.slice.array = meter.array => (r.who.instrument = "timer" <=> "meter" = "timer")
    BY <2>1, <2>3, <2>7
  <2> QED
    BY <2>1, <2>3, <2>4, <2>5, <2>6, <2>8, <2>9, RecordTags, Zenon DEF SharedAs
<1>7. ASSUME NEW g \in Goroutines, NewGauge(g)
      PROVE  TagsInv'
  <2>1. Timings' = Timings /\ UNCHANGED <<instruments, tags, records>>
    BY <1>7, TimingsAfter DEF NewGauge
  <2>2. gaugeRegistry \in Slices /\ Within(heap, gaugeRegistry)
    BY DEF MetricsTypes, OwnInv
  <2> QED
    BY <1>7, <2>1, <2>2, NewGaugeDoes, RegistryTags, ZenonT(30)
<1>8. ASSUME NEW g \in Goroutines, StopGauge(g)
      PROVE  TagsInv'
  <2>1. Timings' = Timings /\ UNCHANGED <<instruments, tags, records>>
    BY <1>8, TimingsAfter DEF StopGauge
  <2>2. \E sl \in Slices, xs \in Seq(TagCells) :
          /\ Within(heap, sl) /\ sl.array = gaugeRegistry.array
          /\ Appended(heap, sl, xs, heap', gaugeRegistry')
    BY <1>8, StopGaugeDoes
  <2> QED
    BY <2>1, <2>2, RegistryTags
<1> QED
  BY <1>1, <1>2, <1>3, <1>4, <1>5, <1>6, <1>7, <1>8, SMTT(30) DEF MetricsNext

-----------------------------------------------------------------------------
\* Nothing has been recorded and nothing written at first.
LEMMA TagsBegin ==
  ASSUME MetricsInit
  PROVE  TagsInv /\ ContextInv
<1>1. records = {} /\ go = [g \in Goroutines |-> [at |-> "idle", ops |-> 0, context |-> NoCell]]
  BY DEF MetricsInit
<1>2. Timings = {}
  BY <1>1 DEF Timings
<1>3. timer.len \in TagCounts /\ \A a \in 1 .. 3 : heap[a] = GetTags(OwnTags(timer.len))
  BY HeapBegins
<1>4. InstrumentsInv
  BY <1>3, GetTagsDoes DEF InstrumentsInv
<1> QED
  BY <1>1, <1>2, <1>4 DEF TagsInv, TimingsInv, ContextInv

LEMMA TagsKept == MetricsTypes /\ OwnInv /\ TagsInv /\ ContextInv => RecordsKept
<1> SUFFICES ASSUME MetricsTypes, OwnInv, TagsInv, ContextInv PROVE RecordsKept
  OBVIOUS
<1>1. ASSUME NEW r \in records
      PROVE  /\ Len(TagsOf(r)) = Len(r.given)
             /\ \A j \in DOMAIN TagsOf(r) :
                  TagsOf(r)[j] = r.given[j] \/ AtRisk(r.who.instrument, j)
  <2>1. RecordInv(r)
    BY DEF TagsInv
  <2>2. CASE client.kind = "memory"
    <3>1. /\ r.slice \in Slices /\ Within(heap, r.slice) /\ heap \in Seq(Seq(TagCells))
          /\ Holds(heap, r.slice, r.given, r.who.instrument)
      <4>1. heap \in Seq(Seq(TagCells)) /\ r.slice \in Slices
        BY <2>2 DEF MetricsTypes
      <4>2. Within(heap, r.slice)
        BY <2>2 DEF OwnInv
      <4> QED
        BY <2>1, <2>2, <4>1, <4>2, Zenon DEF RecordInv
    <3>2. /\ r.slice.len \in Nat /\ r.slice.len <= Len(heap[r.slice.array])
          /\ heap[r.slice.array] \in Seq(TagCells)
      BY <3>1, SliceFacts, Zenon
    <3>3. /\ Len(Cells(heap, r.slice)) = r.slice.len /\ DOMAIN Cells(heap, r.slice) = 1 .. r.slice.len
          /\ \A j \in 1 .. r.slice.len : Cells(heap, r.slice)[j] = heap[r.slice.array][j]
      BY <3>2, SMTT(30) DEF Cells
    <3>4. TagsOf(r) = Cells(heap, r.slice)
      BY <2>2 DEF TagsOf
    <3> QED
      BY <3>1, <3>3, <3>4, Zenon DEF Holds
  <2>3. CASE client.kind = "statsd"
    <3>1. TagsOf(r) = r.cells
      BY <2>3 DEF TagsOf
    <3> QED
      BY <2>1, <2>3, <3>1 DEF RecordInv
  <2> QED
    BY <2>2, <2>3 DEF MetricsTypes
<1>2. \A r, q \in records : r.who.context = q.who.context /\ r.who.context # NoCell => r = q
  BY DEF ContextInv
<1> QED
  BY <1>1, <1>2 DEF RecordsKept, AtRisk, Risk

\* With any number of goroutines, contexts, tags and calls, a record keeps the tags
\* it was given, whoever appends to the shared arrays later, except the additional
\* tag of a timing whose timer has room in its array, and a context that several
\* goroutines stop is recorded once.
THEOREM TagsOfRecordsKept == MetricsSpec => []RecordsKept
<1> DEFINE Inv == MetricsTypes /\ OwnInv /\ RegistryInv /\ TagsInv /\ ContextInv
<1>1. MetricsInit => Inv
  BY RegistryBegins, TagsBegin
<1>2. Inv /\ [MetricsNext]_metricsVars => Inv'
  <2> SUFFICES ASSUME Inv, [MetricsNext]_metricsVars PROVE Inv'
    OBVIOUS
  <2>1. CASE MetricsNext
    BY <2>1, RegistryStep, TagsStep, ContextStep
  <2>2. CASE UNCHANGED metricsVars
    <3>1. UNCHANGED <<instruments, heap, tags, records>> /\ Timings' = Timings
      BY <2>2 DEF metricsVars, Timings
    <3>2. TagsInv'
      BY <3>1, TagsSame
    <3>3. MetricsTypes' /\ OwnInv' /\ RegistryInv'
      BY <2>2, RegistryStutters
<3>4. ContextInv'
      BY <2>2, ContextIdle DEF metricsVars
    <3> QED
      BY <3>2, <3>3, <3>4
  <2> QED
    BY <2>1, <2>2
<1>3. Inv => RecordsKept
  BY TagsKept
<1> QED
  BY <1>1, <1>2, <1>3, PTL DEF MetricsSpec
=============================================================================
