---------------------------- MODULE GaugeProofs -----------------------------
(***************************************************************************)
(* What append does to the arrays that the tags and the gauges share, what *)
(* every step leaves of them, and the registry of gauges, for any number   *)
(* of goroutines, gauges, calls and rounds of the poller.                  *)
(***************************************************************************)
EXTENDS Metrics, TLAPS

TagCells == Nat \cup Goroutines \cup {Global, NoCell}
Slices == [array : Nat \ {0}, len : Nat]

\* The cells of slice sl are in array sl.array of h.
Within(h, sl) == sl.array \in 1 .. Len(h) /\ sl.len <= Len(h[sl.array])

\* The first cells of an array.
LEMMA FirstCells ==
  ASSUME NEW q \in Seq(TagCells), NEW n \in Nat, n <= Len(q)
  PROVE  /\ Len(SubSeq(q, 1, n)) = n /\ DOMAIN SubSeq(q, 1, n) = 1 .. n
         /\ \A j \in 1 .. n : SubSeq(q, 1, n)[j] = q[j]
OBVIOUS

\* What append does, without the capacity of a new array.
Appended(h, sl, xs, h2, sl2) ==
  /\ h2 \in Seq(Seq(TagCells)) /\ sl2 \in Slices /\ Within(h2, sl2)
  /\ sl2.len = sl.len + Len(xs)
  /\ IF sl2.len <= Len(h[sl.array])
     THEN /\ sl2.array = sl.array /\ Len(h2) = Len(h)
          /\ \A a \in 1 .. Len(h) :
               /\ Len(h2[a]) = Len(h[a])
               /\ \A j \in 1 .. Len(h[a]) :
                    h2[a][j] = IF a = sl.array /\ j \in sl.len + 1 .. sl2.len THEN xs[j - sl.len]
                               ELSE h[a][j]
     ELSE /\ sl2.array = Len(h) + 1 /\ Len(h2) = Len(h) + 1
          /\ \A a \in 1 .. Len(h) : h2[a] = h[a]
          /\ \A j \in 1 .. sl.len : h2[sl2.array][j] = h[sl.array][j]
          /\ \A j \in sl.len + 1 .. sl2.len : h2[sl2.array][j] = xs[j - sl.len]

\* What is in a concatenation.
LEMMA Concatenated ==
  ASSUME NEW S, NEW p \in Seq(S), NEW q \in Seq(S)
  PROVE  /\ p \o q \in Seq(S) /\ Len(p \o q) = Len(p) + Len(q)
         /\ \A j \in 1 .. Len(p) : (p \o q)[j] = p[j]
         /\ \A j \in Len(p) + 1 .. Len(p) + Len(q) : (p \o q)[j] = q[j - Len(p)]
OBVIOUS

\* append writes behind its slice, into its array or into a copy.
LEMMA AppendDoes ==
  ASSUME NEW h \in Seq(Seq(TagCells)), NEW sl \in Slices, Within(h, sl),
         NEW xs \in Seq(TagCells)
  PROVE  Appended(h, sl, xs, append(h, sl, xs).heap, append(h, sl, xs).slice)
<1> DEFINE need == sl.len + Len(xs)
           size == Len(h[sl.array])
<1>1. need \in Nat /\ size \in Nat /\ h[sl.array] \in Seq(TagCells) /\ sl.len \in Nat
  BY DEF Slices, Within
<1>2. CASE need <= size
  <2> DEFINE new == [j \in 1 .. size |-> IF j \in sl.len + 1 .. need THEN xs[j - sl.len]
                                         ELSE h[sl.array][j]]
             h2 == [h EXCEPT ![sl.array] = new]
             sl2 == [array |-> sl.array, len |-> need]
  <2>1. append(h, sl, xs) = [heap |-> h2, slice |-> sl2]
    BY <1>2 DEF append
  <2>2. new \in Seq(TagCells) /\ Len(new) = size
    BY <1>1, SMTT(30)
  <2>3. h2 \in Seq(Seq(TagCells)) /\ Len(h2) = Len(h) /\ h2[sl.array] = new
        /\ \A a \in 1 .. Len(h) : a # sl.array => h2[a] = h[a]
    <3> HIDE DEF new
    <3> QED
      BY <2>2 DEF Within
  <2>4. sl2 \in Slices /\ sl2.len = need /\ sl2.array = sl.array
    BY <1>1 DEF Slices
  <2>5. append(h, sl, xs).heap = h2 /\ append(h, sl, xs).slice = sl2
    BY <2>1
  <2>6. \A j \in 1 .. size : new[j] = IF j \in sl.len + 1 .. need THEN xs[j - sl.len]
                                      ELSE h[sl.array][j]
    OBVIOUS
  <2> HIDE DEF new, h2, sl2
  <2>7. Appended(h, sl, xs, h2, sl2)
    BY <1>1, <1>2, <2>2, <2>3, <2>4, <2>6, Zenon DEF Appended, Within
  <2> QED
    BY <2>5, <2>7
<1>3. CASE ~(need <= size)
  <2> DEFINE room == IF need > 2 * size THEN need ELSE 2 * size
             new == Cells(h, sl) \o xs \o Blank(room - need)
             h2 == Append(h, new)
             sl2 == [array |-> Len(h) + 1, len |-> need]
  <2>1. append(h, sl, xs) = [heap |-> h2, slice |-> sl2]
    BY <1>3 DEF append
  <2>2. append(h, sl, xs).heap = h2 /\ append(h, sl, xs).slice = sl2
    BY <2>1
  <2>3. room - need \in Nat
    <3> HIDE DEF need, size
    <3> QED
      BY <1>1
  <2>4. Blank(room - need) \in Seq(TagCells)
    BY <2>3 DEF Blank, TagCells
  <2>5. /\ Cells(h, sl) \in Seq(TagCells) /\ Len(Cells(h, sl)) = sl.len
        /\ \A j \in 1 .. sl.len : Cells(h, sl)[j] = h[sl.array][j]
    BY <1>1, SMTT(30) DEF Cells, Within
  <2> HIDE DEF room
  <2> DEFINE both == Cells(h, sl) \o xs
  <2>10. /\ both \in Seq(TagCells) /\ Len(both) = need
         /\ \A j \in 1 .. sl.len : both[j] = h[sl.array][j]
         /\ \A j \in sl.len + 1 .. need : both[j] = xs[j - sl.len]
    <3>1. /\ both \in Seq(TagCells) /\ Len(both) = Len(Cells(h, sl)) + Len(xs)
          /\ \A j \in 1 .. Len(Cells(h, sl)) : both[j] = Cells(h, sl)[j]
          /\ \A j \in Len(Cells(h, sl)) + 1 .. Len(Cells(h, sl)) + Len(xs) :
               both[j] = xs[j - Len(Cells(h, sl))]
      <4>1. Cells(h, sl) \in Seq(TagCells) /\ xs \in Seq(TagCells)
        BY <2>5
      <4> QED
        BY <4>1, Concatenated, Zenon
    <3> HIDE DEF both
    <3> QED
      BY <2>5, <3>1
  <2> HIDE DEF both, need
  <2>6. /\ new \in Seq(TagCells) /\ Len(new) >= need
        /\ \A j \in 1 .. sl.len : new[j] = h[sl.array][j]
        /\ \A j \in sl.len + 1 .. need : new[j] = xs[j - sl.len]
    <3>1. new = both \o Blank(room - need)
      BY DEF both
    <3> HIDE DEF new
    <3>2. /\ new \in Seq(TagCells) /\ Len(new) = need + Len(Blank(room - need))
          /\ \A j \in 1 .. need : new[j] = both[j]
      <4> DEFINE rest == Blank(room - need)
      <4> HIDE DEF rest
      <4>1. /\ both \o rest \in Seq(TagCells) /\ Len(both \o rest) = Len(both) + Len(rest)
            /\ \A j \in 1 .. Len(both) : (both \o rest)[j] = both[j]
        <5>1. both \in Seq(TagCells) /\ rest \in Seq(TagCells)
          BY <2>4, <2>10 DEF rest
        <5> QED
          BY <5>1, Concatenated, Zenon
      <4>2. new = both \o rest
        BY <3>1 DEF rest
      <4>3. Len(both) = need
        BY <2>10
      <4> QED
        BY <4>1, <4>2, <4>3, Zenon DEF rest
    <3>3. Len(Blank(room - need)) \in Nat /\ Len(xs) \in Nat
      BY <2>4
    <3> QED
      <4>1. \A j \in 1 .. sl.len : j \in 1 .. need
        BY <1>1, <3>3 DEF need
      <4>2. \A j \in sl.len + 1 .. need : j \in 1 .. need
        BY <1>1
      <4> QED
        BY <1>1, <2>10, <3>2, <3>3, <4>1, <4>2, SMTT(30)
  <2> HIDE DEF new
  <2>7. h2 \in Seq(Seq(TagCells)) /\ Len(h2) = Len(h) + 1 /\ h2[Len(h) + 1] = new
        /\ \A a \in 1 .. Len(h) : h2[a] = h[a]
    BY <2>6
  <2>8. sl2 \in Slices /\ sl2.len = need /\ sl2.array = Len(h) + 1
    BY <1>1 DEF Slices
  <2> HIDE DEF h2, sl2
  <2>9. Appended(h, sl, xs, h2, sl2)
    <3>1. Within(h2, sl2) /\ sl2.len = sl.len + Len(xs) /\ ~(sl2.len <= Len(h[sl.array]))
      BY <1>1, <1>3, <2>6, <2>7, <2>8 DEF Within, need
    <3>2. /\ \A j \in 1 .. sl.len : h2[sl2.array][j] = h[sl.array][j]
          /\ \A j \in sl.len + 1 .. sl2.len : h2[sl2.array][j] = xs[j - sl.len]
      BY <2>6, <2>7, <2>8, SMTT(30)
    <3> QED
      BY <2>7, <2>8, <3>1, <3>2 DEF Appended
  <2> QED
    BY <2>2, <2>9
<1> QED
  BY <1>2, <1>3

\* A slice keeps its cells if append is for another array, or up to where the
\* slice of append ends; what it shares beyond that is what is appended.
LEMMA AppendKeeps ==
  ASSUME NEW h \in Seq(Seq(TagCells)), NEW sl \in Slices, Within(h, sl),
         NEW xs \in Seq(TagCells), NEW h2, NEW sl2, Appended(h, sl, xs, h2, sl2),
         NEW other \in Slices, Within(h, other)
  PROVE  /\ Within(h2, other) /\ Len(h2[other.array]) = Len(h[other.array])
         /\ other.array # sl.array => sl2.array # other.array
         /\ sl2.array \in {sl.array, Len(h) + 1} /\ Len(h2) \in {Len(h), Len(h) + 1}
         /\ \A j \in 1 .. Len(h[other.array]) :
              \/ h2[other.array][j] = h[other.array][j]
              \/ /\ other.array = sl.array /\ sl2.array = sl.array
                 /\ j \in sl.len + 1 .. sl2.len /\ h2[other.array][j] = xs[j - sl.len]
<1>1. other.array \in 1 .. Len(h) /\ other.len <= Len(h[other.array]) /\ Len(h) \in Nat
  BY DEF Within
<1>2. CASE sl2.len <= Len(h[sl.array])
  BY <1>1, <1>2, Zenon DEF Appended, Within, Slices
<1>3. CASE ~(sl2.len <= Len(h[sl.array]))
  <2>1. /\ sl2.array = Len(h) + 1 /\ Len(h2) = Len(h) + 1
        /\ \A a \in 1 .. Len(h) : h2[a] = h[a]
    BY <1>3, Zenon DEF Appended
  <2> QED
    BY <1>1, <2>1, SMTT(30) DEF Within
<1> QED
  BY <1>2, <1>3

-----------------------------------------------------------------------------
\* The instruments keep the slices they were made with.
MetricsTypes ==
  /\ client \in [kind : {"memory", "statsd"}, global : {<<>>, <<Global>>}]
  /\ heap \in Seq(Seq(TagCells))
  /\ timer.len \in TagCounts
  /\ timer = Tagged(timer.len, 1) /\ meter = Tagged(timer.len, 2)
  /\ gaugeTags = Tagged(timer.len, 3)
  /\ gaugeRegistry \in Slices
  /\ poller \in [rounds : Nat, pos : Nat]
  /\ polled \in Seq(Goroutines) /\ registered \subseteq Goroutines
  /\ go \in [Goroutines -> [at : {"idle", "timing"}, ops : Nat, context : Contexts \cup {NoCell}]]
  /\ tags \in [Goroutines -> Slices]
  /\ stateMu \subseteq Contexts /\ stopped \subseteq Contexts
  /\ client.kind = "memory" => \A r \in records : r.slice \in Slices

Timings == {g \in Goroutines : go[g].at = "timing"}

\* The registry has an array of its own, and so has a goroutine that has appended
\* its tag, unless that is the array of the timer.  No record is in the former,
\* and a record in the latter shares the array of the timer.
OwnInv ==
  /\ Len(heap) >= 4
  /\ Len(heap[1]) >= timer.len /\ Len(heap[2]) >= timer.len /\ Len(heap[3]) >= timer.len
  /\ Within(heap, gaugeRegistry) /\ gaugeRegistry.array > 3
  /\ \A g \in Timings : Within(heap, tags[g]) /\ tags[g].array \notin {2, 3, gaugeRegistry.array}
  /\ \A g, h \in Timings : g # h /\ tags[g].array = tags[h].array => tags[g].array = 1
  /\ client.kind = "memory" => \A r \in records :
       /\ Within(heap, r.slice) /\ r.slice.array # gaugeRegistry.array
       /\ \A g \in Timings : r.slice.array = tags[g].array => r.slice.array = 1

\* The arrays of the instruments and the registry.
LEMMA HeapFacts ==
  ASSUME MetricsTypes, OwnInv
  PROVE  /\ heap \in Seq(Seq(TagCells)) /\ Len(heap) \in Nat /\ Len(heap) >= 4
         /\ timer.len \in Nat
         /\ \A a \in 1 .. 3 : a \in 1 .. Len(heap) /\ Len(heap[a]) >= timer.len
                             /\ Len(heap[a]) \in Nat
<1>1. heap \in Seq(Seq(TagCells)) /\ timer \in Slices
  BY MetricsAssumption DEF MetricsTypes, Tagged, Slices
<1>2. /\ Len(heap) >= 4 /\ Len(heap[1]) >= timer.len /\ Len(heap[2]) >= timer.len
      /\ Len(heap[3]) >= timer.len
  BY DEF OwnInv
<1>3. Len(heap) \in Nat /\ timer.len \in Nat
  BY <1>1 DEF Slices
<1>4. \A a \in 1 .. 3 : a \in 1 .. Len(heap) /\ a \in {1, 2, 3}
  BY <1>2, <1>3
<1> QED
  BY <1>1, <1>2, <1>3, <1>4, SMTT(30)

\* There is a global tag or none.
LEMMA GlobalTags ==
  ASSUME MetricsTypes
  PROVE  /\ client.global \in {<<>>, <<Global>>} /\ client.global \in Seq(TagCells)
         /\ Len(client.global) \in {0, 1}
         /\ \A j \in 1 .. Len(client.global) : client.global[j] = Global
<1>1. client.global \in {<<>>, <<Global>>}
  BY DEF MetricsTypes
<1>2. <<>> \in Seq(TagCells) /\ <<Global>> \in Seq(TagCells)
  BY DEF TagCells
<1>3. /\ Len(<<>>) = 0 /\ Len(<<Global>>) = 1
      /\ \A j \in 1 .. 0 : <<>>[j] = Global
      /\ \A j \in 1 .. 1 : <<Global>>[j] = Global
  OBVIOUS
<1> QED
  BY <1>1, <1>2, <1>3, Zenon

\* The slices of the instruments.
LEMMA InstrumentSlices ==
  ASSUME MetricsTypes, OwnInv
  PROVE  /\ timer.len \in Nat
         /\ timer \in Slices /\ timer.array = 1 /\ Within(heap, timer)
         /\ meter \in Slices /\ meter.array = 2 /\ meter.len = timer.len /\ Within(heap, meter)
         /\ gaugeTags \in Slices /\ gaugeTags.array = 3 /\ gaugeTags.len = timer.len
         /\ Within(heap, gaugeTags)
<1>1. timer.len \in Nat
  BY MetricsAssumption, Zenon DEF MetricsTypes
<1>2. \A a \in {1, 2, 3} : /\ Tagged(timer.len, a) \in Slices /\ Tagged(timer.len, a).array = a
                          /\ Tagged(timer.len, a).len = timer.len
  BY <1>1 DEF Tagged, Slices
<1>4. /\ timer = Tagged(timer.len, 1) /\ meter = Tagged(timer.len, 2)
      /\ gaugeTags = Tagged(timer.len, 3)
  BY DEF MetricsTypes
<1>3. /\ timer \in Slices /\ timer.array = 1
      /\ meter \in Slices /\ meter.array = 2 /\ meter.len = timer.len
      /\ gaugeTags \in Slices /\ gaugeTags.array = 3 /\ gaugeTags.len = timer.len
  BY <1>2, <1>4
<1>5. /\ Len(heap) >= 4 /\ Len(heap) \in Nat
      /\ Len(heap[1]) >= timer.len /\ Len(heap[2]) >= timer.len /\ Len(heap[3]) >= timer.len
  BY DEF OwnInv, MetricsTypes
<1> QED
  BY <1>1, <1>3, <1>5 DEF Within

\* The arrays of a meter and of the gauges' tags are nobody else's.
LEMMA InstrumentsApart ==
  ASSUME MetricsTypes, OwnInv
  PROVE  \A a \in {2, 3} : a # gaugeRegistry.array /\ \A h \in Timings : a # tags[h].array
<1>1. gaugeRegistry.array \in Nat /\ gaugeRegistry.array > 3
  BY DEF MetricsTypes, OwnInv, Slices
<1>2. \A h \in Timings : tags[h].array \notin {2, 3}
  BY DEF OwnInv
<1> QED
  BY <1>1, <1>2

\* What a step that leaves the instruments and the registry has to keep.
LEMMA TypesAfter ==
  ASSUME MetricsTypes, UNCHANGED <<instruments, gaugeVars, tags>>, heap' \in Seq(Seq(TagCells)),
         client.kind = "memory" => \A r \in records' : r.slice \in Slices,
         go' \in [Goroutines -> [at : {"idle", "timing"}, ops : Nat, context : Contexts \cup {NoCell}]],
         stateMu' \subseteq Contexts, stopped' \subseteq Contexts
  PROVE  MetricsTypes'
<1>1. UNCHANGED <<client, timer, meter, gaugeTags, gaugeRegistry, poller, polled, registered, tags>>
  BY DEF instruments, gaugeVars
<1>2. /\ (client \in [kind : {"memory", "statsd"}, global : {<<>>, <<Global>>}])'
      /\ (timer.len \in TagCounts)'
      /\ (timer = Tagged(timer.len, 1) /\ meter = Tagged(timer.len, 2))'
      /\ (gaugeTags = Tagged(timer.len, 3))'
      /\ (gaugeRegistry \in Slices)'
  BY <1>1, Zenon DEF MetricsTypes, Tagged
<1>3. /\ (poller \in [rounds : Nat, pos : Nat])'
      /\ (polled \in Seq(Goroutines) /\ registered \subseteq Goroutines)'
      /\ (tags \in [Goroutines -> Slices])'
      /\ (client.kind = "memory" => \A r \in records : r.slice \in Slices)'
  BY <1>1, Zenon DEF MetricsTypes
<1> QED
  BY <1>2, <1>3, Zenon DEF MetricsTypes

\* What Record does.
LEMMA RecordDoes ==
  ASSUME MetricsTypes, NEW sl \in Slices, Within(heap, sl), NEW given, NEW who,
         Record(heap, sl, given, who)
  PROVE  \/ /\ client.kind = "memory"
            /\ \E sl2 : /\ Appended(heap, sl, client.global, heap', sl2)
                        /\ records' = records \cup {[slice |-> sl2, given |-> given \o client.global,
                                                     who |-> who]}
         \/ /\ client.kind = "statsd" /\ heap' = heap
            /\ records' = records \cup {[cells |-> Cells(heap, sl), given |-> given, who |-> who]}
<1>1. client.kind \in {"memory", "statsd"} /\ client.global \in Seq(TagCells)
      /\ heap \in Seq(Seq(TagCells))
  BY GlobalTags DEF MetricsTypes
<1>2. CASE client.kind = "memory"
  <2>1. Appended(heap, sl, client.global, append(heap, sl, client.global).heap,
                 append(heap, sl, client.global).slice)
    BY <1>1, AppendDoes
  <2> QED
    BY <1>2, <2>1 DEF Record
<1>3. CASE client.kind = "statsd"
  BY <1>3 DEF Record
<1> QED
  BY <1>1, <1>2, <1>3, Zenon

\* What submitTiming does.
LEMMA SubmitDoes ==
  ASSUME MetricsTypes, OwnInv, NEW g \in Goroutines, submitTiming(g)
  PROVE  \E sl2 : /\ Appended(heap, timer, <<g>>, heap', sl2)
                  /\ tags' = [tags EXCEPT ![g] = sl2]
<1>1. timer \in Slices /\ Within(heap, timer)
  BY InstrumentSlices
<1>2. <<g>> \in Seq(TagCells) /\ heap \in Seq(Seq(TagCells))
  BY DEF MetricsTypes, TagCells
<1>3. Appended(heap, timer, <<g>>, append(heap, timer, <<g>>).heap, append(heap, timer, <<g>>).slice)
  BY <1>1, <1>2, AppendDoes, Zenon
<1> QED
  BY <1>3, Zenon DEF submitTiming

-----------------------------------------------------------------------------
\* Every slice stays in its array, and what is appended to a slice is in its array
\* or in a new one.
LEMMA SlicesStay ==
  ASSUME MetricsTypes, NEW sl \in Slices, Within(heap, sl), NEW xs \in Seq(TagCells),
         NEW sl2, Appended(heap, sl, xs, heap', sl2)
  PROVE  /\ heap' \in Seq(Seq(TagCells)) /\ sl2 \in Slices /\ Within(heap', sl2)
         /\ Len(heap') >= Len(heap) /\ sl2.array \in {sl.array, Len(heap) + 1}
         /\ \A other \in Slices : Within(heap, other) => Within(heap', other)
         /\ \A a \in 1 .. Len(heap) : Len(heap'[a]) = Len(heap[a])
<1>1. heap \in Seq(Seq(TagCells))
  BY DEF MetricsTypes
<1>2. \A other \in Slices : Within(heap, other) =>
        Within(heap', other) /\ Len(heap'[other.array]) = Len(heap[other.array])
  BY <1>1, AppendKeeps
<1>3. \A a \in 1 .. Len(heap) : Len(heap'[a]) = Len(heap[a])
  <2> SUFFICES ASSUME NEW a \in 1 .. Len(heap) PROVE Len(heap'[a]) = Len(heap[a])
    OBVIOUS
  <2>1. Tagged(0, a) \in Slices /\ Tagged(0, a).array = a /\ Within(heap, Tagged(0, a))
    BY <1>1 DEF Tagged, Slices, Within
  <2> QED
    BY <1>2, <2>1
<1>4. Len(heap') \in {Len(heap), Len(heap) + 1} /\ sl2.array \in {sl.array, Len(heap) + 1}
  BY <1>1, AppendKeeps
<1> QED
  BY <1>1, <1>2, <1>3, <1>4 DEF Appended

\* A goroutine begins a timing.
LEMMA TimingBegins ==
  ASSUME MetricsTypes, OwnInv, NEW g \in Goroutines, NEW c \in Contexts \cup {NoCell},
         go[g].at = "idle", submitTiming(g),
         go' = [go EXCEPT ![g] = [at |-> "timing", ops |-> go[g].ops + 1, context |-> c]],
         stateMu' \subseteq Contexts, UNCHANGED <<instruments, gaugeVars, stopped, records>>
  PROVE  MetricsTypes' /\ OwnInv'
<1>1. PICK sl2 : Appended(heap, timer, <<g>>, heap', sl2) /\ tags' = [tags EXCEPT ![g] = sl2]
  BY SubmitDoes
<1>2. <<g>> \in Seq(TagCells)
  BY DEF TagCells
<1>3. /\ heap' \in Seq(Seq(TagCells)) /\ sl2 \in Slices /\ Within(heap', sl2)
      /\ Len(heap') >= Len(heap) /\ sl2.array \in {1, Len(heap) + 1}
      /\ \A other \in Slices : Within(heap, other) => Within(heap', other)
      /\ \A a \in 1 .. Len(heap) : Len(heap'[a]) = Len(heap[a])
  BY <1>1, <1>2, SlicesStay, InstrumentSlices, Zenon
<1>4. MetricsTypes'
  BY <1>1, <1>3 DEF MetricsTypes, instruments, gaugeVars
<1>5. /\ Timings' = Timings \cup {g} /\ g \notin Timings
      /\ tags'[g] = sl2 /\ \A h \in Timings : tags'[h] = tags[h]
  BY <1>1 DEF MetricsTypes, Timings
<1>6. /\ UNCHANGED <<timer, gaugeRegistry, records, client>> /\ Len(heap) \in Nat
      /\ gaugeRegistry \in Slices /\ \A h \in Timings : tags[h] \in Slices
      /\ client.kind = "memory" => \A r \in records : r.slice \in Slices
  BY DEF MetricsTypes, Timings, instruments, gaugeVars
<1>7. Within(heap', gaugeRegistry) /\ gaugeRegistry.array > 3 /\ gaugeRegistry.array \in 1 .. Len(heap)
  BY <1>3, <1>6, Zenon DEF OwnInv, Within
<1>11. Len(heap) >= 4 /\ Len(heap') >= 4 /\ \A a \in 1 .. 3 : Len(heap'[a]) = Len(heap[a])
  BY <1>3, <1>6, SMTT(30) DEF OwnInv
<1>12. \A h \in Timings : /\ Within(heap, tags[h]) /\ tags[h].array \in 1 .. Len(heap)
                          /\ tags[h].array \notin {2, 3, gaugeRegistry.array}
  BY DEF OwnInv, Within
<1>13. \A h, l \in Timings : h # l /\ tags[h].array = tags[l].array => tags[h].array = 1
  BY DEF OwnInv
<1>14. client.kind = "memory" => \A r \in records :
         /\ Within(heap, r.slice) /\ r.slice.array \in 1 .. Len(heap)
         /\ r.slice.array # gaugeRegistry.array
         /\ \A h \in Timings : r.slice.array = tags[h].array => r.slice.array = 1
  BY DEF OwnInv, Within
<1>15. \A a \in 1 .. Len(heap) : sl2.array = a => a = 1
  BY <1>3, <1>6
<1>8. \A h \in Timings' : Within(heap', tags'[h]) /\ tags'[h].array \notin {2, 3, gaugeRegistry.array}
  <2>1. sl2.array \notin {2, 3, gaugeRegistry.array}
    <3>1. 2 \in 1 .. Len(heap) /\ 3 \in 1 .. Len(heap) /\ gaugeRegistry.array \in 1 .. Len(heap)
          /\ gaugeRegistry.array # 1
      BY <1>6, <1>7, <1>11, SMTT(30) DEF Slices
    <3> QED
      BY <1>15, <3>1
  <2> QED
    BY <1>3, <1>5, <1>6, <1>12, <2>1
<1>9. \A h, l \in Timings' : h # l /\ tags'[h].array = tags'[l].array => tags'[h].array = 1
  <2>1. \A h \in Timings : tags[h].array = sl2.array => sl2.array = 1
    BY <1>12, <1>15
  <2> QED
    BY <1>5, <1>13, <2>1
<1>10. client.kind = "memory" => \A r \in records :
         /\ Within(heap', r.slice) /\ r.slice.array # gaugeRegistry.array
         /\ \A h \in Timings' : r.slice.array = tags'[h].array => r.slice.array = 1
  <2>1. client.kind = "memory" => \A r \in records : r.slice.array = sl2.array => sl2.array = 1
    BY <1>14, <1>15
  <2> QED
    BY <1>3, <1>5, <1>6, <1>14, <2>1, ZenonT(30)
<1> QED
  BY <1>4, <1>6, <1>7, <1>8, <1>9, <1>10, <1>11, SMTT(30) DEF OwnInv

\* A record is made of a slice that is neither the registry nor the array of a
\* goroutine whose timing goes on.
LEMMA RecordOwn ==
  ASSUME MetricsTypes, OwnInv, NEW sl \in Slices, Within(heap, sl), NEW given, NEW who,
         Record(heap, sl, given, who), sl.array # gaugeRegistry.array,
         Timings' \subseteq Timings,
         \A h \in Timings' : sl.array = tags[h].array => sl.array = 1,
         UNCHANGED <<instruments, gaugeRegistry, tags>>
  PROVE  /\ OwnInv' /\ heap' \in Seq(Seq(TagCells))
         /\ client.kind = "memory" => \A r \in records' : r.slice \in Slices
<1>1. /\ UNCHANGED <<timer, client>> /\ Len(heap) \in Nat
      /\ gaugeRegistry \in Slices /\ \A h \in Timings : tags[h] \in Slices
      /\ client.kind = "memory" => \A r \in records : r.slice \in Slices
  BY DEF MetricsTypes, Timings, instruments
<1>2. \A h \in Timings' : h \in Timings /\ tags'[h] = tags[h]
  OBVIOUS
<1>3. CASE client.kind = "memory"
  <2>1. PICK sl2 : /\ Appended(heap, sl, client.global, heap', sl2)
                   /\ records' = records \cup {[slice |-> sl2, given |-> given \o client.global,
                                                who |-> who]}
    BY <1>3, RecordDoes
  <2>2. /\ heap' \in Seq(Seq(TagCells)) /\ sl2 \in Slices /\ Within(heap', sl2)
        /\ Len(heap') >= Len(heap) /\ sl2.array \in {sl.array, Len(heap) + 1}
        /\ \A other \in Slices : Within(heap, other) => Within(heap', other)
        /\ \A a \in 1 .. Len(heap) : Len(heap'[a]) = Len(heap[a])
    BY <2>1, SlicesStay, GlobalTags
  <2>3. \A r \in records' : r \in records \/ r.slice = sl2
    BY <2>1
  <2>4. /\ Within(heap', gaugeRegistry) /\ gaugeRegistry.array > 3
        /\ gaugeRegistry.array \in 1 .. Len(heap)
    BY <1>1, <2>2, Zenon DEF OwnInv, Within
  <2>5. \A h \in Timings : /\ Within(heap, tags[h]) /\ tags[h].array \in 1 .. Len(heap)
                            /\ tags[h].array \notin {2, 3, gaugeRegistry.array}
    BY DEF OwnInv, Within
  <2>6. \A h \in Timings' : Within(heap', tags'[h]) /\ tags'[h].array \notin {2, 3, gaugeRegistry.array}
    BY <1>1, <1>2, <2>2, <2>5
  <2>7. \A h, l \in Timings' : h # l /\ tags'[h].array = tags'[l].array => tags'[h].array = 1
    BY <1>2 DEF OwnInv
  <2>8. /\ sl2.array # gaugeRegistry.array
        /\ \A h \in Timings' : sl2.array = tags[h].array => sl2.array = 1
    BY <1>1, <1>2, <2>2, <2>4, <2>5
  <2>9. \A r \in records : /\ Within(heap, r.slice) /\ r.slice.array # gaugeRegistry.array
                            /\ \A h \in Timings : r.slice.array = tags[h].array => r.slice.array = 1
    BY <1>3 DEF OwnInv
  <2>10. \A r \in records' :
           /\ Within(heap', r.slice) /\ r.slice.array # gaugeRegistry.array
           /\ \A h \in Timings' : r.slice.array = tags'[h].array => r.slice.array = 1
    BY <1>1, <1>2, <1>3, <2>2, <2>3, <2>8, <2>9
  <2>11. Len(heap) >= 4 /\ Len(heap') >= 4 /\ \A a \in 1 .. 3 : Len(heap'[a]) = Len(heap[a])
    BY <1>1, <2>2, SMTT(30) DEF OwnInv
  <2>12. \A r \in records' : r.slice \in Slices
    BY <1>1, <1>3, <2>2, <2>3
  <2> QED
    <3>1. /\ Len(heap') >= 4 /\ Len(heap'[1]) >= timer'.len /\ Len(heap'[2]) >= timer'.len
          /\ Len(heap'[3]) >= timer'.len
      BY <1>1, <2>11, HeapFacts
    <3>2. gaugeRegistry' = gaugeRegistry /\ client' = client
      BY <1>1
    <3> QED
      BY <2>2, <2>4, <2>6, <2>7, <2>10, <2>12, <3>1, <3>2, Zenon DEF OwnInv
<1>4. CASE client.kind # "memory"
  <2>1. heap' = heap
    BY <1>4, RecordDoes
  <2> QED
    BY <1>1, <1>2, <1>4, <2>1, SMTT(30) DEF OwnInv, MetricsTypes
<1> QED
  BY <1>3, <1>4

\* The registry grows or shrinks.
LEMMA RegistryOwn ==
  ASSUME MetricsTypes, OwnInv, NEW sl \in Slices, Within(heap, sl),
         sl.array = gaugeRegistry.array, NEW xs \in Seq(TagCells),
         Appended(heap, sl, xs, heap', gaugeRegistry'),
         Timings' = Timings, UNCHANGED <<instruments, tags, records>>
  PROVE  OwnInv' /\ heap' \in Seq(Seq(TagCells)) /\ gaugeRegistry' \in Slices
<1>1. /\ UNCHANGED <<timer, client>> /\ Len(heap) \in Nat
      /\ gaugeRegistry \in Slices /\ \A h \in Timings : tags[h] \in Slices
      /\ client.kind = "memory" => \A r \in records : r.slice \in Slices
  BY DEF MetricsTypes, Timings, instruments
<1>2. /\ heap' \in Seq(Seq(TagCells)) /\ gaugeRegistry' \in Slices /\ Within(heap', gaugeRegistry')
      /\ Len(heap') >= Len(heap) /\ gaugeRegistry'.array \in {sl.array, Len(heap) + 1}
      /\ \A other \in Slices : Within(heap, other) => Within(heap', other)
      /\ \A a \in 1 .. Len(heap) : Len(heap'[a]) = Len(heap[a])
  BY SlicesStay
<1>3. Len(heap) >= 4 /\ Len(heap') >= 4 /\ \A a \in 1 .. 3 : Len(heap'[a]) = Len(heap[a])
  <2>1. Len(heap) >= 4 /\ Len(heap') >= Len(heap) /\ Len(heap) \in Nat /\ Len(heap') \in Nat
    BY <1>1, <1>2 DEF OwnInv
  <2>2. \A a \in 1 .. 3 : a \in 1 .. Len(heap)
    BY <2>1
  <2> QED
    BY <1>2, <2>1, <2>2
<1>4. gaugeRegistry'.array > 3 /\ gaugeRegistry.array > 3
  <2>1. gaugeRegistry.array > 3
    BY DEF OwnInv
  <2>2. gaugeRegistry'.array \in {gaugeRegistry.array, Len(heap) + 1}
    BY <1>2
  <2>3. Len(heap) + 1 > 3
    BY <1>1, <1>3
  <2> QED
    BY <2>1, <2>2, <2>3
<1>5. \A h \in Timings : /\ Within(heap, tags[h]) /\ tags[h].array \in 1 .. Len(heap)
                          /\ tags[h].array \notin {2, 3, gaugeRegistry.array}
  BY DEF OwnInv, Within
<1>6. client.kind = "memory" => \A r \in records :
        /\ Within(heap, r.slice) /\ r.slice.array \in 1 .. Len(heap)
        /\ r.slice.array # gaugeRegistry.array
  BY DEF OwnInv, Within
<1>7. \A a \in 1 .. Len(heap) : a # gaugeRegistry.array => a # gaugeRegistry'.array
  BY <1>1, <1>2
<1>8. \A h \in Timings : Within(heap', tags[h]) /\ tags[h].array \notin {2, 3, gaugeRegistry'.array}
  BY <1>1, <1>2, <1>5, <1>7
<1>9. client.kind = "memory" => \A r \in records :
        Within(heap', r.slice) /\ r.slice.array # gaugeRegistry'.array
  BY <1>1, <1>2, <1>6, <1>7
<1> QED
  BY <1>1, <1>2, <1>3, <1>4, <1>8, <1>9, SMTT(30) DEF OwnInv

\* A slice is a part of its array.
LEMMA SliceFacts ==
  ASSUME NEW h \in Seq(Seq(TagCells)), NEW sl \in Slices, Within(h, sl)
  PROVE  /\ sl.array \in 1 .. Len(h) /\ sl.len \in Nat /\ sl.len <= Len(h[sl.array])
         /\ h[sl.array] \in Seq(TagCells) /\ Len(h[sl.array]) \in Nat
<1>1. sl.array \in 1 .. Len(h) /\ sl.len \in Nat /\ sl.len <= Len(h[sl.array])
  BY DEF Within, Slices
<1>2. h[sl.array] \in Seq(TagCells)
  BY <1>1
<1> QED
  BY <1>1, <1>2

\* Timings, counts and the poller leave the instruments' types.
LEMMA TimingsAfter ==
  ASSUME MetricsTypes, NEW g \in Goroutines, NEW at, NEW c
  PROVE  /\ Begin(g, at, c) => g \notin Timings
         /\ Begin(g, "idle", NoCell) => Timings' = Timings
         /\ Return(g) => Timings' = Timings \ {g}
<1>1. go \in [Goroutines -> [at : {"idle", "timing"}, ops : Nat, context : Contexts \cup {NoCell}]]
  BY DEF MetricsTypes
<1> QED
  BY <1>1 DEF Begin, Return, Timings

LEMMA ControlTypes ==
  ASSUME MetricsTypes, NEW g \in Goroutines
  PROVE  Begin(g, "idle", NoCell) \/ Return(g) =>
           go' \in [Goroutines -> [at : {"idle", "timing"}, ops : Nat,
                                   context : Contexts \cup {NoCell}]]
<1>1. go \in [Goroutines -> [at : {"idle", "timing"}, ops : Nat, context : Contexts \cup {NoCell}]]
  BY DEF MetricsTypes
<1>2. CASE Begin(g, "idle", NoCell)
  BY <1>1, <1>2 DEF Begin
<1>3. CASE Return(g)
  BY <1>1, <1>3, ZenonT(30) DEF Return
<1> QED
  BY <1>2, <1>3

-----------------------------------------------------------------------------
(***************************************************************************)
(* The registry of gauges.                                                 *)
(***************************************************************************)
\* The gauge at a position of the registry.
GaugeAt(j) == heap[gaugeRegistry.array][j]

\* The registry lists each registered gauge once, in any order; the poller has
\* asked those before its position and holds the lock until it sleeps again.
RegistryInv ==
  /\ \A j \in 1 .. gaugeRegistry.len : GaugeAt(j) \in registered
  /\ \A g \in registered : \E j \in 1 .. gaugeRegistry.len : GaugeAt(j) = g
  /\ \A j, l \in 1 .. gaugeRegistry.len : GaugeAt(j) = GaugeAt(l) => j = l
  /\ gaugeMu = IF poller.pos = 0 THEN NoCell ELSE "poller"
  /\ poller.pos > 0 => /\ poller.pos <= gaugeRegistry.len + 1
                       /\ Len(polled) = poller.pos - 1
                       /\ \A j \in 1 .. poller.pos - 1 : polled[j] = GaugeAt(j)

\* Nothing that is appended to the slice of another array moves the gauges.
LEMMA RegistryStays ==
  ASSUME MetricsTypes, OwnInv, RegistryInv, NEW sl \in Slices, Within(heap, sl),
         NEW xs \in Seq(TagCells), NEW sl2, Appended(heap, sl, xs, heap', sl2),
         sl.array # gaugeRegistry.array, UNCHANGED gaugeRegistry
  PROVE  \A j \in 1 .. gaugeRegistry.len : GaugeAt(j)' = GaugeAt(j)
<1>1. gaugeRegistry \in Slices /\ Within(heap, gaugeRegistry) /\ heap \in Seq(Seq(TagCells))
  BY DEF MetricsTypes, OwnInv
<1>2. \A j \in 1 .. Len(heap[gaugeRegistry.array]) :
        heap'[gaugeRegistry.array][j] = heap[gaugeRegistry.array][j]
  <2> DEFINE a == gaugeRegistry.array
  <2>1. \A j \in 1 .. Len(heap[a]) :
          \/ heap'[a][j] = heap[a][j]
          \/ a = sl.array /\ sl2.array = sl.array
    BY <1>1, AppendKeeps
  <2> QED
    BY <2>1
<1>3. \A j \in 1 .. gaugeRegistry.len : j \in 1 .. Len(heap[gaugeRegistry.array])
  BY <1>1, SMTT(30) DEF Within, Slices
<1> QED
  BY <1>2, <1>3 DEF GaugeAt

\* What NewGauge does to the registry.
LEMMA NewGaugeDoes ==
  ASSUME MetricsTypes, OwnInv, NEW g \in Goroutines, NewGauge(g)
  PROVE  /\ Appended(heap, gaugeRegistry, <<g>>, heap', gaugeRegistry') /\ <<g>> \in Seq(TagCells)
         /\ gaugeRegistry'.len = gaugeRegistry.len + 1 /\ GaugeAt(gaugeRegistry.len)' = g
         /\ \A j \in 1 .. gaugeRegistry.len : GaugeAt(j)' = GaugeAt(j)
<1>1. gaugeRegistry \in Slices /\ Within(heap, gaugeRegistry) /\ heap \in Seq(Seq(TagCells))
  BY DEF MetricsTypes, OwnInv
<1>2. <<g>> \in Seq(TagCells) /\ Len(<<g>>) = 1
  BY DEF TagCells
<1>3. Appended(heap, gaugeRegistry, <<g>>, append(heap, gaugeRegistry, <<g>>).heap,
               append(heap, gaugeRegistry, <<g>>).slice)
  BY <1>1, <1>2, AppendDoes, Zenon
<1>4. Appended(heap, gaugeRegistry, <<g>>, heap', gaugeRegistry')
  BY <1>3 DEF NewGauge
<1>5. /\ gaugeRegistry.array \in 1 .. Len(heap) /\ gaugeRegistry.len \in Nat
      /\ gaugeRegistry.len <= Len(heap[gaugeRegistry.array])
      /\ Len(heap[gaugeRegistry.array]) \in Nat
  BY <1>1, SliceFacts
<1>6. gaugeRegistry'.len = gaugeRegistry.len + 1
  BY <1>2, <1>4 DEF Appended
<1>7. CASE gaugeRegistry'.len <= Len(heap[gaugeRegistry.array])
  <2>1. /\ gaugeRegistry'.array = gaugeRegistry.array
        /\ \A j \in 1 .. Len(heap[gaugeRegistry.array]) :
             heap'[gaugeRegistry.array][j] =
               IF j \in gaugeRegistry.len + 1 .. gaugeRegistry'.len
               THEN <<g>>[j - gaugeRegistry.len] ELSE heap[gaugeRegistry.array][j]
    BY <1>4, <1>5, <1>7, Zenon DEF Appended
  <2>2. heap'[gaugeRegistry.array][gaugeRegistry'.len] = g
    BY <1>5, <1>6, <1>7, <2>1, SMTT(30)
  <2>3. \A j \in 1 .. gaugeRegistry.len :
          /\ j \in 1 .. Len(heap[gaugeRegistry.array])
          /\ j \notin gaugeRegistry.len + 1 .. gaugeRegistry'.len
    BY <1>5
  <2>4. \A j \in 1 .. gaugeRegistry.len :
          heap'[gaugeRegistry.array][j] = heap[gaugeRegistry.array][j]
    BY <2>1, <2>3
  <2> QED
    BY <1>2, <1>4, <1>6, <2>1, <2>2, <2>4 DEF GaugeAt
<1>8. CASE ~(gaugeRegistry'.len <= Len(heap[gaugeRegistry.array]))
  <2>1. /\ \A j \in 1 .. gaugeRegistry.len :
             heap'[gaugeRegistry'.array][j] = heap[gaugeRegistry.array][j]
        /\ \A j \in gaugeRegistry.len + 1 .. gaugeRegistry'.len :
             heap'[gaugeRegistry'.array][j] = <<g>>[j - gaugeRegistry.len]
    BY <1>4, <1>8, SMTT(30) DEF Appended
  <2>2. heap'[gaugeRegistry'.array][gaugeRegistry'.len] = g
    BY <1>5, <1>6, <2>1
  <2> QED
    BY <1>2, <1>4, <1>6, <2>1, <2>2 DEF GaugeAt
<1> QED
  BY <1>7, <1>8

\* What Gauge.Stop does to the registry: the gauges behind the one that is stopped
\* move up.
LEMMA StopGaugeDoes ==
  ASSUME MetricsTypes, OwnInv, RegistryInv, NEW g \in Goroutines, StopGauge(g)
  PROVE  \E j \in 1 .. gaugeRegistry.len :
           /\ GaugeAt(j) = g
           /\ \E sl \in Slices, xs \in Seq(TagCells) :
                /\ Within(heap, sl) /\ sl.array = gaugeRegistry.array
                /\ Appended(heap, sl, xs, heap', gaugeRegistry')
           /\ gaugeRegistry'.len = gaugeRegistry.len - 1
           /\ \A l \in 1 .. gaugeRegistry.len - 1 :
                GaugeAt(l)' = IF l < j THEN GaugeAt(l) ELSE GaugeAt(l + 1)
<1> DEFINE len == gaugeRegistry.len
           all == Cells(heap, gaugeRegistry)
<1>0. gaugeRegistry \in Slices /\ Within(heap, gaugeRegistry) /\ heap \in Seq(Seq(TagCells))
  BY DEF MetricsTypes, OwnInv
<1>1. /\ gaugeRegistry.array \in 1 .. Len(heap) /\ len \in Nat
      /\ len <= Len(heap[gaugeRegistry.array]) /\ Len(heap[gaugeRegistry.array]) \in Nat
      /\ heap[gaugeRegistry.array] \in Seq(TagCells)
  BY <1>0, SliceFacts
<1>2. /\ all \in Seq(TagCells) /\ Len(all) = len
      /\ \A l \in 1 .. len : all[l] = GaugeAt(l)
  BY <1>1 DEF Cells, GaugeAt
<1> DEFINE j == CHOOSE l \in DOMAIN all : all[l] = g
<1>3. j \in 1 .. len /\ GaugeAt(j) = g
  <2>1. g \in registered
    BY DEF StopGauge
  <2>2. \E l \in 1 .. len : all[l] = g
    BY <1>2, <2>1 DEF RegistryInv
  <2>3. DOMAIN all = 1 .. len
    BY <1>2
  <2> HIDE DEF all
  <2> QED
    BY <1>2, <2>2, <2>3
<1> DEFINE sl == [gaugeRegistry EXCEPT !.len = j - 1]
           xs == SubSeq(all, j + 1, Len(all))
<1>4. heap' = append(heap, sl, xs).heap /\ gaugeRegistry' = append(heap, sl, xs).slice
  BY DEF StopGauge
<1> HIDE DEF j
<1>5. sl \in Slices /\ sl.array = gaugeRegistry.array /\ sl.len = j - 1 /\ Within(heap, sl)
  <2>1. gaugeRegistry = [array |-> gaugeRegistry.array, len |-> len]
    BY <1>0 DEF Slices
  <2>2. sl = [array |-> gaugeRegistry.array, len |-> j - 1]
    BY <2>1
  <2>3. j - 1 \in Nat /\ j - 1 <= Len(heap[gaugeRegistry.array])
    BY <1>1, <1>3
  <2> QED
    BY <1>0, <1>1, <2>2, <2>3 DEF Slices, Within
<1>6. xs \in Seq(TagCells) /\ Len(xs) = len - j /\ \A l \in 1 .. len - j : xs[l] = GaugeAt(j + l)
  <2> HIDE DEF all
  <2>1. j + 1 \in Nat /\ j + 1 >= 1 /\ Len(all) = len /\ len \in Nat /\ all \in Seq(TagCells)
    BY <1>1, <1>2, <1>3
  <2>2. xs \in Seq(TagCells) /\ Len(xs) = len - j
        /\ \A l \in 1 .. len - j : xs[l] = all[j + l]
    <3> HIDE DEF len
    <3>1. xs \in Seq(TagCells) /\ Len(xs) = IF j + 1 <= len THEN len - (j + 1) + 1 ELSE 0
      BY <1>3, <2>1
    <3>2. \A l \in 1 .. len - j : xs[l] = all[j + 1 + l - 1]
      BY <1>3, <2>1
    <3>3. \A l \in 1 .. len - j : j + 1 + l - 1 = j + l
      BY <1>3, <2>1
    <3>4. Len(xs) = len - j
      BY <1>3, <2>1, <3>1
    <3> QED
      BY <3>1, <3>2, <3>3, <3>4
  <2>3. \A l \in 1 .. len - j : j + l \in 1 .. len
    BY <1>1, <1>3
  <2> QED
    BY <1>2, <2>2, <2>3, SMTT(30)
<1> HIDE DEF sl, xs
<1>7. Appended(heap, sl, xs, heap', gaugeRegistry')
  BY <1>0, <1>4, <1>5, <1>6, AppendDoes
<1>8. gaugeRegistry'.len = len - 1 /\ gaugeRegistry'.len <= Len(heap[sl.array])
  <2>1. gaugeRegistry'.len = sl.len + Len(xs)
    BY <1>7 DEF Appended
  <2>2. gaugeRegistry'.len = len - 1
    BY <1>1, <1>3, <1>5, <1>6, <2>1
  <2> QED
    BY <1>1, <1>5, <2>2
<1>9. /\ gaugeRegistry'.array = gaugeRegistry.array
      /\ \A l \in 1 .. Len(heap[sl.array]) :
           heap'[sl.array][l] = IF l \in j .. len - 1 THEN xs[l - (j - 1)] ELSE heap[sl.array][l]
  <2>1. /\ gaugeRegistry'.array = sl.array
        /\ \A l \in 1 .. Len(heap[sl.array]) :
             heap'[sl.array][l] = IF l \in sl.len + 1 .. gaugeRegistry'.len THEN xs[l - sl.len]
                                  ELSE heap[sl.array][l]
    BY <1>1, <1>5, <1>7, <1>8, SMTT(30) DEF Appended
  <2>2. sl.len + 1 = j
    BY <1>1, <1>3, <1>5
  <2> QED
    BY <1>5, <1>8, <2>1, <2>2
<1>10. \A l \in 1 .. len - 1 : GaugeAt(l)' = IF l < j THEN GaugeAt(l) ELSE GaugeAt(l + 1)
  <2> SUFFICES ASSUME NEW l \in 1 .. len - 1
               PROVE  GaugeAt(l)' = IF l < j THEN GaugeAt(l) ELSE GaugeAt(l + 1)
    OBVIOUS
  <2>1. heap'[sl.array][l] = IF l \in j .. len - 1 THEN xs[l - (j - 1)] ELSE heap[sl.array][l]
    BY <1>1, <1>5, <1>9
  <2>2. CASE l < j
    BY <1>1, <1>3, <1>5, <1>9, <2>1, <2>2 DEF GaugeAt
  <2>3. CASE ~(l < j)
    <3>1. l - (j - 1) \in 1 .. len - j /\ j + (l - (j - 1)) = l + 1
      BY <1>1, <1>3, <2>3
    <3>2. xs[l - (j - 1)] = GaugeAt(l + 1)
      BY <1>6, <3>1
    <3>3. heap'[sl.array][l] = xs[l - (j - 1)]
      BY <1>1, <1>3, <2>1, <2>3
    <3> QED
      BY <1>5, <1>9, <2>3, <3>2, <3>3 DEF GaugeAt
  <2> QED
    BY <2>2, <2>3
<1> QED
  BY <1>3, <1>5, <1>6, <1>7, <1>8, <1>10

LEMMA RecordGauges ==
  ASSUME MetricsTypes, OwnInv, RegistryInv, NEW sl \in Slices, Within(heap, sl), NEW given,
         NEW who, Record(heap, sl, given, who), sl.array # gaugeRegistry.array,
         UNCHANGED gaugeRegistry
  PROVE  \A j \in 1 .. gaugeRegistry.len : GaugeAt(j)' = GaugeAt(j)
<1>1. CASE heap' = heap
  BY <1>1 DEF GaugeAt
<1>2. CASE \E sl2 : Appended(heap, sl, client.global, heap', sl2)
  BY <1>2, RegistryStays, GlobalTags
<1> QED
  BY <1>1, <1>2, RecordDoes

\* The invariant of the registry, when the gauges do not move.
LEMMA RegistrySame ==
  ASSUME RegistryInv, \A j \in 1 .. gaugeRegistry.len : GaugeAt(j)' = GaugeAt(j), MetricsTypes,
         UNCHANGED gaugeVars
  PROVE  RegistryInv'
<1>1. UNCHANGED <<gaugeRegistry, gaugeMu, poller, polled, registered>>
  BY DEF gaugeVars
<1>2. poller.pos \in Nat /\ gaugeRegistry.len \in Nat
  BY DEF MetricsTypes, Slices
<1>3. poller.pos <= gaugeRegistry.len + 1 =>
        \A j \in 1 .. poller.pos - 1 : j \in 1 .. gaugeRegistry.len
  BY <1>2
<1> QED
  BY <1>1, <1>2, <1>3 DEF RegistryInv

\* A goroutine that begins a timing disturbs no gauge.
LEMMA TimingRegistry ==
  ASSUME MetricsTypes, OwnInv, RegistryInv, NEW g \in Goroutines, submitTiming(g),
         UNCHANGED gaugeVars
  PROVE  RegistryInv'
<1>1. PICK sl2 : Appended(heap, timer, <<g>>, heap', sl2)
  BY SubmitDoes
<1>2. timer \in Slices /\ Within(heap, timer) /\ timer.array # gaugeRegistry.array
  BY InstrumentSlices DEF OwnInv
<1>3. <<g>> \in Seq(TagCells)
  BY DEF TagCells
<1>4. UNCHANGED gaugeRegistry
  BY DEF gaugeVars
<1>5. \A j \in 1 .. gaugeRegistry.len : GaugeAt(j)' = GaugeAt(j)
  BY <1>1, <1>2, <1>3, <1>4, RegistryStays, Zenon
<1> QED
  BY <1>5, RegistrySame

LEMMA TimingKeeps ==
  ASSUME MetricsTypes, OwnInv, RegistryInv, NEW g \in Goroutines, Timing(g)
  PROVE  MetricsTypes' /\ OwnInv' /\ RegistryInv'
<1>1. /\ g \in Timings /\ tags[g] \in Slices /\ Within(heap, tags[g])
      /\ tags[g].array # gaugeRegistry.array
  <2>1. g \in Timings
    BY DEF Timings, Timing
  <2> QED
    BY <2>1 DEF MetricsTypes, OwnInv
<1>2. /\ Record(heap, tags[g], Append(OwnTags(timer.len), g),
                Who("timer", g, go[g].ops, go[g].context))
      /\ UNCHANGED <<instruments, gaugeVars, tags>> /\ Return(g)
  BY DEF Timing
<1>3. Timings' = Timings \ {g}
  BY <1>2, TimingsAfter
<1>4. \A h \in Timings' : tags[g].array = tags[h].array => tags[g].array = 1
  BY <1>1, <1>3 DEF OwnInv
<1>5. UNCHANGED <<instruments, gaugeRegistry, tags>>
  BY <1>2 DEF gaugeVars
<1>6. /\ OwnInv' /\ heap' \in Seq(Seq(TagCells))
      /\ client.kind = "memory" => \A r \in records' : r.slice \in Slices
  BY <1>1, <1>2, <1>3, <1>4, <1>5, RecordOwn
<1>7. go[g].context \in Contexts \cup {NoCell}
  BY DEF MetricsTypes
<1>8. stateMu' \subseteq Contexts /\ stopped' \subseteq Contexts
  BY <1>7 DEF MetricsTypes, Timing
<1>9. MetricsTypes'
  BY <1>2, <1>6, <1>8, ControlTypes, TypesAfter
<1>10. RegistryInv'
  BY <1>1, <1>2, <1>5, RecordGauges, RegistrySame
<1> QED
  BY <1>6, <1>9, <1>10

LEMMA CountKeeps ==
  ASSUME MetricsTypes, OwnInv, RegistryInv, NEW g \in Goroutines, Count(g)
  PROVE  MetricsTypes' /\ OwnInv' /\ RegistryInv'
<1>1. /\ meter \in Slices /\ Within(heap, meter) /\ meter.array = 2
      /\ meter.array # gaugeRegistry.array
      /\ \A h \in Timings : meter.array # tags[h].array
  BY InstrumentSlices, InstrumentsApart
<1>2. /\ Record(heap, meter, OwnTags(meter.len), Who("meter", g, go[g].ops + 1, NoCell))
      /\ UNCHANGED <<instruments, gaugeVars, tags, stateMu, stopped>>
      /\ Begin(g, "idle", NoCell)
  BY DEF Count
<1>3. Timings' = Timings
  BY <1>2, TimingsAfter
<1>4. \A h \in Timings' : meter.array = tags[h].array => meter.array = 1
  BY <1>1, <1>3
<1>5. UNCHANGED <<instruments, gaugeRegistry, tags>>
  BY <1>2 DEF gaugeVars
<1>6. /\ OwnInv' /\ heap' \in Seq(Seq(TagCells))
      /\ client.kind = "memory" => \A r \in records' : r.slice \in Slices
  BY <1>1, <1>2, <1>3, <1>4, <1>5, RecordOwn
<1>7. MetricsTypes'
  <2>1. stateMu' \subseteq Contexts /\ stopped' \subseteq Contexts
    BY <1>2 DEF MetricsTypes
  <2> QED
    BY <1>2, <1>6, <2>1, ControlTypes, TypesAfter
<1>8. RegistryInv'
  BY <1>1, <1>2, <1>5, RecordGauges, RegistrySame
<1> QED
  BY <1>6, <1>7, <1>8

\* The poller asks the gauge at its position.
LEMMA PollGaugeKeeps ==
  ASSUME MetricsTypes, OwnInv, RegistryInv, PollGauge
  PROVE  MetricsTypes' /\ OwnInv' /\ RegistryInv'
<1>1. /\ gaugeTags \in Slices /\ Within(heap, gaugeTags) /\ gaugeTags.array = 3
      /\ gaugeTags.array # gaugeRegistry.array
      /\ \A h \in Timings : gaugeTags.array # tags[h].array
  BY InstrumentSlices, InstrumentsApart
<1>2. PICK given, who : Record(heap, gaugeTags, given, who)
  BY DEF PollGauge
<1>3. /\ UNCHANGED <<instruments, gaugeRegistry, gaugeMu, registered, go, tags, stateMu, stopped>>
      /\ poller.pos \in 1 .. gaugeRegistry.len /\ poller' = [poller EXCEPT !.pos = @ + 1]
      /\ polled' = Append(polled, Cells(heap, gaugeRegistry)[poller.pos])
  BY DEF PollGauge
<1>4. Timings' = Timings
  BY <1>3 DEF Timings
<1>5. \A h \in Timings' : gaugeTags.array = tags[h].array => gaugeTags.array = 1
  BY <1>1, <1>4
<1>6. /\ OwnInv' /\ heap' \in Seq(Seq(TagCells))
      /\ client.kind = "memory" => \A r \in records' : r.slice \in Slices
  BY <1>1, <1>2, <1>3, <1>4, <1>5, RecordOwn
<1>7. Cells(heap, gaugeRegistry)[poller.pos] = GaugeAt(poller.pos)
  <2>1. gaugeRegistry \in Slices /\ Within(heap, gaugeRegistry) /\ heap \in Seq(Seq(TagCells))
    BY DEF MetricsTypes, OwnInv
  <2>2. /\ gaugeRegistry.len \in Nat /\ gaugeRegistry.len <= Len(heap[gaugeRegistry.array])
        /\ heap[gaugeRegistry.array] \in Seq(TagCells)
    BY <2>1, SliceFacts
  <2> QED
    BY <1>3, <2>2 DEF Cells, GaugeAt
<1>8. GaugeAt(poller.pos) \in registered
  BY <1>3 DEF RegistryInv
<1>9. /\ polled' \in Seq(Goroutines) /\ Len(polled') = Len(polled) + 1
      /\ polled'[Len(polled) + 1] = GaugeAt(poller.pos)
      /\ \A j \in 1 .. Len(polled) : polled'[j] = polled[j]
  <2>1. polled \in Seq(Goroutines) /\ GaugeAt(poller.pos) \in Goroutines
    BY <1>8 DEF MetricsTypes
  <2>2. polled' = Append(polled, GaugeAt(poller.pos))
    BY <1>3, <1>7
  <2> QED
    BY <2>1, <2>2
<1>10. /\ poller' \in [rounds : Nat, pos : Nat] /\ poller'.pos = poller.pos + 1
       /\ poller.pos \in Nat /\ gaugeRegistry.len \in Nat
  <2>1. poller \in [rounds : Nat, pos : Nat] /\ gaugeRegistry \in Slices
    BY DEF MetricsTypes
  <2>2. poller' = [poller EXCEPT !.pos = @ + 1]
    BY <1>3
  <2> QED
    BY <2>1, <2>2 DEF Slices
<1>11. MetricsTypes'
  <2>1. UNCHANGED <<client, timer, meter, gaugeTags, gaugeRegistry, registered, go, tags, stateMu, stopped>>
    BY <1>3 DEF instruments
  <2>2. /\ (client \in [kind : {"memory", "statsd"}, global : {<<>>, <<Global>>}])'
        /\ (timer.len \in TagCounts)'
        /\ (timer = Tagged(timer.len, 1) /\ meter = Tagged(timer.len, 2))'
        /\ (gaugeTags = Tagged(timer.len, 3))'
    BY <2>1, Zenon DEF MetricsTypes, Tagged
  <2> QED
    BY <1>6, <1>9, <1>10, <2>1, <2>2, Zenon DEF MetricsTypes
<1>12. \A j \in 1 .. gaugeRegistry.len : GaugeAt(j)' = GaugeAt(j)
  BY <1>1, <1>2, <1>3, RecordGauges
<1>13. \A j \in 1 .. poller'.pos - 1 : polled'[j] = GaugeAt(j)
  <2>1. Len(polled) = poller.pos - 1 /\ \A j \in 1 .. poller.pos - 1 : polled[j] = GaugeAt(j)
    BY <1>3, <1>10 DEF RegistryInv
  <2>2. \A j \in 1 .. poller'.pos - 1 : j \in 1 .. poller.pos - 1 \/ j = poller.pos
    BY <1>10
  <2>3. polled'[poller.pos] = GaugeAt(poller.pos)
    BY <1>9, <1>10, <2>1
  <2> QED
    BY <1>9, <2>1, <2>2, <2>3, Zenon
<1>14. /\ gaugeMu' = "poller" /\ poller'.pos > 0 /\ poller'.pos <= gaugeRegistry.len + 1
       /\ Len(polled') = poller'.pos - 1
       /\ \A j \in 1 .. poller'.pos - 1 : j \in 1 .. gaugeRegistry.len
  BY <1>3, <1>9, <1>10, SMTT(30) DEF RegistryInv
<1>15. RegistryInv'
  BY <1>3, <1>12, <1>13, <1>14 DEF RegistryInv
<1> QED
  BY <1>6, <1>11, <1>15

\* A gauge is registered.
LEMMA NewGaugeKeeps ==
  ASSUME MetricsTypes, OwnInv, RegistryInv, NEW g \in Goroutines, NewGauge(g)
  PROVE  MetricsTypes' /\ OwnInv' /\ RegistryInv'
<1>1. /\ Appended(heap, gaugeRegistry, <<g>>, heap', gaugeRegistry') /\ <<g>> \in Seq(TagCells)
      /\ gaugeRegistry'.len = gaugeRegistry.len + 1 /\ GaugeAt(gaugeRegistry.len)' = g
      /\ \A j \in 1 .. gaugeRegistry.len : GaugeAt(j)' = GaugeAt(j)
  BY NewGaugeDoes
<1>2. /\ UNCHANGED <<instruments, gaugeMu, poller, polled, tags, stateMu, stopped, records>>
      /\ Begin(g, "idle", NoCell) /\ g \notin registered /\ registered' = registered \cup {g}
      /\ gaugeMu = NoCell
  BY DEF NewGauge
<1>3. Timings' = Timings
  BY <1>2, TimingsAfter
<1>4. gaugeRegistry \in Slices /\ Within(heap, gaugeRegistry) /\ gaugeRegistry.len \in Nat
  BY DEF MetricsTypes, OwnInv, Slices
<1>5. OwnInv' /\ heap' \in Seq(Seq(TagCells)) /\ gaugeRegistry' \in Slices
  BY <1>1, <1>2, <1>3, <1>4, RegistryOwn, Zenon
<1>6. MetricsTypes'
  BY <1>2, <1>5, ControlTypes, SMTT(30) DEF MetricsTypes, instruments
<1>7. poller.pos = 0
  BY <1>2, MetricsAssumption DEF RegistryInv
<1>8. \A j \in 1 .. gaugeRegistry'.len : j \in 1 .. gaugeRegistry.len \/ j = gaugeRegistry'.len
  BY <1>1, <1>4
<1>9. gaugeRegistry'.len \in 1 .. gaugeRegistry'.len
       /\ \A j \in 1 .. gaugeRegistry.len : j \in 1 .. gaugeRegistry'.len
  BY <1>1, <1>4
<1>10. \A j \in 1 .. gaugeRegistry'.len : GaugeAt(j)' \in registered'
  <2> SUFFICES ASSUME NEW j \in 1 .. gaugeRegistry'.len PROVE GaugeAt(j)' \in registered'
    OBVIOUS
  <2>1. CASE j \in 1 .. gaugeRegistry.len
    BY <1>1, <1>2, <2>1, Zenon DEF RegistryInv
  <2>2. CASE j = gaugeRegistry'.len
    BY <1>1, <1>2, <2>2, Zenon
  <2> QED
    BY <1>8, <2>1, <2>2
<1>11. \A h \in registered' : \E j \in 1 .. gaugeRegistry'.len : GaugeAt(j)' = h
  BY <1>1, <1>2, <1>9 DEF RegistryInv
<1>12. \A j \in 1 .. gaugeRegistry.len : GaugeAt(j)' # g
  BY <1>1, <1>2 DEF RegistryInv
<1>13. \A j, l \in 1 .. gaugeRegistry'.len : GaugeAt(j)' = GaugeAt(l)' => j = l
  BY <1>1, <1>8, <1>12 DEF RegistryInv
<1>14. gaugeMu' = NoCell /\ poller'.pos = 0
  BY <1>2, <1>7
<1> QED
  BY <1>5, <1>6, <1>10, <1>11, <1>13, <1>14 DEF RegistryInv

\* A gauge is stopped, and the others stay.
LEMMA StopGaugeKeeps ==
  ASSUME MetricsTypes, OwnInv, RegistryInv, NEW g \in Goroutines, StopGauge(g)
  PROVE  MetricsTypes' /\ OwnInv' /\ RegistryInv'
<1>1. PICK j \in 1 .. gaugeRegistry.len :
           /\ GaugeAt(j) = g
           /\ \E sl \in Slices, xs \in Seq(TagCells) :
                /\ Within(heap, sl) /\ sl.array = gaugeRegistry.array
                /\ Appended(heap, sl, xs, heap', gaugeRegistry')
           /\ gaugeRegistry'.len = gaugeRegistry.len - 1
           /\ \A l \in 1 .. gaugeRegistry.len - 1 :
                GaugeAt(l)' = IF l < j THEN GaugeAt(l) ELSE GaugeAt(l + 1)
  BY StopGaugeDoes
<1>2. /\ UNCHANGED <<instruments, gaugeMu, poller, polled, tags, stateMu, stopped, records>>
      /\ Begin(g, "idle", NoCell) /\ registered' = registered \ {g} /\ gaugeMu = NoCell
  BY DEF StopGauge
<1>3. Timings' = Timings
  BY <1>2, TimingsAfter
<1>4. gaugeRegistry.len \in Nat
  BY DEF MetricsTypes, Slices
<1>5. OwnInv' /\ heap' \in Seq(Seq(TagCells)) /\ gaugeRegistry' \in Slices
  BY <1>1, <1>2, <1>3, RegistryOwn
<1>6. MetricsTypes'
  BY <1>2, <1>5, ControlTypes DEF MetricsTypes, instruments
<1>7. poller.pos = 0
  BY <1>2, MetricsAssumption DEF RegistryInv
<1> DEFINE old(l) == IF l < j THEN l ELSE l + 1
<1>8. \A l \in 1 .. gaugeRegistry'.len : old(l) \in 1 .. gaugeRegistry.len \ {j}
                                         /\ GaugeAt(l)' = GaugeAt(old(l))
  BY <1>1, <1>4
<1>9. \A m \in 1 .. gaugeRegistry.len \ {j} : \E l \in 1 .. gaugeRegistry'.len : old(l) = m
  <2> SUFFICES ASSUME NEW m \in 1 .. gaugeRegistry.len \ {j}
               PROVE  \E l \in 1 .. gaugeRegistry'.len : old(l) = m
    OBVIOUS
  <2>1. CASE m < j
    BY <1>1, <1>4, <2>1
  <2>2. CASE m > j
    <3>1. m - 1 \in 1 .. gaugeRegistry'.len /\ old(m - 1) = m
      BY <1>1, <1>4, <2>2
    <3> QED
      BY <3>1
  <2> QED
    BY <2>1, <2>2
<1>10. \A l, m \in 1 .. gaugeRegistry'.len : old(l) = old(m) => l = m
  BY <1>1, <1>4
<1> HIDE DEF old
<1>11. \A l \in 1 .. gaugeRegistry'.len : GaugeAt(l)' \in registered'
  BY <1>1, <1>2, <1>8 DEF RegistryInv
<1>12. \A h \in registered' : \E l \in 1 .. gaugeRegistry'.len : GaugeAt(l)' = h
  <2> SUFFICES ASSUME NEW h \in registered' PROVE \E l \in 1 .. gaugeRegistry'.len : GaugeAt(l)' = h
    OBVIOUS
  <2>1. PICK m \in 1 .. gaugeRegistry.len : GaugeAt(m) = h
    BY <1>2 DEF RegistryInv
  <2>2. m # j
    BY <1>1, <1>2, <2>1
  <2>3. PICK l \in 1 .. gaugeRegistry'.len : old(l) = m
    BY <1>9, <2>1, <2>2
  <2> QED
    BY <1>8, <2>1, <2>3
<1>13. \A l, m \in 1 .. gaugeRegistry'.len : GaugeAt(l)' = GaugeAt(m)' => l = m
  BY <1>8, <1>10 DEF RegistryInv
<1>14. gaugeMu' = NoCell /\ poller'.pos = 0
  BY <1>2, <1>7
<1> QED
  BY <1>5, <1>6, <1>11, <1>12, <1>13, <1>14 DEF RegistryInv

\* The poller begins or ends a round.
LEMMA PollerKeeps ==
  ASSUME MetricsTypes, OwnInv, RegistryInv, PollBegins \/ PollEnds
  PROVE  MetricsTypes' /\ OwnInv' /\ RegistryInv'
<1>1. /\ UNCHANGED <<instruments, heap, gaugeRegistry, registered, go, tags, stateMu, stopped, records>>
      /\ poller' \in [rounds : Nat, pos : Nat] /\ polled' \in Seq(Goroutines)
  <2>1. CASE PollBegins
    BY <2>1 DEF PollBegins, MetricsTypes
  <2>2. CASE PollEnds
    BY <2>2, SMTT(30) DEF PollEnds, MetricsTypes
  <2> QED
    BY <2>1, <2>2
<1>2. MetricsTypes'
  BY <1>1 DEF MetricsTypes, instruments
<1>3. OwnInv'
  BY <1>1, Zenon DEF OwnInv, instruments, Timings
<1>4. \A j \in 1 .. gaugeRegistry.len : GaugeAt(j)' = GaugeAt(j)
  BY <1>1 DEF GaugeAt
<1>5. gaugeRegistry.len \in Nat
  BY DEF MetricsTypes, Slices
<1>6. CASE PollBegins
  <2>1. gaugeMu' = "poller" /\ poller'.pos = 1 /\ polled' = <<>>
    BY <1>6 DEF PollBegins
  <2>2. 1 <= gaugeRegistry.len + 1 /\ Len(polled') = 1 - 1 /\ 1 .. 1 - 1 = {}
    BY <1>5, <2>1
  <2> QED
    BY <1>1, <1>2, <1>3, <1>4, <2>1, <2>2 DEF RegistryInv
<1>7. CASE PollEnds
  <2>1. gaugeMu' = NoCell /\ poller'.pos = 0
    BY <1>7 DEF PollEnds, MetricsTypes
  <2> QED
    BY <1>1, <1>2, <1>3, <1>4, <2>1 DEF RegistryInv
<1> QED
  BY <1>6, <1>7

\* Every step keeps the slices apart and the registry a list of the gauges.
LEMMA RegistryStep ==
  ASSUME MetricsTypes, OwnInv, RegistryInv, MetricsNext
  PROVE  MetricsTypes' /\ OwnInv' /\ RegistryInv'
<1>1. CASE PollBegins \/ PollEnds
  BY <1>1, PollerKeeps
<1>2. CASE PollGauge
  BY <1>2, PollGaugeKeeps
<1>3. ASSUME NEW g \in Goroutines, Timing(g) \/ Count(g) \/ NewGauge(g) \/ StopGauge(g)
      PROVE  MetricsTypes' /\ OwnInv' /\ RegistryInv'
  BY <1>3, TimingKeeps, CountKeeps, NewGaugeKeeps, StopGaugeKeeps
<1>4. ASSUME NEW g \in Goroutines, AddTiming(g)
      PROVE  MetricsTypes' /\ OwnInv' /\ RegistryInv'
  <2>1. /\ go[g].at = "idle" /\ submitTiming(g)
        /\ go' = [go EXCEPT ![g] = [at |-> "timing", ops |-> go[g].ops + 1, context |-> NoCell]]
        /\ UNCHANGED <<instruments, gaugeVars, stateMu, stopped, records>>
    BY <1>4 DEF AddTiming, Begin
  <2>2. stateMu' \subseteq Contexts /\ UNCHANGED <<instruments, gaugeVars, stopped, records>>
    BY <2>1 DEF MetricsTypes
  <2> QED
    BY <2>1, <2>2, TimingBegins, TimingRegistry, Zenon
<1>5. ASSUME NEW g \in Goroutines, NEW c \in Contexts, Stop(g, c)
      PROVE  MetricsTypes' /\ OwnInv' /\ RegistryInv'
  <2>1. UNCHANGED <<instruments, gaugeVars, stopped, records>>
    BY <1>5 DEF Stop
  <2>2. CASE Begin(g, "idle", NoCell) /\ UNCHANGED <<heap, tags, stateMu>>
    <3>1. Timings' = Timings
      BY <2>2, TimingsAfter
    <3>2. MetricsTypes'
      BY <2>1, <2>2, ControlTypes DEF MetricsTypes, instruments, gaugeVars
    <3>3. OwnInv'
      BY <2>1, <2>2, <3>1 DEF OwnInv, instruments, gaugeVars
    <3>4. RegistryInv'
      BY <2>1, <2>2 DEF RegistryInv, gaugeVars, GaugeAt
    <3> QED
      BY <3>2, <3>3, <3>4
  <2>3. CASE /\ Begin(g, "timing", c) /\ submitTiming(g)
             /\ stateMu' = stateMu \cup {c}
    <3>1. /\ go[g].at = "idle" /\ submitTiming(g)
          /\ go' = [go EXCEPT ![g] = [at |-> "timing", ops |-> go[g].ops + 1, context |-> c]]
      BY <2>3 DEF Begin
    <3>2. stateMu' \subseteq Contexts
      BY <2>3 DEF MetricsTypes
    <3> QED
      BY <2>1, <3>1, <3>2, TimingBegins, TimingRegistry, Zenon
  <2> QED
    BY <1>5, <2>2, <2>3 DEF Stop
<1> QED
  BY <1>1, <1>2, <1>3, <1>4, <1>5 DEF MetricsNext

\* The array of the instruments.
LEMMA GetTagsDoes ==
  ASSUME NEW n \in TagCounts
  PROVE  /\ n \in Nat /\ GetTags(OwnTags(n)) \in Seq(TagCells)
         /\ Len(GetTags(OwnTags(n))) = Capacity(n) /\ Capacity(n) >= n /\ Capacity(n) \in Nat
         /\ \A j \in 1 .. n : GetTags(OwnTags(n))[j] = j
<1>1. n \in Nat /\ Capacity(n) \in Nat /\ Capacity(n) >= n
  BY MetricsAssumption, CapacityAssumption
<1>2. /\ OwnTags(n) \in Seq(TagCells) /\ Len(OwnTags(n)) = n
      /\ \A j \in 1 .. n : OwnTags(n)[j] = j
  BY <1>1 DEF OwnTags, TagCells
<1>3. Capacity(n) - n \in Nat
  BY <1>1
<1>4. Blank(Capacity(n) - n) \in Seq(TagCells) /\ Len(Blank(Capacity(n) - n)) = Capacity(n) - n
  BY <1>3 DEF Blank, TagCells
<1>5. GetTags(OwnTags(n)) = OwnTags(n) \o Blank(Capacity(n) - n)
  BY <1>2 DEF GetTags
<1>6. /\ GetTags(OwnTags(n)) \in Seq(TagCells)
      /\ Len(GetTags(OwnTags(n))) = n + (Capacity(n) - n)
      /\ \A j \in 1 .. n : GetTags(OwnTags(n))[j] = OwnTags(n)[j]
  <2>1. OwnTags(n) \in Seq(TagCells) /\ Blank(Capacity(n) - n) \in Seq(TagCells)
    BY <1>2, <1>4
  <2>2. /\ OwnTags(n) \o Blank(Capacity(n) - n) \in Seq(TagCells)
        /\ Len(OwnTags(n) \o Blank(Capacity(n) - n)) = Len(OwnTags(n)) + Len(Blank(Capacity(n) - n))
        /\ \A j \in 1 .. Len(OwnTags(n)) :
             (OwnTags(n) \o Blank(Capacity(n) - n))[j] = OwnTags(n)[j]
    BY <2>1, Concatenated, Zenon
  <2> QED
    BY <1>2, <1>4, <1>5, <2>2, Zenon
<1> QED
  BY <1>1, <1>2, <1>6

\* The arrays when the instruments have been made.
LEMMA HeapBegins ==
  ASSUME MetricsInit
  PROVE  /\ timer.len \in TagCounts
         /\ timer = Tagged(timer.len, 1) /\ meter = Tagged(timer.len, 2)
         /\ gaugeTags = Tagged(timer.len, 3)
         /\ heap \in Seq(Seq(TagCells)) /\ Len(heap) = 4
         /\ \A a \in 1 .. 3 : heap[a] = GetTags(OwnTags(timer.len))
<1>1. PICK n \in TagCounts :
        /\ heap = [a \in 1..3 |-> GetTags(OwnTags(n))] \o <<<<>>>>
        /\ timer = Tagged(n, 1) /\ meter = Tagged(n, 2) /\ gaugeTags = Tagged(n, 3)
  BY DEF MetricsInit
<1>2. timer.len = n
  BY <1>1 DEF Tagged
<1>3. GetTags(OwnTags(n)) \in Seq(TagCells)
  BY GetTagsDoes
<1> DEFINE three == [a \in 1..3 |-> GetTags(OwnTags(n))]
<1>4. three \in Seq(Seq(TagCells)) /\ Len(three) = 3 /\ \A a \in 1 .. 3 : three[a] = GetTags(OwnTags(n))
  BY <1>3
<1>5. <<<<>>>> \in Seq(Seq(TagCells)) /\ Len(<<<<>>>>) = 1
  OBVIOUS
<1>6. heap = three \o <<<<>>>>
  BY <1>1
<1> HIDE DEF three
<1>7. heap \in Seq(Seq(TagCells)) /\ Len(heap) = Len(three) + Len(<<<<>>>>)
      /\ \A a \in 1 .. Len(three) : heap[a] = three[a]
  BY <1>4, <1>5, <1>6, Concatenated, ZenonT(30)
<1> QED
  BY <1>1, <1>2, <1>4, <1>5, <1>7

LEMMA RegistryBegins ==
  ASSUME MetricsInit
  PROVE  MetricsTypes /\ OwnInv /\ RegistryInv
<1>1. /\ timer.len \in TagCounts
      /\ timer = Tagged(timer.len, 1) /\ meter = Tagged(timer.len, 2)
      /\ gaugeTags = Tagged(timer.len, 3)
      /\ heap \in Seq(Seq(TagCells)) /\ Len(heap) = 4
      /\ \A a \in 1 .. 3 : heap[a] = GetTags(OwnTags(timer.len))
  BY HeapBegins
<1>2. timer.len \in Nat /\ \A a \in 1 .. 3 : Len(heap[a]) \in Nat /\ Len(heap[a]) >= timer.len
  BY <1>1, GetTagsDoes
<1>3. /\ gaugeRegistry = Tagged(0, 4) /\ gaugeMu = NoCell /\ poller = [rounds |-> 0, pos |-> 0]
      /\ polled = <<>> /\ registered = {} /\ stateMu = {} /\ stopped = {} /\ records = {}
      /\ go = [g \in Goroutines |-> [at |-> "idle", ops |-> 0, context |-> NoCell]]
      /\ tags = [g \in Goroutines |-> Tagged(0, 4)]
      /\ client \in [kind : {"memory", "statsd"}, global : {<<>>, <<Global>>}]
  BY DEF MetricsInit
<1>4. Tagged(0, 4) \in Slices /\ Tagged(0, 4).array = 4 /\ Tagged(0, 4).len = 0
  BY DEF Tagged, Slices
<1>5. MetricsTypes
  <2>1. /\ gaugeRegistry \in Slices /\ poller \in [rounds : Nat, pos : Nat]
        /\ polled \in Seq(Goroutines) /\ registered \subseteq Goroutines
        /\ stateMu \subseteq Contexts /\ stopped \subseteq Contexts
        /\ \A r \in records : r.slice \in Slices
    BY <1>3, <1>4
  <2>2. go \in [Goroutines -> [at : {"idle", "timing"}, ops : Nat, context : Contexts \cup {NoCell}]]
    BY <1>3
  <2>3. tags \in [Goroutines -> Slices]
    BY <1>3, <1>4
  <2> QED
    BY <1>1, <1>3, <2>1, <2>2, <2>3, Zenon DEF MetricsTypes
<1>6. Timings = {}
  BY <1>3 DEF Timings
<1>7. Within(heap, gaugeRegistry) /\ gaugeRegistry.array > 3
  <2>1. 4 \in 1 .. Len(heap) /\ heap \in Seq(Seq(TagCells))
    BY <1>1
  <2>3. heap[4] \in Seq(TagCells)
    BY <2>1
  <2> QED
    BY <1>3, <1>4, <2>1, <2>3 DEF Within
<1>8. OwnInv
  <2>1. Len(heap) >= 4 /\ Len(heap[1]) >= timer.len /\ Len(heap[2]) >= timer.len /\ Len(heap[3]) >= timer.len
    BY <1>1, <1>2
  <2> QED
    BY <1>3, <1>6, <1>7, <2>1, Zenon DEF OwnInv
<1>9. poller.pos = 0 /\ 1 .. gaugeRegistry.len = {}
  BY <1>3, <1>4
<1>10. RegistryInv
  BY <1>3, <1>9 DEF RegistryInv
<1> QED
  BY <1>5, <1>8, <1>10

\* A step of another component changes nothing of the metrics.
LEMMA RegistryStutters ==
  ASSUME MetricsTypes, OwnInv, RegistryInv, UNCHANGED metricsVars
  PROVE  MetricsTypes' /\ OwnInv' /\ RegistryInv'
<1>1. UNCHANGED <<client, timer, meter, gaugeTags, heap, gaugeRegistry, gaugeMu, poller, polled,
                  registered, go, tags, stateMu, stopped, records>>
  BY DEF metricsVars, instruments, gaugeVars
<1>2. MetricsTypes'
  BY <1>1 DEF MetricsTypes
<1>3. Timings' = Timings
  BY <1>1 DEF Timings
<1>4. OwnInv'
  BY <1>1, <1>3 DEF OwnInv, Within
<1>5. RegistryInv'
  BY <1>1 DEF RegistryInv, GaugeAt
<1> QED
  BY <1>2, <1>4, <1>5

LOCAL Finite == INSTANCE FiniteSetTheorems

LEMMA SameCardinality == ASSUME NEW S PROVE Finite!Cardinality(S) = Cardinality(S)
BY DEF Finite!Cardinality, Cardinality

\* The number of values of an injective function.
LEMMA CountedOnce ==
  ASSUME NEW n \in Nat, NEW S, NEW f \in [1 .. n -> S], \A s \in S : \E j \in 1 .. n : f[j] = s,
         \A j, l \in 1 .. n : f[j] = f[l] => j = l
  PROVE  Cardinality(S) = n
<1>1. f \in Finite!Bijection(1 .. n, S)
  BY DEF Finite!Bijection, Finite!Injection, Finite!Surjection, Finite!IsInjective
<1>2. Finite!ExistsBijection(1 .. n, S)
  BY <1>1 DEF Finite!ExistsBijection
<1> QED
  BY <1>2, Finite!FS_CountingElements, SameCardinality

\* What the poller has asked at its position are the registered gauges before it.
LEMMA RegistryPolled == MetricsTypes /\ RegistryInv => PolledOnce
<1> SUFFICES ASSUME MetricsTypes, RegistryInv, poller.pos > 0
             PROVE  /\ \A j \in DOMAIN polled : polled[j] \in registered
                    /\ Cardinality({polled[j] : j \in DOMAIN polled}) = Len(polled)
                    /\ poller.pos > gaugeRegistry.len => Len(polled) = Cardinality(registered)
  BY DEF PolledOnce
<1>1. /\ polled \in Seq(Goroutines) /\ poller.pos \in Nat /\ gaugeRegistry.len \in Nat
      /\ Len(polled) \in Nat /\ DOMAIN polled = 1 .. Len(polled)
  BY DEF MetricsTypes, Slices
<1>2. /\ poller.pos <= gaugeRegistry.len + 1 /\ Len(polled) = poller.pos - 1
      /\ \A j \in 1 .. poller.pos - 1 : polled[j] = GaugeAt(j)
  BY DEF RegistryInv
<1>3. \A j \in DOMAIN polled : j \in 1 .. gaugeRegistry.len /\ polled[j] = GaugeAt(j)
  BY <1>1, <1>2
<1>4. /\ \A j \in DOMAIN polled : polled[j] \in registered
      /\ \A j, l \in DOMAIN polled : polled[j] = polled[l] => j = l
  BY <1>3 DEF RegistryInv
<1>5. Cardinality({polled[j] : j \in DOMAIN polled}) = Len(polled)
  <2> DEFINE S == {polled[j] : j \in DOMAIN polled}
  <2>1. polled \in [1 .. Len(polled) -> S]
    <3>1. polled \in [1 .. Len(polled) -> Goroutines]
      BY <1>1
    <3>2. \A j \in 1 .. Len(polled) : polled[j] \in S
      BY <1>1
    <3> HIDE DEF S
    <3> QED
      BY <3>1, <3>2
  <2>2. /\ \A s \in S : \E j \in 1 .. Len(polled) : polled[j] = s
        /\ \A j, l \in 1 .. Len(polled) : polled[j] = polled[l] => j = l
    BY <1>1, <1>4
  <2> HIDE DEF S
  <2>3. Cardinality(S) = Len(polled)
    BY <1>1, <2>1, <2>2, CountedOnce
  <2> QED
    BY <2>3 DEF S
<1>6. ASSUME poller.pos > gaugeRegistry.len
      PROVE  Len(polled) = Cardinality(registered)
  <2>1. Len(polled) = gaugeRegistry.len
    BY <1>1, <1>2, <1>6
  <2>2. polled \in [1 .. Len(polled) -> registered]
    BY <1>1, <1>4
  <2>3. \A g \in registered : \E j \in 1 .. Len(polled) : polled[j] = g
    BY <1>1, <1>3, <2>1 DEF RegistryInv
  <2> QED
    BY <1>1, <1>4, <2>2, <2>3, CountedOnce, SMTT(30)
<1> QED
  BY <1>4, <1>5, <1>6

\* With any number of goroutines, gauges, calls and rounds, pollAllGauges asks
\* each registered gauge exactly once in a round, and none that has been stopped,
\* although Stop moves the others in the array the poller reads.
THEOREM GaugesPolledOnce == MetricsSpec => []PolledOnce
<1> DEFINE Inv == MetricsTypes /\ OwnInv /\ RegistryInv
<1>1. MetricsInit => Inv
  BY RegistryBegins
<1>2. Inv /\ [MetricsNext]_metricsVars => Inv'
  <2> SUFFICES ASSUME Inv, [MetricsNext]_metricsVars PROVE Inv'
    OBVIOUS
  <2>1. CASE MetricsNext
    BY <2>1, RegistryStep
  <2>2. CASE UNCHANGED metricsVars
    BY <2>2, RegistryStutters
  <2> QED
    BY <2>1, <2>2
<1>3. Inv => PolledOnce
  BY RegistryPolled
<1> QED
  BY <1>1, <1>2, <1>3, PTL DEF MetricsSpec
=============================================================================
