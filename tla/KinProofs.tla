----------------------------- MODULE KinProofs ------------------------------
(***************************************************************************)
(* Proofs about ParseTransaction of kin/transaction.go.                    *)
(***************************************************************************)
EXTENDS KinTransaction, TLAPS

-----------------------------------------------------------------------------
(***************************************************************************)
(* What ParseTransaction has built has its shape at all times.             *)
(***************************************************************************)
IsSequence(s) == s \in Seq({s[k] : k \in DOMAIN s})

IsCreation(c) ==
  c = [funder |-> c.funder, address |-> c.address, assoc |-> c.assoc,
       closeAuthority |-> c.closeAuthority, accountHolder |-> c.accountHolder]

IsRegion(r) ==
  /\ r = [memoData |-> r.memoData, memo |-> r.memo, creations |-> r.creations,
          transfers |-> r.transfers, closures |-> r.closures]
  /\ IsSequence(r.creations) /\ \A c \in DOMAIN r.creations : IsCreation(r.creations[c])
  /\ IsSequence(r.transfers)

AreRegions(rs) == IsSequence(rs) /\ Len(rs) > 0 /\ \A r \in DOMAIN rs : IsRegion(rs[r])

IsParsed(p) ==
  p = [nonce |-> p.nonce, regions |-> p.regions, appIndex |-> p.appIndex, appID |-> p.appID]

ShapeInv ==
  /\ IsSequence(read)
  /\ IsParsed(parsed)
  /\ AreRegions(parsed.regions)
  /\ region \in Nat /\ region > 0

\* A sequence over some set is one over its elements.
LEMMA AnySequence ==
  ASSUME NEW T, NEW s \in Seq(T)
  PROVE  IsSequence(s)
BY DEF IsSequence

\* A sequence that grows by one element.
LEMMA Appended ==
  ASSUME NEW s, IsSequence(s), NEW x
  PROVE  /\ IsSequence(Append(s, x))
         /\ Len(s) \in Nat /\ DOMAIN s = 1 .. Len(s)
         /\ Len(Append(s, x)) = Len(s) + 1 /\ DOMAIN Append(s, x) = 1 .. Len(s) + 1
         /\ \A k \in 1 .. Len(s) : Append(s, x)[k] = s[k]
         /\ Append(s, x)[Len(s) + 1] = x
<1> DEFINE S == {s[k] : k \in DOMAIN s}
           T == S \cup {x}
           t == Append(s, x)
<1>1. s \in Seq(S)
  BY DEF IsSequence
<1>2. s \in Seq(T)
  BY <1>1
<1>3. t \in Seq(T)
  BY <1>2
<1>4. /\ Len(s) \in Nat /\ DOMAIN s = 1 .. Len(s)
      /\ Len(t) = Len(s) + 1 /\ DOMAIN t = 1 .. Len(s) + 1
      /\ \A k \in 1 .. Len(s) : t[k] = s[k]
      /\ t[Len(s) + 1] = x
  BY <1>2, <1>3
<1>5. IsSequence(t)
  BY <1>3, AnySequence, Zenon
<1> QED
  BY <1>4, <1>5

\* A sequence whose element at a position is replaced.
Replaces(t, s, i, x) == t = [s EXCEPT ![i] = x]

LEMMA Replaced ==
  ASSUME NEW s, IsSequence(s), NEW i \in DOMAIN s, NEW x, NEW t, Replaces(t, s, i, x)
  PROVE  /\ IsSequence(t)
         /\ Len(s) \in Nat /\ DOMAIN s = 1 .. Len(s)
         /\ Len(t) = Len(s) /\ DOMAIN t = DOMAIN s
         /\ \A k \in DOMAIN s : k # i => t[k] = s[k]
         /\ t[i] = x
<1> DEFINE S == {s[k] : k \in DOMAIN s}
           T == S \cup {x}
<1>1. s \in Seq(S)
  BY DEF IsSequence
<1>2. s \in Seq(T)
  BY <1>1
<1>3. t \in Seq(T)
  BY <1>2 DEF Replaces
<1>4. /\ Len(s) \in Nat /\ DOMAIN s = 1 .. Len(s)
      /\ Len(t) = Len(s) /\ DOMAIN t = DOMAIN s
      /\ \A k \in DOMAIN s : k # i => t[k] = s[k]
      /\ t[i] = x
  BY <1>2, <1>3 DEF Replaces
<1>5. IsSequence(t)
  BY <1>3, AnySequence
<1> QED
  BY <1>4, <1>5

-----------------------------------------------------------------------------
(***************************************************************************)
(* What a step of ParseTransaction does to the regions.                    *)
(***************************************************************************)
\* What the regions rs become leaves their memos, and the transfers and the
\* creations they have.
Keeps(rs, rs2) ==
  /\ AreRegions(rs2) /\ DOMAIN rs2 = DOMAIN rs /\ Len(rs2) = Len(rs)
  /\ \A r \in DOMAIN rs :
       /\ rs2[r].memoData = rs[r].memoData
       /\ \A c \in DOMAIN rs[r].creations :
            /\ c \in DOMAIN rs2[r].creations
            /\ rs2[r].creations[c].funder = rs[r].creations[c].funder
            /\ rs2[r].creations[c].closeAuthority = rs[r].creations[c].closeAuthority

SameTransfers(rs, rs2) == \A r \in DOMAIN rs : rs2[r].transfers = rs[r].transfers

SameCreations(rs, rs2) == \A r \in DOMAIN rs : rs2[r].creations = rs[r].creations

\* A region with one field set.
LEMMA WithFields ==
  ASSUME NEW r, NEW v,
         r = [memoData |-> r.memoData, memo |-> r.memo, creations |-> r.creations,
              transfers |-> r.transfers, closures |-> r.closures]
  PROVE  /\ [r EXCEPT !.creations = v]
              = [memoData |-> r.memoData, memo |-> r.memo, creations |-> v,
                 transfers |-> r.transfers, closures |-> r.closures]
         /\ [r EXCEPT !.transfers = v]
              = [memoData |-> r.memoData, memo |-> r.memo, creations |-> r.creations,
                 transfers |-> v, closures |-> r.closures]
         /\ [r EXCEPT !.closures = v]
              = [memoData |-> r.memoData, memo |-> r.memo, creations |-> r.creations,
                 transfers |-> r.transfers, closures |-> v]
         /\ [r EXCEPT !.memo = v]
              = [memoData |-> r.memoData, memo |-> v, creations |-> r.creations,
                 transfers |-> r.transfers, closures |-> r.closures]
<1> DEFINE a == r.memoData
           b == r.memo
           c == r.creations
           d == r.transfers
           e == r.closures
<1>1. r = [memoData |-> a, memo |-> b, creations |-> c, transfers |-> d, closures |-> e]
  OBVIOUS
<1> HIDE DEF a, b, c, d, e
<1> SUFFICES /\ [r EXCEPT !.creations = v]
                  = [memoData |-> a, memo |-> b, creations |-> v, transfers |-> d, closures |-> e]
             /\ [r EXCEPT !.transfers = v]
                  = [memoData |-> a, memo |-> b, creations |-> c, transfers |-> v, closures |-> e]
             /\ [r EXCEPT !.closures = v]
                  = [memoData |-> a, memo |-> b, creations |-> c, transfers |-> d, closures |-> v]
             /\ [r EXCEPT !.memo = v]
                  = [memoData |-> a, memo |-> v, creations |-> c, transfers |-> d, closures |-> e]
  BY DEF a, b, c, d, e
<1> QED
  BY ONLY <1>1

\* A creation with its holder set.
LEMMA WithHolder ==
  ASSUME NEW c, IsCreation(c), NEW v
  PROVE  [c EXCEPT !.accountHolder = v]
           = [funder |-> c.funder, address |-> c.address, assoc |-> c.assoc,
              closeAuthority |-> c.closeAuthority, accountHolder |-> v]
<1> DEFINE f == c.funder
           a == c.address
           b == c.assoc
           d == c.closeAuthority
           e == c.accountHolder
<1>1. c = [funder |-> f, address |-> a, assoc |-> b, closeAuthority |-> d, accountHolder |-> e]
  BY DEF IsCreation
<1> HIDE DEF f, a, b, d, e
<1>2. [c EXCEPT !.accountHolder = v]
        = [funder |-> f, address |-> a, assoc |-> b, closeAuthority |-> d, accountHolder |-> v]
  BY ONLY <1>1
<1> QED
  BY <1>2 DEF f, a, b, d

\* One region is replaced by another.
LEMMA KeepsOne ==
  ASSUME NEW rs, AreRegions(rs), NEW n \in DOMAIN rs, NEW x, IsRegion(x),
         x.memoData = rs[n].memoData,
         \A c \in DOMAIN rs[n].creations :
            /\ c \in DOMAIN x.creations
            /\ x.creations[c].funder = rs[n].creations[c].funder
            /\ x.creations[c].closeAuthority = rs[n].creations[c].closeAuthority,
         NEW rs2, Replaces(rs2, rs, n, x)
  PROVE  Keeps(rs, rs2) /\ rs2[n] = x /\ \A r \in DOMAIN rs : r # n => rs2[r] = rs[r]
<1>1. /\ IsSequence(rs2) /\ Len(rs2) = Len(rs) /\ DOMAIN rs2 = DOMAIN rs /\ rs2[n] = x
      /\ \A r \in DOMAIN rs : r # n => rs2[r] = rs[r]
  <2>1. IsSequence(rs)
    BY DEF AreRegions
  <2> QED
    BY <2>1, Replaced
<1>2. AreRegions(rs2)
  BY <1>1 DEF AreRegions
<1> QED
  BY <1>1, <1>2 DEF Keeps

\* A memo begins a region of its own.
BeginsRegion(rs2, rs, d) == rs2 = Append(rs, [NoRegion EXCEPT !.memoData = d])

LEMMA NewRegion ==
  ASSUME NEW rs, AreRegions(rs), NEW d, NEW rs2, BeginsRegion(rs2, rs, d)
  PROVE  /\ AreRegions(rs2)
         /\ Len(rs) \in Nat /\ DOMAIN rs = 1 .. Len(rs)
         /\ Len(rs2) = Len(rs) + 1 /\ DOMAIN rs2 = 1 .. Len(rs) + 1
         /\ \A r \in DOMAIN rs : rs2[r] = rs[r]
         /\ rs2[Len(rs) + 1].memoData = d /\ rs2[Len(rs) + 1].transfers = <<>>
         /\ rs2[Len(rs) + 1].creations = <<>>
<1> DEFINE x == [memoData |-> d, memo |-> <<>>, creations |-> <<>>, transfers |-> <<>>,
                 closures |-> <<>>]
<1>1. rs2 = Append(rs, x)
  BY DEF NoRegion, BeginsRegion
<1>2. IsSequence(<<>>)
  BY DEF IsSequence
<1>3. DOMAIN <<>> = {}
  OBVIOUS
<1>4. IsRegion(x)
  BY <1>2, <1>3 DEF IsRegion
<1>5. x.memoData = d /\ x.transfers = <<>> /\ x.creations = <<>>
  OBVIOUS
<1> HIDE DEF x
<1>6. /\ IsSequence(rs2) /\ Len(rs) \in Nat /\ DOMAIN rs = 1 .. Len(rs)
      /\ Len(rs2) = Len(rs) + 1 /\ DOMAIN rs2 = 1 .. Len(rs) + 1
      /\ \A k \in 1 .. Len(rs) : rs2[k] = rs[k]
      /\ rs2[Len(rs) + 1] = x
  BY <1>1, Appended DEF AreRegions
<1>7. \A r \in DOMAIN rs2 : IsRegion(rs2[r])
  BY <1>4, <1>6 DEF AreRegions
<1>8. AreRegions(rs2)
  BY <1>6, <1>7 DEF AreRegions
<1> QED
  BY <1>5, <1>6, <1>8

\* An account that is created is added to the last region.
AddsCreation(rs2, rs, c) == rs2 = [rs EXCEPT ![Len(rs)].creations = Append(@, c)]

LEMMA NewCreation ==
  ASSUME NEW rs, AreRegions(rs), NEW c, IsCreation(c), NEW rs2,
         AddsCreation(rs2, rs, c)
  PROVE  /\ Keeps(rs, rs2) /\ SameTransfers(rs, rs2)
         /\ Len(rs) \in DOMAIN rs
         /\ \E k \in DOMAIN rs2[Len(rs)].creations : rs2[Len(rs)].creations[k] = c
<1> DEFINE n == Len(rs)
           old == rs[n]
           cs == Append(old.creations, c)
           x == [memoData |-> old.memoData, memo |-> old.memo, creations |-> cs,
                 transfers |-> old.transfers, closures |-> old.closures]
<1>1. n \in DOMAIN rs
  BY Appended DEF AreRegions
<1>2. IsRegion(old)
  BY <1>1 DEF AreRegions
<1>3. rs2 = [rs EXCEPT ![n] = [old EXCEPT !.creations = cs]]
  BY DEF AddsCreation
<1>4. [old EXCEPT !.creations = cs] = x
  BY <1>2, WithFields, Zenon DEF IsRegion
<1>5. /\ IsSequence(cs) /\ DOMAIN old.creations = 1 .. Len(old.creations)
      /\ Len(old.creations) \in Nat
      /\ DOMAIN cs = 1 .. Len(old.creations) + 1
      /\ \A k \in 1 .. Len(old.creations) : cs[k] = old.creations[k]
      /\ cs[Len(old.creations) + 1] = c
  BY <1>2, Appended DEF IsRegion
<1>6. \A k \in DOMAIN cs : IsCreation(cs[k])
  BY <1>2, <1>5 DEF IsRegion
<1>7. /\ x.memoData = old.memoData /\ x.creations = cs /\ x.transfers = old.transfers
      /\ IsSequence(old.transfers)
  BY <1>2 DEF IsRegion
<1>8. IsRegion(x)
  BY <1>5, <1>6, <1>7 DEF IsRegion
<1>9. Replaces(rs2, rs, n, x)
  BY <1>3, <1>4, Zenon DEF Replaces
<1> HIDE DEF x, cs
<1>10. Keeps(rs, rs2) /\ rs2[n] = x /\ \A r \in DOMAIN rs : r # n => rs2[r] = rs[r]
  <2>1. \A k \in DOMAIN rs[n].creations :
          /\ k \in DOMAIN x.creations
          /\ x.creations[k].funder = rs[n].creations[k].funder
          /\ x.creations[k].closeAuthority = rs[n].creations[k].closeAuthority
    BY <1>5, <1>7
  <2>2. x.memoData = rs[n].memoData
    BY <1>7
  <2>3. AreRegions(rs)
    OBVIOUS
  <2> HIDE DEF n, old
  <2> QED
    BY ONLY <1>1, <1>8, <1>9, <2>1, <2>2, <2>3, KeepsOne
<1>11. SameTransfers(rs, rs2)
  BY <1>7, <1>10 DEF SameTransfers
<1> QED
  BY <1>1, <1>5, <1>7, <1>10, <1>11

\* A region's transfers are set.
LEMMA NewTransfer ==
  ASSUME NEW rs, AreRegions(rs), NEW n \in DOMAIN rs, NEW v, IsSequence(v), NEW rs2,
         rs2 = [rs EXCEPT ![n].transfers = v]
  PROVE  /\ Keeps(rs, rs2) /\ rs2[n].transfers = v
         /\ \A r \in DOMAIN rs : r # n => rs2[r].transfers = rs[r].transfers
<1> DEFINE old == rs[n]
           x == [memoData |-> old.memoData, memo |-> old.memo, creations |-> old.creations,
                 transfers |-> v, closures |-> old.closures]
<1>1. IsRegion(old) /\ AreRegions(rs)
  BY DEF AreRegions
<1>2. [old EXCEPT !.transfers = v] = x
  BY <1>1, WithFields, Zenon DEF IsRegion
<1>3. Replaces(rs2, rs, n, x)
  BY <1>2, Zenon DEF Replaces
<1>4. /\ x.memoData = old.memoData /\ x.creations = old.creations
      /\ x.transfers = v /\ IsSequence(x.transfers)
  BY <1>1 DEF IsRegion
<1>5. IsRegion(x)
  BY <1>1, <1>4 DEF IsRegion
<1> HIDE DEF x, old
<1>6. Keeps(rs, rs2) /\ rs2[n] = x /\ \A r \in DOMAIN rs : r # n => rs2[r] = rs[r]
  <2>1. x.memoData = rs[n].memoData /\ x.creations = rs[n].creations
    BY <1>4 DEF old
  <2>2. n \in DOMAIN rs
    OBVIOUS
  <2> QED
    BY ONLY <1>1, <1>3, <1>5, <2>1, <2>2, KeepsOne
<1> QED
  BY <1>4, <1>6 DEF old, SameTransfers

\* A region's closures are set.
LEMMA NewClosure ==
  ASSUME NEW rs, AreRegions(rs), NEW n \in DOMAIN rs, NEW v, NEW rs2,
         rs2 = [rs EXCEPT ![n].closures = v]
  PROVE  Keeps(rs, rs2) /\ SameTransfers(rs, rs2)
<1> DEFINE old == rs[n]
           x == [memoData |-> old.memoData, memo |-> old.memo, creations |-> old.creations,
                 transfers |-> old.transfers, closures |-> v]
<1>1. IsRegion(old) /\ AreRegions(rs)
  BY DEF AreRegions
<1>2. [old EXCEPT !.closures = v] = x
  BY <1>1, WithFields, Zenon DEF IsRegion
<1>3. Replaces(rs2, rs, n, x)
  BY <1>2, Zenon DEF Replaces
<1>4. /\ x.memoData = old.memoData /\ x.creations = old.creations
      /\ x.transfers = old.transfers /\ IsSequence(x.transfers)
  BY <1>1 DEF IsRegion
<1>5. IsRegion(x)
  BY <1>1, <1>4 DEF IsRegion
<1> HIDE DEF x, old
<1>6. Keeps(rs, rs2) /\ rs2[n] = x /\ \A r \in DOMAIN rs : r # n => rs2[r] = rs[r]
  <2>1. x.memoData = rs[n].memoData /\ x.creations = rs[n].creations
    BY <1>4 DEF old
  <2>2. n \in DOMAIN rs
    OBVIOUS
  <2> QED
    BY ONLY <1>1, <1>3, <1>5, <2>1, <2>2, KeepsOne
<1> QED
  BY <1>4, <1>6 DEF old, SameTransfers

\* A region's memo is set.
LEMMA NewMemoOf ==
  ASSUME NEW rs, AreRegions(rs), NEW n \in DOMAIN rs, NEW v, NEW rs2,
         rs2 = [rs EXCEPT ![n].memo = v]
  PROVE  Keeps(rs, rs2) /\ SameTransfers(rs, rs2) /\ SameCreations(rs, rs2)
<1> DEFINE old == rs[n]
           x == [memoData |-> old.memoData, memo |-> v, creations |-> old.creations,
                 transfers |-> old.transfers, closures |-> old.closures]
<1>1. IsRegion(old) /\ AreRegions(rs)
  BY DEF AreRegions
<1>2. [old EXCEPT !.memo = v] = x
  BY <1>1, WithFields, Zenon DEF IsRegion
<1>3. Replaces(rs2, rs, n, x)
  BY <1>2, Zenon DEF Replaces
<1>4. /\ x.memoData = old.memoData /\ x.creations = old.creations
      /\ x.transfers = old.transfers /\ IsSequence(x.transfers)
  BY <1>1 DEF IsRegion
<1>5. IsRegion(x)
  BY <1>1, <1>4 DEF IsRegion
<1> HIDE DEF x, old
<1>6. Keeps(rs, rs2) /\ rs2[n] = x /\ \A r \in DOMAIN rs : r # n => rs2[r] = rs[r]
  <2>1. x.memoData = rs[n].memoData /\ x.creations = rs[n].creations
    BY <1>4 DEF old
  <2>2. n \in DOMAIN rs
    OBVIOUS
  <2> QED
    BY ONLY <1>1, <1>3, <1>5, <2>1, <2>2, KeepsOne
<1> QED
  BY <1>4, <1>6 DEF old, SameTransfers, SameCreations

\* A creation gets its holder.
LEMMA NewHolder ==
  ASSUME NEW rs, AreRegions(rs), NEW n \in DOMAIN rs, NEW m, NEW rs2,
         rs2 = [rs EXCEPT ![n].creations[m].accountHolder = TRUE]
  PROVE  Keeps(rs, rs2) /\ SameTransfers(rs, rs2)
<1> DEFINE old == rs[n]
           cs == [old.creations EXCEPT ![m].accountHolder = TRUE]
           x == [memoData |-> old.memoData, memo |-> old.memo, creations |-> cs,
                 transfers |-> old.transfers, closures |-> old.closures]
<1>1. IsRegion(old) /\ AreRegions(rs)
  BY DEF AreRegions
<1>2. [old EXCEPT !.creations = cs] = x
  BY <1>1, WithFields, Zenon DEF IsRegion
<1>3. Replaces(rs2, rs, n, x)
  BY <1>2, Zenon DEF Replaces
<1>4. /\ IsSequence(cs) /\ DOMAIN cs = DOMAIN old.creations
      /\ \A k \in DOMAIN cs :
           /\ IsCreation(cs[k])
           /\ cs[k].funder = old.creations[k].funder
           /\ cs[k].closeAuthority = old.creations[k].closeAuthority
  <2> DEFINE ds == old.creations
  <2>1. IsSequence(ds) /\ \A k \in DOMAIN ds : IsCreation(ds[k])
    BY <1>1 DEF IsRegion
  <2> HIDE DEF ds
  <2>2. CASE m \notin DOMAIN ds
    <3>1. cs = ds
      BY <2>1, <2>2 DEF IsSequence, ds
    <3> QED
      BY <2>1, <3>1, Zenon DEF ds
  <2>3. CASE m \in DOMAIN ds
    <3> DEFINE c == ds[m]
               d == [funder |-> c.funder, address |-> c.address, assoc |-> c.assoc,
                     closeAuthority |-> c.closeAuthority, accountHolder |-> TRUE]
    <3>1. IsCreation(c)
      BY <2>1, <2>3
    <3>2. [c EXCEPT !.accountHolder = TRUE] = d
      BY <3>1, WithHolder, Zenon
    <3>3. Replaces(cs, ds, m, d)
      BY <3>2, Zenon DEF Replaces, ds
    <3>4. IsCreation(d) /\ d.funder = c.funder /\ d.closeAuthority = c.closeAuthority
      BY DEF IsCreation
    <3> HIDE DEF d, cs
    <3>5. /\ IsSequence(cs) /\ DOMAIN cs = DOMAIN ds
          /\ \A k \in DOMAIN ds : k # m => cs[k] = ds[k]
          /\ cs[m] = d
      BY ONLY <2>1, <2>3, <3>3, Replaced
    <3> QED
      BY <2>1, <3>4, <3>5 DEF ds
  <2> QED
    BY <2>2, <2>3, Zenon
<1>5. /\ x.memoData = old.memoData /\ x.creations = cs
      /\ x.transfers = old.transfers /\ IsSequence(x.transfers)
  BY <1>1 DEF IsRegion
<1> HIDE DEF cs
<1>6. IsRegion(x)
  BY <1>4, <1>5 DEF IsRegion
<1> HIDE DEF x, old
<1>7. Keeps(rs, rs2) /\ rs2[n] = x /\ \A r \in DOMAIN rs : r # n => rs2[r] = rs[r]
  <2>1. x.memoData = rs[n].memoData /\ n \in DOMAIN rs
    BY <1>5 DEF old
  <2>2. \A k \in DOMAIN rs[n].creations :
          /\ k \in DOMAIN x.creations
          /\ x.creations[k].funder = rs[n].creations[k].funder
          /\ x.creations[k].closeAuthority = rs[n].creations[k].closeAuthority
    BY <1>4, <1>5 DEF old
  <2> QED
    BY ONLY <1>1, <1>3, <1>6, <2>1, <2>2, KeepsOne
<1> QED
  BY <1>5, <1>7 DEF old, SameTransfers

-----------------------------------------------------------------------------
(***************************************************************************)
(* What looking at an instruction does.                                    *)
(***************************************************************************)
\* A result with one field set: the others stay.
LEMMA WithRegions ==
  ASSUME NEW p, IsParsed(p), NEW v, NEW q, q = [p EXCEPT !.regions = v]
  PROVE  IsParsed(q) /\ q.regions = v /\ q.appIndex = p.appIndex /\ q.appID = p.appID
<1> DEFINE a == p.nonce
           b == p.regions
           c == p.appIndex
           d == p.appID
<1>1. p = [nonce |-> a, regions |-> b, appIndex |-> c, appID |-> d]
  BY DEF IsParsed
<1> HIDE DEF a, b, c, d
<1>2. q = [nonce |-> a, regions |-> v, appIndex |-> c, appID |-> d]
  BY <1>1
<1>3. q.nonce = a /\ q.regions = v /\ q.appIndex = c /\ q.appID = d
  BY <1>2
<1> QED
  BY <1>2, <1>3 DEF IsParsed, c, d

LEMMA WithNonce ==
  ASSUME NEW p, IsParsed(p), NEW v, NEW q, q = [p EXCEPT !.nonce = v]
  PROVE  IsParsed(q) /\ q.regions = p.regions /\ q.appIndex = p.appIndex /\ q.appID = p.appID
<1> DEFINE a == p.nonce
           b == p.regions
           c == p.appIndex
           d == p.appID
<1>1. p = [nonce |-> a, regions |-> b, appIndex |-> c, appID |-> d]
  BY DEF IsParsed
<1> HIDE DEF a, b, c, d
<1>2. q = [nonce |-> v, regions |-> b, appIndex |-> c, appID |-> d]
  BY <1>1
<1>3. q.nonce = v /\ q.regions = b /\ q.appIndex = c /\ q.appID = d
  BY <1>2
<1> QED
  BY <1>2, <1>3 DEF IsParsed, b, c, d

\* An instruction is of one kind.
Quiet(ins) == DecompileSetAuthority(ins) = {} /\ DecompileTransfer(ins) = {}

LEMMA OneKind ==
  ASSUME NEW ins
  PROVE  /\ ins.program # TokenProgram => Quiet(ins)
         /\ DecompileInitializeAccount(ins) # {} => Quiet(ins)
         /\ DecompileTransfer(ins) # {} => DecompileSetAuthority(ins) = {}
         /\ Command(ins) # CommandTransfer => DecompileTransfer(ins) = {}
         /\ Command(ins) # CommandSetAuthority => DecompileSetAuthority(ins) = {}
         /\ \A a, b \in DecompileSetAuthority(ins) : a = b
         /\ DecompileSetAuthority(ins) # {} =>
              ins.program = TokenProgram /\ DecompileTransfer(ins) = {}
         /\ DecompileTransfer(ins) # {} => ins.program = TokenProgram
<1>1. DecompileInitializeAccount(ins) # {} => Command(ins) = CommandInitializeAccount
  <2> SUFFICES ASSUME DecompileInitializeAccount(ins) # {}
               PROVE  Command(ins) = CommandInitializeAccount
    OBVIOUS
  <2>1. ins.data = <<CommandInitializeAccount>>
    BY DEF DecompileInitializeAccount
  <2>2. /\ <<CommandInitializeAccount>> # <<>>
        /\ <<CommandInitializeAccount>>[1] = CommandInitializeAccount
    OBVIOUS
  <2> QED
    BY <2>1, <2>2 DEF Command
<1>2. /\ DecompileTransfer(ins) # {} => Command(ins) = CommandTransfer /\ ins.program = TokenProgram
      /\ DecompileSetAuthority(ins) # {} =>
           Command(ins) = CommandSetAuthority /\ ins.program = TokenProgram
      /\ \A a, b \in DecompileSetAuthority(ins) : a = b
  BY Zenon DEF DecompileTransfer, DecompileSetAuthority
<1>3. /\ CommandTransfer # CommandSetAuthority
      /\ CommandInitializeAccount # CommandTransfer
      /\ CommandInitializeAccount # CommandSetAuthority
  BY DEF CommandTransfer, CommandSetAuthority, CommandInitializeAccount
<1> QED
  BY <1>1, <1>2, <1>3, Zenon DEF Quiet

\* The ways in which ParseTransaction goes on after an instruction.
TakesMemo(ins) ==
  /\ ins.program = MemoProgram /\ Quiet(ins) /\ at' = "top"
  /\ parsed' = [parsed EXCEPT
                  !.regions = Append(parsed.regions, [NoRegion EXCEPT !.memoData = ins.data])]

TakesCreation(ins) ==
  /\ ins.program # MemoProgram /\ Quiet(ins) /\ parsed' = parsed
  /\ <<creation'.address, creation'.funder>> \in CreatedBy(ins)

TakesInitialize(ins) ==
  /\ ins.program # MemoProgram /\ Quiet(ins) /\ parsed' = parsed
  /\ at # "top" /\ DecompileInitializeAccount(ins) # {} /\ creation' = creation

TakesClose(ins) ==
  /\ ins.program # MemoProgram /\ DecompileTransfer(ins) = {}
  /\ at # "top" /\ creation' = creation
  /\ \E a \in DecompileSetAuthority(ins) :
       /\ a.type = CloseAccountAuthority /\ a.account = creation.address
       /\ parsed' = [parsed EXCEPT !.regions = [parsed.regions EXCEPT
            ![Len(parsed.regions)].creations = Append(@,
              [funder |-> creation.funder, address |-> creation.address, assoc |-> creation.assoc,
               closeAuthority |-> a.new, accountHolder |-> FALSE])]]

TakesHolder(ins) ==
  /\ ins.program # MemoProgram /\ DecompileTransfer(ins) = {}
  /\ at # "top" /\ at' = "top"
  /\ \E a \in DecompileSetAuthority(ins) : a.type = AccountHolder /\ a.account = creation.address
  /\ parsed' = [parsed EXCEPT !.regions = [parsed.regions EXCEPT
       ![Len(parsed.regions)].creations[Len(parsed.regions[Len(parsed.regions)].creations)]
         .accountHolder = TRUE]]

TakesTransfer(ins) ==
  /\ ins.program # MemoProgram /\ DecompileSetAuthority(ins) = {} /\ at' = "top"
  /\ \E t \in DecompileTransfer(ins) :
       parsed' = [parsed EXCEPT !.regions = [parsed.regions EXCEPT
                    ![Len(parsed.regions)].transfers = Append(@, t)]]

TakesClosure(ins) ==
  /\ ins.program # MemoProgram /\ Quiet(ins) /\ at' = "top"
  /\ \E c : parsed' = [parsed EXCEPT !.regions = [parsed.regions EXCEPT
                          ![Len(parsed.regions)].closures = Append(@, c)]]

TakesNonce(ins) ==
  /\ ins.program # MemoProgram /\ Quiet(ins) /\ at' = "top"
  /\ parsed' = [parsed EXCEPT !.nonce = TRUE]

Takes(ins) ==
  /\ phase' = phase
  /\ \/ TakesMemo(ins) \/ TakesCreation(ins) \/ TakesInitialize(ins) \/ TakesClose(ins)
     \/ TakesHolder(ins) \/ TakesTransfer(ins) \/ TakesClosure(ins) \/ TakesNonce(ins)

Rejects == phase' = "rejected" /\ UNCHANGED <<at, creation, parsed>>

\* The programs are told apart.
LEMMA OtherPrograms ==
  /\ MemoProgram # TokenProgram /\ SystemProgram # MemoProgram /\ SystemProgram # TokenProgram
  /\ AssociatedTokenAccountProgram # MemoProgram /\ AssociatedTokenAccountProgram # TokenProgram
  /\ AssociatedTokenAccountProgram # SystemProgram
BY DEF MemoProgram, TokenProgram, SystemProgram, AssociatedTokenAccountProgram, Zero

\* The head of the loop.
LEMMA TopTakes ==
  ASSUME NEW ins, ParseTop(ins)
  PROVE  Takes(ins) \/ Rejects
<1>1. CASE ins.program = MemoProgram
  <2>1. ParseMemo(ins)
    BY <1>1, OtherPrograms, Zenon DEF ParseTop
  <2>2. TakesMemo(ins) /\ phase' = phase
    BY <1>1, <2>1, OneKind, OtherPrograms DEF ParseMemo, Continue, TakesMemo
  <2> QED
    BY <2>2 DEF Takes
<1>2. CASE ins.program = SystemProgram
  <2>1. ParseSystem(ins)
    BY <1>2, OtherPrograms, Zenon DEF ParseTop
  <2>2. ins.program # MemoProgram /\ Quiet(ins)
    BY <1>2, OneKind, OtherPrograms
  <2>3. CASE DecompileAdvanceNonce(ins) # {}
    BY <2>1, <2>2, <2>3, Zenon
    DEF ParseSystem, ParseAdvanceNonce, Reject, Rejects, Continue, Takes, TakesNonce
  <2>4. CASE DecompileAdvanceNonce(ins) = {}
    <3>1. CASE Reject
      BY <3>1 DEF Reject, Rejects
    <3>2. ASSUME NEW c \in DecompileCreateAccount(ins),
                 creation' = [funder |-> c.funder, address |-> c.address, assoc |-> FALSE],
                 Continue("initialize"), UNCHANGED parsed
          PROVE  Takes(ins)
      <4>1. creation'.address = c.address /\ creation'.funder = c.funder
        BY <3>2
      <4>2. <<c.address, c.funder>> \in CreatedBy(ins)
        BY <3>2, Zenon DEF CreatedBy
      <4> QED
        BY <2>2, <3>2, <4>1, <4>2 DEF Takes, TakesCreation, Continue
    <3> QED
      BY <2>1, <2>4, <3>1, <3>2, Zenon DEF ParseSystem
  <2> QED
    BY <2>3, <2>4
<1>3. CASE ins.program = AssociatedTokenAccountProgram
  <2>1. ParseAssoc(ins)
    BY <1>3, OtherPrograms, Zenon DEF ParseTop
  <2>2. ins.program # MemoProgram /\ Quiet(ins)
    BY <1>3, OneKind, OtherPrograms
  <2>3. CASE Reject
    BY <2>3 DEF Reject, Rejects
  <2>4. ASSUME NEW c \in DecompileCreateAssociatedAccount(ins),
               creation' = [funder |-> c.funder, address |-> c.address, assoc |-> TRUE],
               Continue("close"), UNCHANGED parsed
        PROVE  Takes(ins)
    <3>1. creation'.address = c.address /\ creation'.funder = c.funder
      BY <2>4
    <3>2. <<c.address, c.funder>> \in CreatedBy(ins)
      BY <2>4, Zenon DEF CreatedBy
    <3> QED
      BY <2>2, <2>4, <3>1, <3>2 DEF Takes, TakesCreation, Continue
  <2> QED
    BY <2>1, <2>3, <2>4, Zenon DEF ParseAssoc
<1>4. CASE ins.program = TokenProgram
  <2>1. ParseSPL(ins)
    BY <1>4, OtherPrograms, Zenon DEF ParseTop
  <2>2. ins.program # MemoProgram
    BY <1>4, OtherPrograms
  <2>3. CommandTransfer # CommandCloseAccount /\ CommandSetAuthority # CommandCloseAccount
    BY DEF CommandTransfer, CommandCloseAccount, CommandSetAuthority
  <2>4. CASE Reject
    BY <2>4 DEF Reject, Rejects
  <2>5. ASSUME NEW t \in DecompileTransfer(ins), Add("transfers", t), Continue("top")
        PROVE  Takes(ins)
    <3>1. DecompileSetAuthority(ins) = {}
      BY <2>5, OneKind
    <3>2. parsed' = [parsed EXCEPT !.regions = [parsed.regions EXCEPT
                       ![Len(parsed.regions)].transfers = Append(@, t)]]
      BY <2>5, Zenon DEF Add
    <3> QED
      BY <2>2, <2>5, <3>1, <3>2, Zenon DEF Takes, TakesTransfer, Continue
  <2>6. ASSUME NEW c, Command(ins) = CommandCloseAccount, Add("closures", c), Continue("top")
        PROVE  Takes(ins)
    <3>1. Quiet(ins)
      BY <2>3, <2>6, OneKind DEF Quiet
    <3>2. parsed' = [parsed EXCEPT !.regions = [parsed.regions EXCEPT
                       ![Len(parsed.regions)].closures = Append(@, c)]]
      BY <2>6, Zenon DEF Add
    <3> QED
      BY <2>2, <2>6, <3>1, <3>2, Zenon DEF Takes, TakesClosure, Continue
  <2> QED
    BY <2>1, <2>3, <2>4, <2>5, <2>6, Zenon DEF ParseSPL
<1>5. CASE ins.program \notin {MemoProgram, SystemProgram, AssociatedTokenAccountProgram,
                               TokenProgram}
  BY <1>5, Zenon DEF ParseTop, Reject, Rejects
<1> QED
  BY <1>1, <1>2, <1>3, <1>4, <1>5

\* Looking at an instruction is one of these, or the transaction is rejected.
LEMMA LooksAt ==
  ASSUME NEW ins, ParseInstruction(ins)
  PROVE  /\ phase = "parse" /\ read' = Append(read, ins)
         /\ UNCHANGED <<region, types, refCount, il>>
         /\ Takes(ins) \/ Rejects
<1>1. phase = "parse" /\ read' = Append(read, ins) /\ UNCHANGED <<region, types, refCount, il>>
  BY DEF ParseInstruction, checkVars, clientVars
<1>2. CASE at = "initialize"
  <2>1. ParseInitialize(ins)
    BY <1>2, Zenon DEF ParseInstruction
  <2>2. CASE \E c \in DecompileInitializeAccount(ins) : c.account = creation.address
    <3>1. DecompileInitializeAccount(ins) # {}
      BY <2>2
    <3>2. Quiet(ins) /\ ins.program # MemoProgram
      BY <3>1, OneKind, OtherPrograms DEF DecompileInitializeAccount
    <3> QED
      BY <1>1, <1>2, <2>1, <2>2, <3>1, <3>2
      DEF ParseInitialize, Continue, Takes, TakesInitialize
  <2>3. CASE ~ \E c \in DecompileInitializeAccount(ins) : c.account = creation.address
    BY <1>1, <2>1, <2>3 DEF ParseInitialize, Reject, Rejects
  <2> QED
    BY <2>2, <2>3
<1>3. CASE at = "close"
  <2>1. ParseClose(ins)
    BY <1>3, Zenon DEF ParseInstruction
  <2>2. CASE Reject
    BY <1>1, <2>2 DEF Reject, Rejects
  <2>3. ASSUME NEW a \in SetsAuthority(ins, CloseAccountAuthority),
               Add("creations", [funder |-> creation.funder, address |-> creation.address,
                                 assoc |-> creation.assoc, closeAuthority |-> a.new,
                                 accountHolder |-> FALSE]),
               UNCHANGED <<creation, phase>>
        PROVE  Takes(ins)
    <3>1. /\ a \in DecompileSetAuthority(ins)
          /\ a.type = CloseAccountAuthority /\ a.account = creation.address
      BY <2>3 DEF SetsAuthority
    <3>2. DecompileTransfer(ins) = {} /\ ins.program # MemoProgram
      BY <3>1, OneKind, OtherPrograms
    <3>3. parsed' = [parsed EXCEPT !.regions = [parsed.regions EXCEPT
            ![Len(parsed.regions)].creations = Append(@,
              [funder |-> creation.funder, address |-> creation.address, assoc |-> creation.assoc,
               closeAuthority |-> a.new, accountHolder |-> FALSE])]]
      BY <2>3, Zenon DEF Add
    <3>4. at # "top" /\ creation' = creation /\ phase' = phase
      BY <1>3, <2>3
    <3> QED
      BY <3>1, <3>2, <3>3, <3>4, Zenon DEF Takes, TakesClose
  <2> QED
    BY <1>1, <2>1, <2>2, <2>3, Zenon DEF ParseClose, Continue
<1>4. CASE at = "holder" /\ DecompileSetAuthority(ins) # {}
  <2>1. ParseHolder(ins)
    BY <1>4, Zenon DEF ParseInstruction
  <2>2. CASE SetsAuthority(ins, AccountHolder) = {}
    BY <1>1, <2>1, <2>2 DEF ParseHolder, Reject, Rejects
  <2>3. CASE SetsAuthority(ins, AccountHolder) # {}
    <3>1. PICK a \in DecompileSetAuthority(ins) :
                 a.type = AccountHolder /\ a.account = creation.address
      BY <2>3 DEF SetsAuthority
    <3>2. DecompileTransfer(ins) = {} /\ ins.program # MemoProgram
      BY <3>1, OneKind, OtherPrograms
    <3>3. parsed' = [parsed EXCEPT !.regions = [parsed.regions EXCEPT
            ![Len(parsed.regions)].creations[Len(parsed.regions[Len(parsed.regions)].creations)]
              .accountHolder = TRUE]]
      BY <2>1, <2>3 DEF ParseHolder
    <3>4. at # "top" /\ at' = "top" /\ phase' = phase
      BY <1>4, <2>1, <2>3 DEF ParseHolder, Continue
    <3> QED
      BY <1>1, <3>1, <3>2, <3>3, <3>4, Zenon DEF Takes, TakesHolder
  <2> QED
    BY <2>2, <2>3
<1>5. CASE /\ at \notin {"initialize", "close"}
           /\ ~(at = "holder" /\ DecompileSetAuthority(ins) # {})
  <2>1. ParseTop(ins)
    BY <1>5, Zenon DEF ParseInstruction
  <2> QED
    BY <1>1, <2>1, TopTakes
<1> QED
  BY <1>2, <1>3, <1>4, <1>5

\* What each of them does to the result.
LEMMA LastRegion ==
  ASSUME ShapeInv
  PROVE  /\ IsParsed(parsed) /\ AreRegions(parsed.regions)
         /\ Len(parsed.regions) \in Nat /\ DOMAIN parsed.regions = 1 .. Len(parsed.regions)
         /\ Len(parsed.regions) \in DOMAIN parsed.regions
BY Appended DEF ShapeInv, AreRegions

\* A memo: a new last region.
LEMMA MemoEffect ==
  ASSUME NEW ins, ShapeInv, TakesMemo(ins)
  PROVE  /\ IsParsed(parsed') /\ AreRegions(parsed'.regions)
         /\ parsed'.appIndex = parsed.appIndex
         /\ Len(parsed'.regions) = Len(parsed.regions) + 1
         /\ \A r \in DOMAIN parsed.regions : parsed'.regions[r] = parsed.regions[r]
         /\ parsed'.regions[Len(parsed.regions) + 1].memoData = ins.data
         /\ parsed'.regions[Len(parsed.regions) + 1].transfers = <<>>
         /\ parsed'.regions[Len(parsed.regions) + 1].creations = <<>>
         /\ DOMAIN parsed'.regions = 1 .. Len(parsed.regions) + 1
<1> DEFINE rs == Append(parsed.regions, [NoRegion EXCEPT !.memoData = ins.data])
<1>1. IsParsed(parsed') /\ parsed'.regions = rs /\ parsed'.appIndex = parsed.appIndex
  <2>1. parsed' = [parsed EXCEPT !.regions = rs]
    BY DEF TakesMemo
  <2>2. IsParsed(parsed)
    BY DEF ShapeInv
  <2> HIDE DEF rs
  <2> QED
    BY <2>1, <2>2, WithRegions
<1>2. AreRegions(parsed.regions) /\ parsed'.regions = rs
  BY <1>1 DEF ShapeInv
<1>3. /\ AreRegions(parsed'.regions)
      /\ Len(parsed'.regions) = Len(parsed.regions) + 1
      /\ DOMAIN parsed'.regions = 1 .. Len(parsed.regions) + 1
      /\ \A r \in DOMAIN parsed.regions : parsed'.regions[r] = parsed.regions[r]
      /\ parsed'.regions[Len(parsed.regions) + 1].memoData = ins.data
      /\ parsed'.regions[Len(parsed.regions) + 1].transfers = <<>>
      /\ parsed'.regions[Len(parsed.regions) + 1].creations = <<>>
  <2> DEFINE ps == parsed.regions
             qs == parsed'.regions
  <2>1. AreRegions(ps) /\ BeginsRegion(qs, ps, ins.data)
    BY <1>2 DEF BeginsRegion
  <2> HIDE DEF ps, qs
  <2>2. /\ AreRegions(qs)
        /\ Len(qs) = Len(ps) + 1 /\ DOMAIN qs = 1 .. Len(ps) + 1
        /\ \A r \in DOMAIN ps : qs[r] = ps[r]
        /\ qs[Len(ps) + 1].memoData = ins.data /\ qs[Len(ps) + 1].transfers = <<>>
        /\ qs[Len(ps) + 1].creations = <<>>
    BY ONLY <2>1, NewRegion
  <2> QED
    BY <2>2 DEF ps, qs
<1> QED
  BY <1>1, <1>3

\* The authority to close: the creation is recorded in the last region.
LEMMA CloseEffect ==
  ASSUME NEW ins, ShapeInv, TakesClose(ins)
  PROVE  /\ IsParsed(parsed') /\ parsed'.appIndex = parsed.appIndex
         /\ Keeps(parsed.regions, parsed'.regions)
         /\ SameTransfers(parsed.regions, parsed'.regions)
         /\ \E a \in DecompileSetAuthority(ins) :
              /\ a.type = CloseAccountAuthority /\ a.account = creation.address
              /\ \E r \in DOMAIN parsed'.regions : \E k \in DOMAIN parsed'.regions[r].creations :
                   /\ parsed'.regions[r].creations[k].funder = creation.funder
                   /\ parsed'.regions[r].creations[k].closeAuthority = a.new
<1> DEFINE n == Len(parsed.regions)
           c(a) == [funder |-> creation.funder, address |-> creation.address,
                    assoc |-> creation.assoc, closeAuthority |-> a.new, accountHolder |-> FALSE]
           rs(a) == [parsed.regions EXCEPT ![n].creations = Append(@, c(a))]
<1>1. PICK a \in DecompileSetAuthority(ins) :
             /\ a.type = CloseAccountAuthority /\ a.account = creation.address
             /\ parsed' = [parsed EXCEPT !.regions = rs(a)]
  BY Zenon DEF TakesClose
<1>2. IsParsed(parsed) /\ AreRegions(parsed.regions)
  BY DEF ShapeInv
<1>3. IsParsed(parsed') /\ parsed'.regions = rs(a) /\ parsed'.appIndex = parsed.appIndex
  <2>1. parsed' = [parsed EXCEPT !.regions = rs(a)]
    BY <1>1
  <2> HIDE DEF rs
  <2> QED
    BY <1>2, <2>1, WithRegions
<1>4. IsCreation(c(a)) /\ c(a).funder = creation.funder /\ c(a).closeAuthority = a.new
  BY Zenon DEF IsCreation
<1> HIDE DEF c
<1>5. /\ Keeps(parsed.regions, parsed'.regions) /\ SameTransfers(parsed.regions, parsed'.regions)
      /\ n \in DOMAIN parsed.regions
      /\ \E k \in DOMAIN parsed'.regions[n].creations : parsed'.regions[n].creations[k] = c(a)
  <2> DEFINE ps == parsed.regions
             qs == parsed'.regions
             d == c(a)
  <2>1. AreRegions(ps) /\ IsCreation(d) /\ AddsCreation(qs, ps, d)
    BY <1>2, <1>3, <1>4 DEF AddsCreation
  <2> HIDE DEF ps, qs, d
  <2>2. /\ Keeps(ps, qs) /\ SameTransfers(ps, qs) /\ Len(ps) \in DOMAIN ps
        /\ \E k \in DOMAIN qs[Len(ps)].creations : qs[Len(ps)].creations[k] = d
    BY ONLY <2>1, NewCreation
  <2> QED
    BY <2>2 DEF ps, qs, d
<1>6. n \in DOMAIN parsed'.regions
  BY <1>5 DEF Keeps
<1>7. \E k \in DOMAIN parsed'.regions[n].creations :
        /\ parsed'.regions[n].creations[k].funder = creation.funder
        /\ parsed'.regions[n].creations[k].closeAuthority = a.new
  <2>1. PICK k \in DOMAIN parsed'.regions[n].creations : parsed'.regions[n].creations[k] = c(a)
    BY <1>5, Zenon
  <2> QED
    BY ONLY <1>4, <2>1, Zenon
<1> HIDE DEF n
<1> QED
  BY ONLY <1>1, <1>3, <1>5, <1>6, <1>7, Zenon

\* The account holder: the recorded creation keeps who paid and who may close.
LEMMA HolderEffect ==
  ASSUME NEW ins, ShapeInv, TakesHolder(ins)
  PROVE  /\ IsParsed(parsed') /\ parsed'.appIndex = parsed.appIndex
         /\ Keeps(parsed.regions, parsed'.regions)
         /\ SameTransfers(parsed.regions, parsed'.regions)
<1> DEFINE n == Len(parsed.regions)
           m == Len(parsed.regions[n].creations)
           rs == [parsed.regions EXCEPT ![n].creations[m].accountHolder = TRUE]
<1>1. parsed' = [parsed EXCEPT !.regions = rs]
  BY DEF TakesHolder
<1>2. IsParsed(parsed) /\ AreRegions(parsed.regions) /\ n \in DOMAIN parsed.regions
  BY LastRegion
<1>3. Keeps(parsed.regions, rs) /\ SameTransfers(parsed.regions, rs)
  <2> HIDE DEF m
  <2> QED
    BY <1>2, NewHolder, Zenon
<1> HIDE DEF rs
<1>4. IsParsed(parsed') /\ parsed'.regions = rs /\ parsed'.appIndex = parsed.appIndex
  <2>1. parsed' = [parsed EXCEPT !.regions = rs] /\ IsParsed(parsed)
    BY <1>1, <1>2
  <2> QED
    BY ONLY <2>1, WithRegions
<1> QED
  BY <1>3, <1>4

\* A transfer: the last region has one more.
LEMMA TransferEffect ==
  ASSUME NEW ins, ShapeInv, TakesTransfer(ins)
  PROVE  /\ IsParsed(parsed') /\ parsed'.appIndex = parsed.appIndex
         /\ Keeps(parsed.regions, parsed'.regions)
         /\ Len(parsed'.regions[Len(parsed.regions)].transfers)
              = Len(parsed.regions[Len(parsed.regions)].transfers) + 1
         /\ \A r \in DOMAIN parsed.regions : r # Len(parsed.regions) =>
              parsed'.regions[r].transfers = parsed.regions[r].transfers
<1> DEFINE n == Len(parsed.regions)
           v(t) == Append(parsed.regions[n].transfers, t)
           rs(t) == [parsed.regions EXCEPT ![n].transfers = v(t)]
<1>1. PICK t \in DecompileTransfer(ins) : parsed' = [parsed EXCEPT !.regions = rs(t)]
  BY Zenon DEF TakesTransfer
<1>2. IsParsed(parsed) /\ AreRegions(parsed.regions) /\ n \in DOMAIN parsed.regions
  BY LastRegion
<1>3. IsSequence(v(t)) /\ Len(v(t)) = Len(parsed.regions[n].transfers) + 1
  <2>1. IsSequence(parsed.regions[n].transfers)
    BY <1>2, Zenon DEF AreRegions, IsRegion
  <2> QED
    BY <2>1, Appended
<1> HIDE DEF v
<1>4. /\ Keeps(parsed.regions, rs(t)) /\ rs(t)[n].transfers = v(t)
      /\ \A r \in DOMAIN parsed.regions : r # n =>
           rs(t)[r].transfers = parsed.regions[r].transfers
  BY <1>2, <1>3, NewTransfer
<1> HIDE DEF rs
<1>5. IsParsed(parsed') /\ parsed'.regions = rs(t) /\ parsed'.appIndex = parsed.appIndex
  <2>1. parsed' = [parsed EXCEPT !.regions = rs(t)] /\ IsParsed(parsed)
    BY <1>1, <1>2
  <2> QED
    BY ONLY <2>1, WithRegions
<1> QED
  BY <1>3, <1>4, <1>5

\* A closure: nothing else changes.
LEMMA ClosureEffect ==
  ASSUME NEW ins, ShapeInv, TakesClosure(ins)
  PROVE  /\ IsParsed(parsed') /\ parsed'.appIndex = parsed.appIndex
         /\ Keeps(parsed.regions, parsed'.regions)
         /\ SameTransfers(parsed.regions, parsed'.regions)
<1> DEFINE n == Len(parsed.regions)
           v(c) == Append(parsed.regions[n].closures, c)
           rs(c) == [parsed.regions EXCEPT ![n].closures = v(c)]
<1>1. PICK c : parsed' = [parsed EXCEPT !.regions = rs(c)]
  BY Zenon DEF TakesClosure
<1>2. IsParsed(parsed) /\ AreRegions(parsed.regions) /\ n \in DOMAIN parsed.regions
  BY LastRegion
<1> HIDE DEF v
<1>3. Keeps(parsed.regions, rs(c)) /\ SameTransfers(parsed.regions, rs(c))
  BY <1>2, NewClosure, Zenon
<1> HIDE DEF rs
<1>4. IsParsed(parsed') /\ parsed'.regions = rs(c) /\ parsed'.appIndex = parsed.appIndex
  <2>1. parsed' = [parsed EXCEPT !.regions = rs(c)] /\ IsParsed(parsed)
    BY <1>1, <1>2
  <2> QED
    BY ONLY <2>1, WithRegions
<1> QED
  BY <1>3, <1>4

\* All of them keep the shape, and what is recorded.
LEMMA TakenEffect ==
  ASSUME NEW ins, ShapeInv, Takes(ins)
  PROVE  /\ IsParsed(parsed') /\ AreRegions(parsed'.regions) /\ parsed'.appIndex = parsed.appIndex
         /\ \/ TakesMemo(ins)
            \/ /\ Keeps(parsed.regions, parsed'.regions)
               /\ TakesTransfer(ins) \/ SameTransfers(parsed.regions, parsed'.regions)
<1>1. IsParsed(parsed) /\ AreRegions(parsed.regions)
  BY DEF ShapeInv
<1>2. ASSUME parsed'.regions = parsed.regions
      PROVE  /\ AreRegions(parsed'.regions) /\ Keeps(parsed.regions, parsed'.regions)
             /\ SameTransfers(parsed.regions, parsed'.regions)
  BY <1>1, <1>2 DEF Keeps, SameTransfers
<1>3. CASE TakesMemo(ins)
  BY <1>3, MemoEffect
<1>4. CASE TakesCreation(ins) \/ TakesInitialize(ins)
  <2>1. parsed' = parsed
    BY <1>4 DEF TakesCreation, TakesInitialize
  <2> QED
    BY <1>1, <1>2, <2>1
<1>5. CASE TakesClose(ins)
  BY <1>5, CloseEffect DEF Keeps
<1>6. CASE TakesHolder(ins)
  BY <1>6, HolderEffect DEF Keeps
<1>7. CASE TakesTransfer(ins)
  BY <1>7, TransferEffect DEF Keeps
<1>8. CASE TakesClosure(ins)
  BY <1>8, ClosureEffect DEF Keeps
<1>9. CASE TakesNonce(ins)
  <2>1. parsed' = [parsed EXCEPT !.nonce = TRUE]
    BY <1>9 DEF TakesNonce
  <2>2. /\ IsParsed(parsed') /\ parsed'.regions = parsed.regions
        /\ parsed'.appIndex = parsed.appIndex
    BY ONLY <1>1, <2>1, WithNonce, Zenon
  <2> QED
    BY <1>2, <2>2
<1> QED
  BY <1>3, <1>4, <1>5, <1>6, <1>7, <1>8, <1>9 DEF Takes

-----------------------------------------------------------------------------
(***************************************************************************)
(* The other steps.                                                        *)
(***************************************************************************)
\* The client, and a transaction of another program that comes in.
ClientStep ==
  /\ phase \in {"compose", "made"} /\ phase' \in {"compose", "made", "parse", "rejected"}
  /\ UNCHANGED <<il, read, at, creation, parsed, region, types, refCount>>

\* All steps before ParseTransaction are such.
LEMMA ClientSteps ==
  /\ (\E ins \in Composed : Compose(ins)) => ClientStep
  /\ Make => ClientStep
  /\ SetBlockhash => ClientStep
  /\ (\E signers \in SignerLists : Sign(signers)) => ClientStep
  /\ Deliver => ClientStep
  /\ ForeignArrives => ClientStep
<1> USE DEF ClientStep, clientVars, loopVars, checkVars
<1>1. (\E ins \in Composed : Compose(ins)) => ClientStep
  BY DEF Compose
<1>2. Make => ClientStep
  BY DEF Make
<1>3. SetBlockhash => ClientStep
  BY DEF SetBlockhash
<1>4. (\E signers \in SignerLists : Sign(signers)) => ClientStep
  BY DEF Sign
<1>5. Deliver => ClientStep
  BY DEF Deliver
<1>6. ForeignArrives => ClientStep
  BY DEF ForeignArrives
<1> QED
  BY <1>1, <1>2, <1>3, <1>4, <1>5, <1>6

\* The rest of the loop, its end and the verdict.
LEMMA LookSteps ==
  ASSUME LookAt
  PROVE  \E ins : ParseInstruction(ins)
BY DEF LookAt

LEMMA EndSteps ==
  ASSUME EndOfInstructions
  PROVE  /\ phase = "parse" /\ phase' \in {"rejected", "validate"} /\ il' \in InvoiceLists
         /\ UNCHANGED <<read, at, creation, parsed, region, types, refCount>>
BY DEF EndOfInstructions, loopVars, checkVars

LEMMA FinishSteps ==
  ASSUME Finish
  PROVE  /\ phase = "validate" /\ region > Len(parsed.regions)
         /\ UNCHANGED <<il, read, at, creation, parsed, region, types, refCount>>
         /\ \/ phase' = "rejected"
            \/ /\ phase' = "accepted"
               /\ ~(Earn \in types /\ types \cap {Spend, P2P} # {})
               /\ il # 0 => refCount = 1
BY DEF Finish, clientVars, loopVars, checkVars

\* The text of a region.
HasText(r) == parsed.regions[r].memoData # <<>>
TextOf(r) == MemoText(parsed.regions[r].memoData)

MemoOf(r) == MemoFromBase64String(TextOf(r))

\* The ways in which a region is valid.
PassesBare == ~HasText(region) /\ UNCHANGED <<parsed, types, refCount>>

PassesKin ==
  /\ HasText(region) /\ IsBase64(TextOf(region))
  /\ ~AppIndexClashes(MemoOf(region))
  /\ MatchesInvoices(MemoOf(region)) => Len(parsed.regions[region].transfers) = il
  /\ parsed'.appIndex = IF parsed.appIndex = 0 THEN AppIndex(MemoOf(region)) ELSE parsed.appIndex
  /\ parsed'.appID = parsed.appID
  /\ types' = types \cup {TransactionType(MemoOf(region))}
  /\ refCount' = IF MatchesInvoices(MemoOf(region)) THEN refCount + 1 ELSE refCount

PassesText ==
  /\ HasText(region)
  /\ ~(IsBase64(TextOf(region)) /\ IsValidMemo(MemoOf(region)))
  /\ parsed'.appIndex = parsed.appIndex /\ UNCHANGED <<types, refCount>>
  /\ \/ TextOf(region).appID = 0 /\ parsed'.appID = parsed.appID
     \/ /\ parsed.appID \in {0, TextOf(region).appID}
        /\ parsed'.appID = TextOf(region).appID

Passes ==
  /\ phase' = phase /\ region' = region + 1 /\ CloseAuthorityMatches
  /\ IsParsed(parsed') /\ Keeps(parsed.regions, parsed'.regions)
  /\ SameTransfers(parsed.regions, parsed'.regions)
  /\ SameCreations(parsed.regions, parsed'.regions)
  /\ PassesBare \/ PassesKin \/ PassesText

SetsMemo(q, p, r, m, i) == q = [p EXCEPT !.regions[r].memo = m, !.appIndex = i]

\* A result with the memo of a region and the app index set.
LEMMA WithMemo ==
  ASSUME NEW p, IsParsed(p), AreRegions(p.regions), NEW r \in DOMAIN p.regions, NEW m, NEW i, NEW q,
         SetsMemo(q, p, r, m, i)
  PROVE  /\ IsParsed(q) /\ q.appIndex = i /\ q.appID = p.appID
         /\ Keeps(p.regions, q.regions) /\ SameTransfers(p.regions, q.regions)
         /\ SameCreations(p.regions, q.regions)
<1> DEFINE a == p.nonce
           b == p.regions
           c == p.appIndex
           d == p.appID
           e == [b EXCEPT ![r].memo = m]
<1>1. p = [nonce |-> a, regions |-> b, appIndex |-> c, appID |-> d]
  BY DEF IsParsed
<1>2. AreRegions(b) /\ r \in DOMAIN b
  OBVIOUS
<1>3. q = [[p EXCEPT !.regions = e] EXCEPT !.appIndex = i]
  BY DEF SetsMemo
<1>4. Keeps(b, e) /\ SameTransfers(b, e) /\ SameCreations(b, e)
  <2> HIDE DEF b
  <2> QED
    BY ONLY <1>2, NewMemoOf DEF e
<1> HIDE DEF a, b, c, d, e
<1>5. q = [nonce |-> a, regions |-> e, appIndex |-> i, appID |-> d]
  BY ONLY <1>1, <1>3, Zenon
<1>6. q.nonce = a /\ q.regions = e /\ q.appIndex = i /\ q.appID = d
  BY ONLY <1>5
<1>7. IsParsed(q)
  BY ONLY <1>5, <1>6 DEF IsParsed
<1> QED
  BY <1>4, <1>6, <1>7 DEF b, d

\* A result with the app ID set.
LEMMA WithAppID ==
  ASSUME NEW p, IsParsed(p), NEW v, NEW q, q = [p EXCEPT !.appID = v]
  PROVE  IsParsed(q) /\ q.regions = p.regions /\ q.appIndex = p.appIndex /\ q.appID = v
<1> DEFINE a == p.nonce
           b == p.regions
           c == p.appIndex
           d == p.appID
<1>1. p = [nonce |-> a, regions |-> b, appIndex |-> c, appID |-> d]
  BY DEF IsParsed
<1> HIDE DEF a, b, c, d
<1>2. q = [nonce |-> a, regions |-> b, appIndex |-> c, appID |-> v]
  BY <1>1
<1>3. q.nonce = a /\ q.regions = b /\ q.appIndex = c /\ q.appID = v
  BY <1>2
<1> QED
  BY <1>2, <1>3 DEF IsParsed, b, c

\* A region is valid in one of these ways, or the transaction is rejected.
LEMMA ValidateSteps ==
  ASSUME ShapeInv, ValidateRegion
  PROVE  /\ phase = "validate" /\ region \in DOMAIN parsed.regions
         /\ UNCHANGED <<il, read, at, creation>>
         /\ \/ phase' = "rejected" /\ UNCHANGED <<parsed, region, types, refCount>>
            \/ Passes
<1> DEFINE text == TextOf(region)
           m == MemoOf(region)
<1>1. /\ phase = "validate" /\ region \in DOMAIN parsed.regions
      /\ UNCHANGED <<il, read, at, creation>>
  BY LastRegion DEF ValidateRegion, clientVars, loopVars, ShapeInv
<1>2. IsParsed(parsed) /\ AreRegions(parsed.regions)
  BY DEF ShapeInv
<1>3. ASSUME RejectRegion
      PROVE  phase' = "rejected" /\ UNCHANGED <<parsed, region, types, refCount>>
  BY <1>3 DEF RejectRegion, checkVars
<1>4. ASSUME parsed'.regions = parsed.regions
      PROVE  /\ Keeps(parsed.regions, parsed'.regions)
             /\ SameTransfers(parsed.regions, parsed'.regions)
             /\ SameCreations(parsed.regions, parsed'.regions)
  BY <1>2, <1>4 DEF Keeps, SameTransfers, SameCreations
<1>5. CASE ~CloseAuthorityMatches
  <2>1. RejectRegion
    BY <1>5, Zenon DEF ValidateRegion
  <2> QED
    BY <1>1, <1>3, <2>1
<1>6. CASE CloseAuthorityMatches /\ ~HasText(region)
  <2>1. NextRegion /\ UNCHANGED <<parsed, types, refCount>>
    BY <1>6, Zenon DEF ValidateRegion, HasText, ThisRegion
  <2>2. PassesBare /\ phase' = phase /\ region' = region + 1
    BY <1>6, <2>1 DEF PassesBare, NextRegion
  <2> QED
    BY <1>1, <1>2, <1>4, <1>6, <2>1, <2>2 DEF Passes
<1>7. CASE CloseAuthorityMatches /\ HasText(region)
  <2>1. IF IsBase64(text) /\ IsValidMemo(m) THEN KinMemoRegion(m)
        ELSE TextMemo(AppIDFromTextMemo(text))
    BY <1>7, Zenon DEF ValidateRegion, HasText, ThisRegion, TextOf, MemoOf
  <2>2. CASE IsBase64(text) /\ IsValidMemo(m)
    <3>1. KinMemoRegion(m)
      BY <2>1, <2>2
    <3>2. CASE AppIndexClashes(m) \/ (MatchesInvoices(m) /\ Len(ThisRegion.transfers) # il)
      <4>1. RejectRegion
        BY <3>1, <3>2, Zenon DEF KinMemoRegion
      <4> QED
        BY <1>1, <1>3, <4>1
    <3>3. CASE ~(AppIndexClashes(m) \/ (MatchesInvoices(m) /\ Len(ThisRegion.transfers) # il))
      <4> DEFINE i == IF parsed.appIndex = 0 THEN AppIndex(m) ELSE parsed.appIndex
      <4>1. /\ parsed' = [parsed EXCEPT !.regions[region].memo = m, !.appIndex = i]
            /\ types' = types \cup {TransactionType(m)}
            /\ refCount' = IF MatchesInvoices(m) THEN refCount + 1 ELSE refCount
            /\ NextRegion
        BY <3>1, <3>3, Zenon DEF KinMemoRegion
      <4>2. /\ IsParsed(parsed') /\ parsed'.appIndex = i /\ parsed'.appID = parsed.appID
            /\ Keeps(parsed.regions, parsed'.regions)
            /\ SameTransfers(parsed.regions, parsed'.regions)
            /\ SameCreations(parsed.regions, parsed'.regions)
        <5>1. SetsMemo(parsed', parsed, region, m, i)
          BY <4>1, Zenon DEF SetsMemo
        <5> HIDE DEF i, m
        <5> QED
          BY <1>1, <1>2, <5>1, WithMemo
      <4>3. PassesKin
        BY <1>7, <2>2, <3>3, <4>1, <4>2, Zenon DEF PassesKin, ThisRegion
      <4> QED
        BY <1>1, <1>7, <4>1, <4>2, <4>3 DEF Passes, NextRegion
    <3> QED
      BY <3>2, <3>3
  <2>3. CASE ~(IsBase64(text) /\ IsValidMemo(m))
    <3> DEFINE appID == text.appID
    <3>1. TextMemo(appID)
      BY <2>1, <2>3 DEF AppIDFromTextMemo
    <3>2. CASE appID # 0 /\ parsed.appID \notin {0, appID}
      <4>1. RejectRegion
        BY <3>1, <3>2, Zenon DEF TextMemo
      <4> QED
        BY <1>1, <1>3, <4>1
    <3>3. CASE ~(appID # 0 /\ parsed.appID \notin {0, appID})
      <4>1. /\ parsed' = IF appID = 0 THEN parsed ELSE [parsed EXCEPT !.appID = appID]
            /\ NextRegion /\ UNCHANGED <<types, refCount>>
        BY <3>1, <3>3, Zenon DEF TextMemo
      <4>2. /\ IsParsed(parsed') /\ parsed'.regions = parsed.regions
            /\ parsed'.appIndex = parsed.appIndex
            /\ parsed'.appID = IF appID = 0 THEN parsed.appID ELSE appID
        <5>1. CASE appID = 0
          BY <1>2, <4>1, <5>1
        <5>2. CASE appID # 0
          <6>1. parsed' = [parsed EXCEPT !.appID = appID]
            BY <4>1, <5>2
          <6> HIDE DEF appID
          <6> QED
            BY <1>2, <5>2, <6>1, WithAppID
        <5> QED
          BY <5>1, <5>2
      <4>3. PassesText
        BY <1>7, <2>3, <3>3, <4>1, <4>2 DEF PassesText
      <4> QED
        BY <1>1, <1>4, <1>7, <4>1, <4>2, <4>3 DEF Passes, NextRegion
    <3> QED
      BY <3>2, <3>3
  <2> QED
    BY <2>2, <2>3
<1> QED
  BY <1>5, <1>6, <1>7

-----------------------------------------------------------------------------
(***************************************************************************)
(* The shape is kept.                                                      *)
(***************************************************************************)
LEMMA ShapeInit == Init => ShapeInv
<1> SUFFICES ASSUME Init PROVE ShapeInv
  OBVIOUS
<1>1. IsSequence(<<>>) /\ DOMAIN <<>> = {}
  BY DEF IsSequence
<1>2. IsRegion(NoRegion)
  BY <1>1, Zenon DEF IsRegion, NoRegion
<1>3. IsSequence(<<NoRegion>>)
  <2>1. <<NoRegion>> \in Seq({NoRegion})
    OBVIOUS
  <2> QED
    BY <2>1, AnySequence, Zenon
<1>4. Len(<<NoRegion>>) = 1 /\ DOMAIN <<NoRegion>> = {1} /\ <<NoRegion>>[1] = NoRegion
  OBVIOUS
<1>5. AreRegions(<<NoRegion>>)
  BY <1>2, <1>3, <1>4 DEF AreRegions
<1>6. IsParsed(parsed) /\ parsed.regions = <<NoRegion>>
  BY DEF Init, IsParsed
<1> QED
  BY <1>1, <1>5, <1>6 DEF Init, ShapeInv

LEMMA ShapeNext ==
  ASSUME ShapeInv, [Next]_vars
  PROVE  ShapeInv'
<1>1. ASSUME UNCHANGED <<read, parsed, region>>
      PROVE  ShapeInv'
  BY <1>1 DEF ShapeInv
<1>2. ASSUME ClientStep
      PROVE  ShapeInv'
  BY <1>1, <1>2 DEF ClientStep
<1>3. CASE LookAt
  <2>1. PICK ins : ParseInstruction(ins)
    BY <1>3, LookSteps
  <2>2. read' = Append(read, ins) /\ region' = region /\ (Takes(ins) \/ Rejects)
    BY <2>1, LooksAt
  <2>3. IsSequence(read')
    BY <2>2, Appended DEF ShapeInv
  <2>4. IsParsed(parsed') /\ AreRegions(parsed'.regions)
    BY <2>2, TakenEffect DEF Rejects, ShapeInv
  <2> QED
    BY <2>2, <2>3, <2>4 DEF ShapeInv
<1>4. CASE EndOfInstructions
  BY <1>1, <1>4, EndSteps
<1>5. CASE ValidateRegion
  <2>1. CASE UNCHANGED <<parsed, region>>
    BY <1>1, <1>5, <2>1, ValidateSteps
  <2>2. CASE Passes
    <3>1. IsParsed(parsed') /\ AreRegions(parsed'.regions) /\ region' = region + 1
      BY <2>2 DEF Passes, Keeps
    <3>2. read' = read
      BY <1>5, ValidateSteps
    <3> QED
      BY <3>1, <3>2 DEF ShapeInv
  <2> QED
    BY <1>5, <2>1, <2>2, ValidateSteps
<1>6. CASE Finish
  BY <1>1, <1>6, FinishSteps
<1>7. CASE UNCHANGED vars
  BY <1>1, <1>7 DEF vars, loopVars, checkVars
<1> QED
  BY <1>2, <1>3, <1>4, <1>5, <1>6, <1>7, ClientSteps DEF Next

-----------------------------------------------------------------------------
(***************************************************************************)
(* Authorities.                                                            *)
(***************************************************************************)
\* A region has a creation with this funder and this authority to close it.
Recorded(rs, funder, authority) ==
  \E r \in DOMAIN rs : \E c \in DOMAIN rs[r].creations :
    rs[r].creations[c].funder = funder /\ rs[r].creations[c].closeAuthority = authority

\* Instruction j creates an account, and what follows before i sets it up.
Opens(seen, c, j, i) ==
  /\ c \in CreatedBy(seen[j])
  /\ \A k \in j + 1 .. i - 1 :
       DecompileInitializeAccount(seen[k]) # {} \/ DecompileSetAuthority(seen[k]) # {}

\* The authority a that instruction i sets is one of an account just created.
Explained(seen, rs, i, a) ==
  \E j \in 1 .. i - 1 : \E c \in CreatedBy(seen[j]) :
    /\ Opens(seen, c, j, i) /\ c[1] = a.account
    /\ \/ a.type = AccountHolder
       \/ a.type = CloseAccountAuthority /\ Recorded(rs, c[2], a.new)

AuthorityInv ==
  /\ phase \in {"compose", "made"} => read = <<>> /\ at = "top"
  /\ phase \in {"compose", "made", "parse"} => region = 1
  /\ phase \in {"parse", "validate", "accepted"} =>
       \A i \in DOMAIN read : \A a \in DecompileSetAuthority(read[i]) :
         Explained(read, parsed.regions, i, a)
  /\ phase = "parse" /\ at # "top" =>
       \E j \in DOMAIN read : Opens(read, <<creation.address, creation.funder>>, j, Len(read) + 1)
  /\ \A r \in 1 .. region - 1 : \A c \in DOMAIN parsed.regions[r].creations :
       parsed.regions[r].creations[c].funder = parsed.regions[r].creations[c].closeAuthority
  /\ region <= Len(parsed.regions) + 1
  /\ phase = "accepted" => region > Len(parsed.regions)

\* What is recorded of a creation stays.
LEMMA RecordedStays ==
  ASSUME NEW rs, NEW rs2, NEW funder, NEW authority, Recorded(rs, funder, authority),
         \/ Keeps(rs, rs2)
         \/ \A r \in DOMAIN rs : r \in DOMAIN rs2 /\ rs2[r] = rs[r]
  PROVE  Recorded(rs2, funder, authority)
<1>1. PICK r \in DOMAIN rs : \E c \in DOMAIN rs[r].creations :
             rs[r].creations[c].funder = funder /\ rs[r].creations[c].closeAuthority = authority
  BY DEF Recorded
<1>2. PICK c \in DOMAIN rs[r].creations :
             rs[r].creations[c].funder = funder /\ rs[r].creations[c].closeAuthority = authority
  BY <1>1
<1>3. /\ r \in DOMAIN rs2 /\ c \in DOMAIN rs2[r].creations
      /\ rs2[r].creations[c].funder = funder
      /\ rs2[r].creations[c].closeAuthority = authority
  BY <1>2 DEF Keeps
<1> QED
  BY <1>3 DEF Recorded

\* So does an explanation.
LEMMA ExplainedStays ==
  ASSUME NEW seen, IsSequence(seen), NEW ins, NEW rs, NEW rs2,
         \/ Keeps(rs, rs2)
         \/ \A r \in DOMAIN rs : r \in DOMAIN rs2 /\ rs2[r] = rs[r],
         NEW i \in DOMAIN seen, NEW a, Explained(seen, rs, i, a)
  PROVE  Explained(Append(seen, ins), rs2, i, a)
<1> DEFINE more == Append(seen, ins)
<1>1. PICK j \in 1 .. i - 1 : \E c \in CreatedBy(seen[j]) :
             /\ Opens(seen, c, j, i) /\ c[1] = a.account
             /\ \/ a.type = AccountHolder
                \/ a.type = CloseAccountAuthority /\ Recorded(rs, c[2], a.new)
  BY DEF Explained
<1>2. PICK c \in CreatedBy(seen[j]) :
             /\ Opens(seen, c, j, i) /\ c[1] = a.account
             /\ \/ a.type = AccountHolder
                \/ a.type = CloseAccountAuthority /\ Recorded(rs, c[2], a.new)
  BY <1>1
<1>3. /\ Len(seen) \in Nat /\ DOMAIN seen = 1 .. Len(seen)
      /\ \A k \in 1 .. Len(seen) : more[k] = seen[k]
  BY Appended
<1> HIDE DEF more
<1>4. more[j] = seen[j] /\ \A k \in j + 1 .. i - 1 : more[k] = seen[k]
  BY <1>3
<1>5. Opens(more, c, j, i)
  BY <1>2, <1>4 DEF Opens
<1>6. a.type = CloseAccountAuthority /\ Recorded(rs, c[2], a.new) => Recorded(rs2, c[2], a.new)
  BY RecordedStays
<1>7. Explained(more, rs2, i, a)
  BY <1>2, <1>4, <1>5, <1>6 DEF Explained
<1> QED
  BY <1>7 DEF more

\* Looking at an instruction keeps the invariant.
LEMMA AuthorityLook ==
  ASSUME ShapeInv, AuthorityInv, NEW ins, ParseInstruction(ins), Takes(ins)
  PROVE  AuthorityInv'
<1> DEFINE n == Len(read)
           made == <<creation.address, creation.funder>>
           made2 == <<creation'.address, creation'.funder>>
<1>1. /\ phase = "parse" /\ phase' = "parse" /\ region = 1 /\ region' = 1
      /\ read' = Append(read, ins)
  BY LooksAt DEF AuthorityInv, Takes
<1>2. /\ n \in Nat /\ DOMAIN read = 1 .. n /\ DOMAIN read' = 1 .. n + 1 /\ Len(read') = n + 1
      /\ \A k \in 1 .. n : read'[k] = read[k]
      /\ read'[n + 1] = ins
  BY <1>1, Appended DEF ShapeInv
<1>3. \/ Keeps(parsed.regions, parsed'.regions)
      \/ \A r \in DOMAIN parsed.regions :
           r \in DOMAIN parsed'.regions /\ parsed'.regions[r] = parsed.regions[r]
  <2>1. CASE TakesMemo(ins)
    <3> DEFINE len == Len(parsed.regions)
    <3>1. /\ len \in Nat /\ DOMAIN parsed.regions = 1 .. len
          /\ DOMAIN parsed'.regions = 1 .. len + 1
          /\ \A r \in DOMAIN parsed.regions : parsed'.regions[r] = parsed.regions[r]
      BY <2>1, MemoEffect, LastRegion, Zenon
    <3> HIDE DEF len
    <3>2. \A r \in 1 .. len : r \in 1 .. len + 1
      BY ONLY <3>1
    <3> QED
      BY ONLY <3>1, <3>2, Zenon
  <2> QED
    BY <2>1, TakenEffect
<1>4. ASSUME NEW i \in 1 .. n, NEW a \in DecompileSetAuthority(read'[i])
      PROVE  Explained(read', parsed'.regions, i, a)
  <2>1. i \in DOMAIN read /\ a \in DecompileSetAuthority(read[i]) /\ IsSequence(read)
    BY <1>2, <1>4 DEF ShapeInv
  <2>2. Explained(read, parsed.regions, i, a)
    BY <1>1, <2>1 DEF AuthorityInv
  <2> QED
    BY <1>1, <1>3, <2>1, <2>2, ExplainedStays
<1>5. ASSUME at # "top"
      PROVE  \E j \in 1 .. n : made \in CreatedBy(read'[j]) /\ Opens(read', made, j, n + 1)
  <2>1. PICK j \in 1 .. n : Opens(read, made, j, n + 1)
    BY <1>1, <1>2, <1>5 DEF AuthorityInv
  <2>2. read'[j] = read[j] /\ \A k \in j + 1 .. (n + 1) - 1 : read'[k] = read[k]
    BY <1>2
  <2> QED
    BY <2>1, <2>2, Zenon DEF Opens
<1>6. ASSUME at # "top", NEW a \in DecompileSetAuthority(ins), a.account = creation.address,
             \/ a.type = AccountHolder
             \/ /\ a.type = CloseAccountAuthority
                /\ Recorded(parsed'.regions, creation.funder, a.new)
      PROVE  \A b \in DecompileSetAuthority(ins) : Explained(read', parsed'.regions, n + 1, b)
  <2>1. PICK j \in 1 .. n : made \in CreatedBy(read'[j]) /\ Opens(read', made, j, n + 1)
    BY <1>5, <1>6
  <2>2. made[1] = creation.address /\ made[2] = creation.funder
    OBVIOUS
  <2>3. 1 .. n = 1 .. (n + 1) - 1
    BY <1>2
  <2> HIDE DEF made, n
  <2>4. Explained(read', parsed'.regions, n + 1, a)
    BY <1>6, <2>1, <2>2, <2>3, Zenon DEF Explained
  <2>5. \A b \in DecompileSetAuthority(ins) : b = a
    BY <1>6, OneKind
  <2> QED
    BY <2>4, <2>5
<1>7. \A a \in DecompileSetAuthority(ins) : Explained(read', parsed'.regions, n + 1, a)
  <2>1. CASE DecompileSetAuthority(ins) = {}
    BY <2>1
  <2>2. CASE TakesClose(ins)
    <3>1. PICK a \in DecompileSetAuthority(ins) :
                 /\ a.type = CloseAccountAuthority /\ a.account = creation.address
                 /\ Recorded(parsed'.regions, creation.funder, a.new)
      BY <2>2, CloseEffect DEF Recorded
    <3> QED
      BY <1>6, <2>2, <3>1, Zenon DEF TakesClose
  <2>3. CASE TakesHolder(ins)
    BY <1>6, <2>3 DEF TakesHolder
  <2> QED
    BY <2>1, <2>2, <2>3 DEF Takes, TakesMemo, TakesCreation, TakesInitialize, TakesTransfer,
                            TakesClosure, TakesNonce, Quiet
<1>8. ASSUME at' # "top"
      PROVE  \E j \in DOMAIN read' : Opens(read', made2, j, Len(read') + 1)
  <2>1. CASE TakesCreation(ins)
    <3>1. made2 \in CreatedBy(read'[n + 1])
      BY <1>2, <2>1 DEF TakesCreation
    <3>2. n + 1 \in DOMAIN read' /\ (n + 1) + 1 .. (Len(read') + 1) - 1 = {}
      BY <1>2
    <3> QED
      BY <3>1, <3>2 DEF Opens
  <2>2. CASE TakesInitialize(ins) \/ TakesClose(ins)
    <3>1. /\ at # "top" /\ made2 = made
          /\ DecompileInitializeAccount(ins) # {} \/ DecompileSetAuthority(ins) # {}
      BY <2>2, Zenon DEF TakesInitialize, TakesClose
    <3>2. PICK j \in 1 .. n : made \in CreatedBy(read'[j]) /\ Opens(read', made, j, n + 1)
      BY <1>5, <3>1
    <3>3. j \in DOMAIN read'
          /\ \A k \in j + 1 .. (Len(read') + 1) - 1 : k \in j + 1 .. (n + 1) - 1 \/ k = n + 1
      BY <1>2
    <3>4. Opens(read', made, j, Len(read') + 1)
      BY <1>2, <3>1, <3>2, <3>3, Zenon DEF Opens
    <3> QED
      BY <3>1, <3>3, <3>4
  <2> QED
    BY <1>8, <2>1, <2>2, Zenon
    DEF Takes, TakesMemo, TakesHolder, TakesTransfer, TakesClosure, TakesNonce
<1>9. region' <= Len(parsed'.regions) + 1 /\ 1 .. region' - 1 = {}
  <2>1. AreRegions(parsed'.regions)
    BY TakenEffect
  <2>2. Len(parsed'.regions) \in Nat
    BY <2>1, Appended DEF AreRegions
  <2> QED
    BY <1>1, <2>2
<1>10. \A i \in DOMAIN read' : \A a \in DecompileSetAuthority(read'[i]) :
         Explained(read', parsed'.regions, i, a)
  BY <1>2, <1>4, <1>7
<1> QED
  BY <1>1, <1>8, <1>9, <1>10 DEF AuthorityInv

\* So do the other steps.
LEMMA AuthorityNext ==
  ASSUME ShapeInv, AuthorityInv, [Next]_vars
  PROVE  AuthorityInv'
<1>1. CASE ClientStep
  <2>1. DOMAIN <<>> = {}
    OBVIOUS
  <2> QED
    BY <1>1, <2>1 DEF ClientStep, AuthorityInv
<1>2. CASE LookAt
  <2>1. PICK ins : ParseInstruction(ins)
    BY <1>2, LookSteps
  <2>2. CASE Takes(ins)
    BY <2>1, <2>2, AuthorityLook
  <2>3. CASE Rejects
    BY <2>1, <2>3, LooksAt DEF Rejects, AuthorityInv
  <2> QED
    BY <2>1, <2>2, <2>3, LooksAt
<1>3. CASE EndOfInstructions
  BY <1>3, EndSteps DEF AuthorityInv
<1>4. CASE ValidateRegion
  <2>1. CASE phase' = "rejected" /\ UNCHANGED <<parsed, region>>
    BY <2>1 DEF AuthorityInv
  <2>2. CASE Passes
    <3>1. /\ phase = "validate" /\ phase' = "validate" /\ region \in DOMAIN parsed.regions
          /\ UNCHANGED <<read, at, creation>> /\ region' = region + 1
      BY <1>4, <2>2, ValidateSteps DEF Passes
    <3>2. /\ DOMAIN parsed'.regions = DOMAIN parsed.regions
          /\ Len(parsed'.regions) = Len(parsed.regions)
          /\ SameCreations(parsed.regions, parsed'.regions)
      BY <2>2 DEF Passes, Keeps
    <3>3. Len(parsed.regions) \in Nat /\ DOMAIN parsed.regions = 1 .. Len(parsed.regions)
      BY LastRegion
    <3>4. \A i \in DOMAIN read' : \A a \in DecompileSetAuthority(read'[i]) :
            Explained(read', parsed'.regions, i, a)
      <4> SUFFICES ASSUME NEW i \in DOMAIN read, NEW a \in DecompileSetAuthority(read[i])
                   PROVE  Explained(read, parsed'.regions, i, a)
        BY <3>1
      <4>1. Explained(read, parsed.regions, i, a)
        BY <3>1 DEF AuthorityInv
      <4>2. \A f, b : Recorded(parsed.regions, f, b) => Recorded(parsed'.regions, f, b)
        BY <2>2, RecordedStays, Zenon DEF Passes
      <4> QED
        BY <4>1, <4>2, Zenon DEF Explained
    <3>5. ASSUME NEW r \in 1 .. region' - 1, NEW c \in DOMAIN parsed'.regions[r].creations
          PROVE  parsed'.regions[r].creations[c].funder
                   = parsed'.regions[r].creations[c].closeAuthority
      <4>1. r \in DOMAIN parsed.regions
        <5> DEFINE len == Len(parsed.regions)
        <5>1. len \in Nat /\ region \in 1 .. len
          BY <3>1, <3>3, Zenon
        <5>2. region' = region + 1 /\ r \in 1 .. region' - 1
          BY <3>1, <3>5, Zenon
        <5> HIDE DEF len
        <5>3. r \in 1 .. len
          BY ONLY <5>1, <5>2
        <5> QED
          BY <3>3, <5>3, Zenon DEF len
      <4>2. parsed'.regions[r].creations = parsed.regions[r].creations
        BY <3>2, <4>1 DEF SameCreations
      <4>3. CASE r = region
        BY <2>2, <3>5, <4>2, <4>3 DEF Passes, CloseAuthorityMatches, ThisRegion, Range
      <4>4. CASE r # region
        <5>1. r \in 1 .. region - 1
          BY <3>1, <3>3, <3>5, <4>4
        <5> QED
          BY <3>5, <4>2, <5>1 DEF AuthorityInv
      <4> QED
        BY <4>3, <4>4
    <3>6. region' <= Len(parsed'.regions) + 1
      BY <3>1, <3>2, <3>3
    <3> QED
      BY <3>1, <3>4, <3>5, <3>6 DEF AuthorityInv
  <2> QED
    BY <1>4, <2>1, <2>2, ValidateSteps
<1>5. CASE Finish
  BY <1>5, FinishSteps DEF AuthorityInv
<1>6. CASE UNCHANGED vars
  BY <1>6 DEF vars, loopVars, checkVars, AuthorityInv
<1> QED
  BY <1>1, <1>2, <1>3, <1>4, <1>5, <1>6, ClientSteps DEF Next

\* At the end all regions have been validated, so whoever may close an account has paid for it.
LEMMA AuthorityAccepted ==
  ASSUME ShapeInv, AuthorityInv
  PROVE  AuthorityOnlyOnCreated
<1> SUFFICES ASSUME phase = "accepted", NEW i \in DOMAIN read, NEW a \in DecompileSetAuthority(read[i])
             PROVE  \E j \in 1 .. i - 1 :
                      \E funder \in {c[2] : c \in {c \in CreatedBy(read[j]) : c[1] = a.account}} :
                        /\ a.type = AccountHolder \/ (a.type = CloseAccountAuthority /\ a.new = funder)
                        /\ \A k \in j + 1 .. i - 1 :
                             \/ DecompileInitializeAccount(read[k]) # {}
                             \/ DecompileSetAuthority(read[k]) # {}
  BY Zenon DEF AuthorityOnlyOnCreated
<1>1. Explained(read, parsed.regions, i, a)
  BY DEF AuthorityInv
<1>2. PICK j \in 1 .. i - 1 : \E c \in CreatedBy(read[j]) :
             /\ Opens(read, c, j, i) /\ c[1] = a.account
             /\ \/ a.type = AccountHolder
                \/ a.type = CloseAccountAuthority /\ Recorded(parsed.regions, c[2], a.new)
  BY <1>1 DEF Explained
<1>3. PICK c \in CreatedBy(read[j]) :
             /\ Opens(read, c, j, i) /\ c[1] = a.account
             /\ \/ a.type = AccountHolder
                \/ a.type = CloseAccountAuthority /\ Recorded(parsed.regions, c[2], a.new)
  BY <1>2
<1>4. ASSUME Recorded(parsed.regions, c[2], a.new)
      PROVE  a.new = c[2]
  <2>1. PICK r \in DOMAIN parsed.regions : \E k \in DOMAIN parsed.regions[r].creations :
               /\ parsed.regions[r].creations[k].funder = c[2]
               /\ parsed.regions[r].creations[k].closeAuthority = a.new
    BY <1>4 DEF Recorded
  <2>2. r \in 1 .. region - 1
    <3> DEFINE len == Len(parsed.regions)
    <3>1. len \in Nat /\ r \in 1 .. len
      BY LastRegion, Zenon
    <3>2. region \in Nat /\ region > len
      BY Zenon DEF ShapeInv, AuthorityInv
    <3> HIDE DEF len
    <3> QED
      BY ONLY <3>1, <3>2
  <2> QED
    BY <2>1, <2>2 DEF AuthorityInv
<1>5. c[2] \in {d[2] : d \in {d \in CreatedBy(read[j]) : d[1] = a.account}}
  BY <1>3
<1>6. \A k \in j + 1 .. i - 1 :
        DecompileInitializeAccount(read[k]) # {} \/ DecompileSetAuthority(read[k]) # {}
  BY <1>3 DEF Opens
<1> QED
  BY <1>3, <1>4, <1>5, <1>6, Zenon

\* In an accepted transaction an authority is set only of an account that the
\* transaction has just created, and the one to close it goes to who paid for it:
\* the checks of ParseTransaction on SetAuthority, whatever the instructions are.
THEOREM AuthoritiesOfCreated == Spec => []AuthorityOnlyOnCreated
<1>1. Init => ShapeInv /\ AuthorityInv
  <2> SUFFICES ASSUME Init PROVE ShapeInv /\ AuthorityInv
    OBVIOUS
  <2>1. ShapeInv
    BY ShapeInit
  <2>2. Len(parsed.regions) \in Nat
    BY <2>1, LastRegion
  <2>3. phase = "compose" /\ read = <<>> /\ at = "top" /\ region = 1
    BY Zenon DEF Init
  <2>4. 1 .. region - 1 = {} /\ region <= Len(parsed.regions) + 1
    BY ONLY <2>2, <2>3
  <2>5. AuthorityInv
    BY ONLY <2>3, <2>4 DEF AuthorityInv
  <2> QED
    BY <2>1, <2>5
<1>2. ShapeInv /\ AuthorityInv /\ [Next]_vars => (ShapeInv /\ AuthorityInv)'
  BY ShapeNext, AuthorityNext
<1>3. ShapeInv /\ AuthorityInv => AuthorityOnlyOnCreated
  BY AuthorityAccepted
<1> QED
  BY <1>1, <1>2, <1>3, PTL DEF Spec
=============================================================================
