-------------------------- MODULE RouteTableProofs --------------------------
(***************************************************************************)
(* What the operations of Routing and RouteTable return, for all inputs.   *)
(***************************************************************************)
EXTENDS RouteTable, SequenceTheorems, TLAPS

\* ComputeTQ is a transmit quality: EQ/RQ never leaves [0, 1].
LEMMA ComputeTQType ==
  ASSUME NEW eq \in Nat, NEW rq \in Nat
  PROVE  ComputeTQ(eq, rq) \in 0..Scale
  BY DEF ComputeTQ, Scale

\* PathTQ degrades one transmit quality by another to a transmit quality.
LEMMA PathTQType ==
  ASSUME NEW linkTQ \in 0..Scale, NEW viaTQ \in 0..Scale
  PROVE  PathTQ(linkTQ, viaTQ) \in 0..Scale
<1>1. linkTQ * viaTQ \in Nat
  BY DEF Scale
<1>2. \A x \in Nat : x \div Scale \in Nat
  BY DEF Scale
<1> QED
  <2>1. (linkTQ * viaTQ) \div Scale \in Nat
    BY <1>1, <1>2
  <2>2. \A v \in Nat : (IF v > Scale THEN Scale ELSE v) \in 0..Scale
    BY DEF Scale
  <2> QED
    BY <2>1, <2>2 DEF PathTQ

\* The cost of a route is an integer.
LEMMA CostType ==
  ASSUME NEW N, NEW r \in Route(N)
  PROVE  Cost(r) \in Int
<1>1. r.hopCount \in Int /\ r.latencyMs \in Int /\ r.tq \in Int
  BY DEF Route
<1>2. \A x, y, z \in Int : 10 * Scale * x + (Scale \div 20) * y + 40 * (Scale - z) \in Int
  BY DEF Scale
<1> QED
  BY <1>1, <1>2 DEF Cost

\* Better prefers no route to itself and never prefers two routes to each
\* other: two hops of equal merit cannot make a hub flap between them.
THEOREM BetterAsymmetric ==
  ASSUME NEW N, NEW r \in Route(N), NEW s \in Route(N)
  PROVE  /\ ~Better(r, r)
         /\ Better(r, s) => ~Better(s, r)
<1>1. /\ Cost(r) \in Int
      /\ Cost(s) \in Int
  BY CostType
<1>2. /\ r.tq \in Int /\ s.tq \in Int
      /\ r.hopCount \in Int /\ s.hopCount \in Int
  BY DEF Route
<1>3. Tolerance \in Int /\ Tolerance >= 0
  BY DEF Tolerance, Scale
<1> QED
  BY <1>1, <1>2, <1>3 DEF Better

\* The metric in units of a two-hundredth of a millisecond's cost: every cost is a
\* multiple of 20, twice the comparison tolerance.
Units(r) == 5000 * r.hopCount + 25 * r.latencyMs + 2 * (Scale - r.tq)

\* Better orders routes by cost, then by transmit quality, then by hops: at the
\* resolution of the fixed-point metric two costs within the tolerance are equal.
LEMMA BetterIsLexicographic ==
  ASSUME NEW N, NEW r \in Route(N), NEW s \in Route(N)
  PROVE  /\ Units(r) \in Int /\ Units(s) \in Int
         /\ Better(r, s) <=>
              \/ Units(r) < Units(s)
              \/ Units(r) = Units(s) /\ r.tq > s.tq
              \/ Units(r) = Units(s) /\ r.tq = s.tq /\ r.hopCount < s.hopCount
<1>1. /\ r.tq \in Int /\ s.tq \in Int
      /\ r.hopCount \in Int /\ s.hopCount \in Int
      /\ r.latencyMs \in Int /\ s.latencyMs \in Int
  BY DEF Route
<1>2. Units(r) \in Int /\ Units(s) \in Int
  BY <1>1 DEF Units, Scale
<1>3. Scale = 10000 /\ Scale \div 20 = 500 /\ Tolerance = 10
  BY DEF Scale, Tolerance
<1>4. Cost(r) = 20 * Units(r) /\ Cost(s) = 20 * Units(s)
  BY <1>1, <1>3 DEF Cost, Units
<1> QED
  BY <1>1, <1>2, <1>3, <1>4 DEF Better

\* Better is transitive: a chain of improvements improves on its start.
THEOREM BetterTransitive ==
  ASSUME NEW N, NEW r \in Route(N), NEW s \in Route(N), NEW t \in Route(N),
         Better(r, s), Better(s, t)
  PROVE  Better(r, t)
<1>1. /\ r.tq \in Int /\ s.tq \in Int /\ t.tq \in Int
      /\ r.hopCount \in Int /\ s.hopCount \in Int /\ t.hopCount \in Int
  BY DEF Route
<1>2. /\ Units(r) \in Int /\ Units(s) \in Int /\ Units(t) \in Int
      /\ \/ Units(r) < Units(s)
         \/ Units(r) = Units(s) /\ r.tq > s.tq
         \/ Units(r) = Units(s) /\ r.tq = s.tq /\ r.hopCount < s.hopCount
      /\ \/ Units(s) < Units(t)
         \/ Units(s) = Units(t) /\ s.tq > t.tq
         \/ Units(s) = Units(t) /\ s.tq = t.tq /\ s.hopCount < t.hopCount
  BY BetterIsLexicographic
<1>3. \/ Units(r) < Units(t)
      \/ Units(r) = Units(t) /\ r.tq > t.tq
      \/ Units(r) = Units(t) /\ r.tq = t.tq /\ r.hopCount < t.hopCount
  BY <1>1, <1>2
<1> QED
  BY <1>3, BetterIsLexicographic

---------------------------------------------------------------------------
\* The table after a candidate holds nothing but old routes and the candidate.
LEMMA TableAfterCandidateSubset ==
  ASSUME NEW table, NEW candidate
  PROVE  TableAfterCandidate(table, candidate) \subseteq table \cup {candidate}
  BY DEF TableAfterCandidate, UpsertRoute

\* StoreAlternate keeps a sequence of routes, adds at most the new one, never
\* more than MaxAlternates of them, and never two with one next hop.
LEMMA StoreAlternateProperties ==
  ASSUME NEW S, NEW alts \in Seq(S), NEW route \in S
  PROVE  /\ StoreAlternate(alts, route) \in Seq(S)
         /\ Range(StoreAlternate(alts, route)) \subseteq Range(alts) \cup {route}
         /\ Len(alts) <= MaxAlternates => Len(StoreAlternate(alts, route)) <= MaxAlternates
         /\ DistinctHops(alts) => DistinctHops(StoreAlternate(alts, route))
<1>1. CASE \E i \in DOMAIN alts : alts[i].nextHop = route.nextHop
  BY <1>1 DEF StoreAlternate
<1>2. CASE ~\E i \in DOMAIN alts : alts[i].nextHop = route.nextHop
  <2> DEFINE longer == Append(alts, route)
  <2>1. /\ longer \in Seq(S)
        /\ longer # << >>
        /\ Len(longer) = Len(alts) + 1
        /\ \A i \in 1..Len(alts) : longer[i] = alts[i]
        /\ longer[Len(alts) + 1] = route
    BY AppendProperties
  <2>2. /\ Len(alts) \in Nat
        /\ DOMAIN alts = 1..Len(alts)
        /\ DOMAIN longer = 1..Len(longer)
    BY <2>1, LenProperties
  <2> HIDE DEF longer
  <2>3. Range(longer) \subseteq Range(alts) \cup {route}
    BY <2>1, <2>2 DEF Range
  <2>4. DistinctHops(alts) => DistinctHops(longer)
    BY <1>2, <2>1, <2>2 DEF DistinctHops
  <2>5. /\ Tail(longer) \in Seq(S)
        /\ Len(Tail(longer)) = Len(longer) - 1
        /\ DOMAIN Tail(longer) = 1..(Len(longer) - 1)
        /\ \A i \in 1..(Len(longer) - 1) : Tail(longer)[i] = longer[i + 1]
    BY <2>1, HeadTailProperties, LenProperties
  <2>6. Range(Tail(longer)) \subseteq Range(longer)
    BY <2>1, <2>2, <2>5 DEF Range
  <2>7. DistinctHops(longer) => DistinctHops(Tail(longer))
    BY <2>1, <2>2, <2>5 DEF DistinctHops
  <2>8. StoreAlternate(alts, route) = IF Len(longer) > MaxAlternates THEN Tail(longer) ELSE longer
    BY <1>2 DEF StoreAlternate, longer
  <2> QED
    BY <2>1, <2>2, <2>3, <2>4, <2>5, <2>6, <2>7, <2>8 DEF MaxAlternates
<1> QED
  BY <1>1, <1>2

\* DropVia keeps a sequence of the alternates it was given, no longer and with
\* next hops as distinct as before, and leaves none via n.
LEMMA DropViaProperties ==
  ASSUME NEW S, NEW alts \in Seq(S), NEW n
  PROVE  /\ DropVia(alts, n) \in Seq(S)
         /\ Range(DropVia(alts, n)) \subseteq Range(alts)
         /\ Len(DropVia(alts, n)) <= Len(alts)
         /\ DistinctHops(alts) =>
              /\ DistinctHops(DropVia(alts, n))
              /\ \A r \in Range(DropVia(alts, n)) : r.nextHop # n
<1>1. CASE \E i \in DOMAIN alts : alts[i].nextHop = n
  <2> DEFINE k == CHOOSE j \in DOMAIN alts : alts[j].nextHop = n
             rest == DropVia(alts, n)
  <2>1. Len(alts) \in Nat /\ DOMAIN alts = 1..Len(alts)
    BY LenProperties
  <2>2. k \in 1..Len(alts) /\ alts[k].nextHop = n
    BY <1>1, <2>1
  <2>3. \A i \in 1..Len(alts) : alts[i] \in S
    BY ElementOfSeq
  <2>4. rest = [j \in 1..(Len(alts) - 1) |-> IF j < k THEN alts[j] ELSE alts[j + 1]]
    BY <1>1 DEF DropVia
  <2> HIDE DEF k
  <2>5. Len(alts) - 1 \in Nat /\ \A i \in 1..(Len(alts) - 1) : rest[i] \in S
    BY <2>1, <2>2, <2>3, <2>4
  <2>6. rest \in Seq(S) /\ Len(rest) = Len(alts) - 1
    BY <2>4, <2>5, IsASeq, LenProperties
  <2>7. /\ DOMAIN rest = 1..(Len(alts) - 1)
        /\ \A i \in DOMAIN rest : rest[i] = IF i < k THEN alts[i] ELSE alts[i + 1]
    BY <2>4
  <2> HIDE DEF rest
  <2>8. Range(rest) \subseteq Range(alts)
    BY <2>1, <2>2, <2>7 DEF Range
  <2>9. ASSUME DistinctHops(alts)
        PROVE  DistinctHops(rest) /\ \A r \in Range(rest) : r.nextHop # n
    <3>1. \A i, j \in 1..Len(alts) : alts[i].nextHop = alts[j].nextHop => i = j
      BY <2>1, <2>9 DEF DistinctHops
    <3>2. \A i, j \in DOMAIN rest : rest[i].nextHop = rest[j].nextHop => i = j
      BY <2>1, <2>2, <2>7, <3>1
    <3>3. \A i \in DOMAIN rest : rest[i].nextHop # n
      BY <2>1, <2>2, <2>7, <3>1
    <3> QED
      BY <3>2, <3>3 DEF DistinctHops, Range
  <2> QED
    BY <2>1, <2>6, <2>8, <2>9 DEF rest
<1>2. CASE ~\E i \in DOMAIN alts : alts[i].nextHop = n
  <2>1. DropVia(alts, n) = alts /\ Len(alts) \in Nat
    BY <1>2, LenProperties DEF DropVia
  <2> QED
    BY <1>2, <2>1 DEF Range
<1> QED
  BY <1>1, <1>2

\* The alternates of all destinations have a bounded length and distinct hops.
Bounded(alternates) ==
    \A d \in DOMAIN alternates :
        Len(alternates[d]) <= MaxAlternates /\ DistinctHops(alternates[d])

\* What AlternatesAfterCandidate is applied to: alternates for the destinations D,
\* and a table and a candidate of routes in S.
CandidateInput(D, S, alternates, table, candidate) ==
    /\ alternates \in [D -> Seq(S)]
    /\ table \subseteq S
    /\ candidate \in S /\ candidate.dest \in D

\* After a candidate, a destination's alternates are old ones, its route in the
\* table or the candidate, within the same bounds.
LEMMA AlternatesAfterCandidateProperties ==
  ASSUME NEW D, NEW S, NEW alternates, NEW table, NEW candidate,
         CandidateInput(D, S, alternates, table, candidate)
  PROVE  LET after == AlternatesAfterCandidate(alternates, table, candidate) IN
         /\ after \in [D -> Seq(S)]
         /\ \A d \in D : \A r \in Range(after[d]) :
              r \in Range(alternates[d]) \/ (r.dest = d /\ r \in table \cup {candidate})
         /\ Bounded(alternates) => Bounded(after)
<1> DEFINE after == AlternatesAfterCandidate(alternates, table, candidate)
           e == candidate.dest
           current == GetRoute(table, e)
           x == IF Accepts(table, candidate) THEN CHOOSE r \in current : TRUE ELSE candidate
<1>0. alternates \in [D -> Seq(S)] /\ table \subseteq S /\ candidate \in S /\ e \in D
  BY DEF CandidateInput
<1>1. CASE current = {}
  BY <1>0, <1>1 DEF AlternatesAfterCandidate
<1>2. CASE current # {}
  <2>1. after = [alternates EXCEPT ![e] = StoreAlternate(@, x)]
    BY <1>2 DEF AlternatesAfterCandidate
  <2>2. x \in table \cup {candidate} /\ x.dest = e /\ x \in S
    BY <1>0, <1>2 DEF GetRoute
  <2>3. alternates[e] \in Seq(S)
    BY <1>0
  <2> HIDE DEF x
  <2>4. /\ StoreAlternate(alternates[e], x) \in Seq(S)
        /\ Range(StoreAlternate(alternates[e], x)) \subseteq Range(alternates[e]) \cup {x}
        /\ Len(alternates[e]) <= MaxAlternates
             => Len(StoreAlternate(alternates[e], x)) <= MaxAlternates
        /\ DistinctHops(alternates[e]) => DistinctHops(StoreAlternate(alternates[e], x))
    BY <2>2, <2>3, StoreAlternateProperties
  <2>5. /\ after \in [D -> Seq(S)]
        /\ after[e] = StoreAlternate(alternates[e], x)
        /\ \A d \in D : d # e => after[d] = alternates[d]
    BY <1>0, <2>1, <2>4
  <2> HIDE DEF after, e
  <2>6. \A d \in D : \A r \in Range(after[d]) :
          r \in Range(alternates[d]) \/ (r.dest = d /\ r \in table \cup {candidate})
    BY <2>2, <2>4, <2>5
  <2>7. Bounded(alternates) => Bounded(after)
    BY <1>0, <2>4, <2>5 DEF Bounded
  <2> QED
    BY <2>5, <2>6, <2>7 DEF after
<1> QED
  BY <1>1, <1>2

\* A table has at most one route per destination, and an alternate is kept only
\* for a destination that has a route, which it does not beat.
BestInTable(alternates, table) ==
    /\ \A r, s \in table : r.dest = s.dest => r = s
    /\ \A d \in DOMAIN alternates : \A a \in Range(alternates[d]) :
          \E r \in table : r.dest = d /\ ~Better(a, r)

\* maybeUpsertRoute keeps the best route in the table: the loser of the comparison
\* is the one that becomes an alternate, and what lost to the old route loses to
\* the better one that replaces it.
LEMMA CandidateKeepsBest ==
  ASSUME NEW D, NEW N, NEW alternates, NEW table, NEW candidate,
         CandidateInput(D, Route(N), alternates, table, candidate),
         BestInTable(alternates, table)
  PROVE  BestInTable(AlternatesAfterCandidate(alternates, table, candidate),
                     TableAfterCandidate(table, candidate))
<1> DEFINE after == AlternatesAfterCandidate(alternates, table, candidate)
           e == candidate.dest
           current == GetRoute(table, e)
           newTable == TableAfterCandidate(table, candidate)
           S == Route(N)
<1>0. alternates \in [D -> Seq(S)] /\ table \subseteq S /\ candidate \in S /\ e \in D
  BY DEF CandidateInput
<1>1. \A r, s \in newTable : r.dest = s.dest => r = s
  BY DEF BestInTable, TableAfterCandidate, UpsertRoute
<1>2. \A d \in D : \A a \in Range(alternates[d]) : a \in S
  <2> SUFFICES ASSUME NEW d \in D PROVE \A a \in Range(alternates[d]) : a \in S
    OBVIOUS
  <2>1. alternates[d] \in Seq(S)
    BY <1>0
  <2> QED
    BY <2>1, ElementOfSeq, LenProperties DEF Range
<1>3. \A d \in D : \A a \in Range(alternates[d]) : \E r \in newTable : r.dest = d /\ ~Better(a, r)
  <2> SUFFICES ASSUME NEW d \in D, NEW a \in Range(alternates[d])
               PROVE  \E r \in newTable : r.dest = d /\ ~Better(a, r)
    OBVIOUS
  <2>1. PICK r \in table : r.dest = d /\ ~Better(a, r)
    BY <1>0 DEF BestInTable
  <2>2. CASE r \in newTable
    BY <2>1, <2>2
  <2>3. CASE r \notin newTable
    <3>1. d = e /\ candidate \in newTable /\ Better(candidate, r)
      BY <2>1, <2>3 DEF TableAfterCandidate, UpsertRoute, Accepts, GetRoute
    <3>2. a \in S /\ r \in S
      BY <1>0, <1>2, <2>1
    <3>3. ~Better(a, candidate)
      BY <1>0, <2>1, <3>1, <3>2, BetterTransitive
    <3> QED
      BY <3>1, <3>3
  <2> QED
    BY <2>2, <2>3
<1>4. CASE current = {}
  <2>1. after = alternates
    BY <1>4 DEF AlternatesAfterCandidate
  <2> QED
    BY <1>0, <1>1, <1>3, <2>1 DEF BestInTable
<1>5. CASE current # {}
  <2> DEFINE x == IF Accepts(table, candidate) THEN CHOOSE r \in current : TRUE ELSE candidate
  <2>1. after = [alternates EXCEPT ![e] = StoreAlternate(@, x)]
    BY <1>5 DEF AlternatesAfterCandidate
  <2>2. x \in S /\ \E r \in newTable : r.dest = e /\ ~Better(x, r)
    <3>1. CASE Accepts(table, candidate)
      <4>1. x \in table /\ x.dest = e
        BY <1>5, <3>1 DEF GetRoute
      <4>2. Better(candidate, x) /\ candidate \in newTable /\ x \in S
        BY <1>0, <3>1, <4>1 DEF Accepts, GetRoute, TableAfterCandidate, UpsertRoute
      <4>3. ~Better(x, candidate)
        BY <1>0, <4>2, BetterAsymmetric
      <4> QED
        BY <4>2, <4>3
    <3>2. CASE ~Accepts(table, candidate)
      <4>1. x = candidate /\ newTable = table
        BY <3>2 DEF TableAfterCandidate
      <4>2. PICK r \in table : r.dest = e /\ ~Better(candidate, r)
        BY <3>2 DEF Accepts, GetRoute
      <4> QED
        BY <1>0, <4>1, <4>2
    <3> QED
      BY <3>1, <3>2
  <2>3. alternates[e] \in Seq(S)
    BY <1>0
  <2> HIDE DEF x
  <2>4. /\ StoreAlternate(alternates[e], x) \in Seq(S)
        /\ Range(StoreAlternate(alternates[e], x)) \subseteq Range(alternates[e]) \cup {x}
    BY <2>2, <2>3, StoreAlternateProperties
  <2>5. /\ DOMAIN after = D
        /\ after[e] = StoreAlternate(alternates[e], x)
        /\ \A d \in D : d # e => after[d] = alternates[d]
    BY <1>0, <2>1
  <2> HIDE DEF after, e, newTable
  <2>6. \A d \in D : \A a \in Range(after[d]) : a \in Range(alternates[d]) \/ (d = e /\ a = x)
    BY <2>4, <2>5
  <2>7. \A d \in D : \A a \in Range(after[d]) : \E r \in newTable : r.dest = d /\ ~Better(a, r)
    BY <1>3, <2>2, <2>6
  <2> QED
    BY <1>1, <2>5, <2>7 DEF BestInTable, after, newTable
<1> QED
  BY <1>4, <1>5

\* Failover makes no route up: it only drops alternates, and fills the table
\* from the table and the alternates.
LEMMA FailoverProperties ==
  ASSUME NEW D, NEW S, NEW alternates \in [D -> Seq(S)], NEW table, NEW stale
  PROVE  LET after == AlternatesAfterFailover(alternates, stale) IN
         /\ after \in [D -> Seq(S)]
         /\ \A d \in D : Range(after[d]) \subseteq Range(alternates[d])
         /\ Bounded(alternates) => Bounded(after)
         /\ TableAfterFailover(table, alternates, stale)
              \subseteq table \cup UNION {Range(alternates[d]) : d \in D}
<1> DEFINE after == AlternatesAfterFailover(alternates, stale)
<1>1. \A d \in D :
        /\ DropVia(alternates[d], stale) \in Seq(S)
        /\ Range(DropVia(alternates[d], stale)) \subseteq Range(alternates[d])
        /\ Len(DropVia(alternates[d], stale)) <= Len(alternates[d])
        /\ DistinctHops(alternates[d]) => DistinctHops(DropVia(alternates[d], stale))
  BY DropViaProperties
<1>2. after = [d \in D |-> DropVia(alternates[d], stale)]
  BY DEF AlternatesAfterFailover
<1>3. after \in [D -> Seq(S)] /\ \A d \in D : Range(after[d]) \subseteq Range(alternates[d])
  BY <1>1, <1>2
<1>4. Bounded(alternates) => Bounded(after)
  <2>1. \A d \in D : Len(alternates[d]) \in Nat /\ Len(DropVia(alternates[d], stale)) \in Nat
    BY <1>1, LenProperties
  <2> QED
    BY <1>1, <1>2, <2>1 DEF Bounded, MaxAlternates
<1>5. Promoted(alternates, stale) \subseteq UNION {Range(alternates[d]) : d \in D}
  <2> SUFFICES ASSUME NEW d \in D, DropVia(alternates[d], stale) # << >>
               PROVE  Head(DropVia(alternates[d], stale)) \in Range(alternates[d])
    BY DEF Promoted
  <2> DEFINE rest == DropVia(alternates[d], stale)
  <2>1. rest \in Seq(S) /\ rest # << >> /\ Range(rest) \subseteq Range(alternates[d])
    BY <1>1
  <2> HIDE DEF rest
  <2>2. Head(rest) = rest[1] /\ 1 \in DOMAIN rest
    BY <2>1
  <2> QED
    BY <2>1, <2>2 DEF Range, rest
<1>6. TableAfterFailover(table, alternates, stale) \subseteq table \cup Promoted(alternates, stale)
  BY DEF TableAfterFailover, DeleteRoutesViaNextHop
<1> QED
  BY <1>3, <1>4, <1>5, <1>6
=============================================================================
