--------------------------- MODULE OgmMeshProofs ---------------------------
(***************************************************************************)
(* Theorems about OgmMesh for every set of hubs, every topology, every hop *)
(* budget and all bounds.  The inductive invariant relates three places    *)
(* where a claim about the topology is held: packets under way, routes and *)
(* alternates.                                                             *)
(***************************************************************************)
EXTENDS OgmMesh, RouteTableProofs, FiniteSetTheorems

\* A datagram tells the truth about the path of its message: it was sent over
\* a link, names its sender as the last hop once it was relayed, has travelled
\* at least the distance of its sender from its origin, and its sender has the
\* origin in its registry.
DatagramTruthful(g) ==
    LET m == g.msg IN
    /\ <<g.from, g.to>> \in Links
    /\ m.hop = 0 => m.lastHop = None /\ g.from = m.origin
    /\ m.hop # 0 => /\ m.lastHop = g.from
                    /\ g.from # m.origin
                    /\ status[g.from][m.origin] # "unknown"
    /\ Dist[m.origin][g.from] <= m.hop
    /\ m.hop + m.ttl <= TTL
    /\ m.flood # "hello" => m.hop + m.ttl = TTL
    /\ m.flood = "hello" => m.ttl = 0

\* A route is truthful and its next hop knows the destination.
RouteSound(h, r) ==
    /\ RouteTruthful(h, r)
    /\ r.nextHop # r.dest => status[r.nextHop][r.dest] # "unknown"

NetTruthful == \A g \in net : DatagramTruthful(g)

TablesSound == \A h \in Hubs : \A r \in routes[h] : RouteSound(h, r)

AlternatesSound ==
    \A h, d \in Hubs : \A r \in Range(alternates[h][d]) : r.dest = d /\ RouteSound(h, r)

AlternatesBounded ==
    \A h, d \in Hubs : Len(alternates[h][d]) <= MaxAlternates /\ DistinctHops(alternates[h][d])

\* The inductive invariant.
IInv ==
    /\ TypeOK
    /\ NetTruthful
    /\ TablesSound
    /\ AlternatesSound
    /\ AlternatesBounded

---------------------------------------------------------------------------
\* floodOgm sends the message itself, over the sender's links.
LEMMA FloodOgmProperties ==
  ASSUME NEW h \in Hubs, NEW m \in Ogm, NEW except
  PROVE  \A g \in FloodOgm(h, m, except) :
            /\ g \in Datagram
            /\ g.from = h /\ g.msg = m
            /\ <<g.from, g.to>> \in Links
<1> SUFFICES ASSUME NEW g \in FloodOgm(h, m, except)
             PROVE  /\ g \in Datagram
                    /\ g.from = h /\ g.msg = m
                    /\ <<g.from, g.to>> \in Links
  OBVIOUS
<1>1. PICK p \in Peers(h) : g = [from |-> h, to |-> p, msg |-> m]
  BY Zenon DEF FloodOgm
<1> QED
  BY <1>1 DEF Datagram, Peers

\* A hub's own OGMs and hellos are truthful.
LEMMA OwnDatagramsTruthful ==
  ASSUME NEW h \in Hubs, NEW n \in Nat
  PROVE  /\ \A g \in FloodOgm(h, OwnOgm(h, n), None) : g \in Datagram /\ DatagramTruthful(g)
         /\ \A g \in FloodOgm(h, HelloAsOgm(h, n), None) : g \in Datagram /\ DatagramTruthful(g)
<1>1. OwnOgm(h, n) \in Ogm /\ HelloAsOgm(h, n) \in Ogm
  BY BoundAssumption DEF OwnOgm, HelloAsOgm, Ogm
<1>2. Dist[h][h] = 0
  BY DistAssumption
<1>3. \A g \in FloodOgm(h, OwnOgm(h, n), None) : g \in Datagram /\ DatagramTruthful(g)
  <2> SUFFICES ASSUME NEW g \in FloodOgm(h, OwnOgm(h, n), None)
               PROVE  g \in Datagram /\ DatagramTruthful(g)
    OBVIOUS
  <2>1. /\ g \in Datagram
        /\ g.from = h /\ g.msg = OwnOgm(h, n)
        /\ <<g.from, g.to>> \in Links
    BY <1>1, FloodOgmProperties
  <2> QED
    BY <1>2, <2>1, BoundAssumption DEF OwnOgm, DatagramTruthful
<1>4. \A g \in FloodOgm(h, HelloAsOgm(h, n), None) : g \in Datagram /\ DatagramTruthful(g)
  <2> SUFFICES ASSUME NEW g \in FloodOgm(h, HelloAsOgm(h, n), None)
               PROVE  g \in Datagram /\ DatagramTruthful(g)
    OBVIOUS
  <2>1. /\ g \in Datagram
        /\ g.from = h /\ g.msg = HelloAsOgm(h, n)
        /\ <<g.from, g.to>> \in Links
    BY <1>1, FloodOgmProperties
  <2> QED
    BY <1>2, <2>1, BoundAssumption DEF HelloAsOgm, DatagramTruthful
<1> QED
  BY <1>3, <1>4

\* The forwarder that a truthful datagram names is its sender.
LEMMA ForwarderIsSender ==
  ASSUME NEW g \in Datagram, DatagramTruthful(g)
  PROVE  Forwarder(g.msg) = g.from
  BY TopologyAssumption DEF Forwarder, DatagramTruthful, Datagram, Ogm

\* The route that a truthful datagram offers is a sound route.
LEMMA CandidateSound ==
  ASSUME TypeOK, NEW g \in net, g.msg.origin # g.to, DatagramTruthful(g)
  PROVE  /\ Candidate(g.to, g.msg) \in Route(Hubs)
         /\ Candidate(g.to, g.msg).dest = g.msg.origin
         /\ RouteSound(g.to, Candidate(g.to, g.msg))
<1> DEFINE h == g.to
           m == g.msg
           f == Forwarder(m)
           c == Candidate(h, m)
<1>1. /\ g \in Datagram
      /\ h \in Hubs /\ g.from \in Hubs
      /\ m.origin \in Hubs /\ m.hop \in Nat /\ m.ttl \in Nat
  BY DEF TypeOK, Datagram, Ogm
<1>2. f = g.from
  BY <1>1, ForwarderIsSender
<1>3. c.tq \in 0..Scale
  <2>1. linkEQ[h][f] \in Nat /\ linkRQ[h][f] + 1 \in Nat
    <3>1. linkEQ \in [Hubs -> [Hubs -> Nat]] /\ linkRQ \in [Hubs -> [Hubs -> Nat]]
      BY DEF TypeOK
    <3> HIDE DEF h, f
    <3> QED
      BY <1>1, <1>2, <3>1
  <2>2. ComputeTQ(linkEQ[h][f], linkRQ[h][f] + 1) \in 0..Scale
    BY <2>1, ComputeTQType
  <2>3. (85 * Scale) \div 100 \in 0..Scale
    BY DEF Scale
  <2>4. PathTQ(ComputeTQ(linkEQ[h][f], linkRQ[h][f] + 1), (85 * Scale) \div 100) \in 0..Scale
    BY <2>2, <2>3, PathTQType
  <2> QED
    BY <2>2, <2>4 DEF Candidate
<1>4. /\ c = [dest |-> m.origin, nextHop |-> f, tq |-> c.tq, latencyMs |-> 0, hopCount |-> m.hop + 1]
      /\ c.dest = m.origin /\ c.nextHop = f /\ c.hopCount = m.hop + 1
  BY DEF Candidate
<1>5. c \in Route(Hubs)
  <2> HIDE DEF h, m, f, c
  <2> QED
    BY <1>1, <1>2, <1>3, <1>4 DEF Route
<1>6. /\ <<g.from, h>> \in Links
      /\ Dist[m.origin][g.from] <= m.hop
      /\ m.hop <= TTL
      /\ m.hop = 0 <=> g.from = m.origin
      /\ m.hop # 0 => status[g.from][m.origin] # "unknown"
  BY <1>1, BoundAssumption DEF DatagramTruthful
<1>7. RouteSound(h, c)
  <2>1. h # m.origin
    OBVIOUS
  <2>2. Dist[m.origin][g.from] \in Nat
    BY <1>1, DistAssumption
  <2> HIDE DEF h, m, f, c
  <2> QED
    BY <1>1, <1>2, <1>4, <1>6, <2>1, <2>2, BoundAssumption DEF RouteSound, RouteTruthful
<1> QED
  BY <1>4, <1>5, <1>7

\* What a hub sends on tells the truth: everything DatagramTruthful asks for
\* but the relaying hub's registry entry, which the same step writes.
LEMMA CopiesTruthful ==
  ASSUME TypeOK, NEW g \in net, g.msg.origin # g.to, DatagramTruthful(g)
  PROVE  \A q \in Copies(g.to, g) :
            /\ q \in Datagram
            /\ <<q.from, q.to>> \in Links
            /\ q.from = g.to /\ q.msg.origin = g.msg.origin
            /\ q.msg.hop \in Nat \ {0} /\ q.msg.lastHop = q.from
            /\ Dist[q.msg.origin][q.from] <= q.msg.hop
            /\ q.msg.hop + q.msg.ttl = TTL
            /\ q.msg.flood # "hello"
<1> DEFINE h == g.to
           m == g.msg
<1>1. /\ h \in Hubs /\ g.from \in Hubs /\ m \in Ogm
      /\ m.origin \in Hubs /\ m.seq \in Nat /\ m.hop \in Nat /\ m.ttl \in Nat
  BY DEF TypeOK, Datagram, Ogm
<1>2. /\ <<g.from, h>> \in Links
      /\ Dist[m.origin][g.from] <= m.hop
      /\ m.ttl > 0 => m.hop + m.ttl = TTL
  BY <1>1 DEF DatagramTruthful
<1>3. Dist[m.origin][h] <= m.hop + 1
  <2>1. Dist[m.origin][h] <= Dist[m.origin][g.from] + 1
    BY <1>1, <1>2, DistAssumption
  <2>2. Dist[m.origin][h] \in Nat /\ Dist[m.origin][g.from] \in Nat
    BY <1>1, DistAssumption
  <2> HIDE DEF h, m
  <2> QED
    BY <1>1, <1>2, <2>1, <2>2
<1>4. ASSUME m.ttl > 0, NEW flood \in {"startup", "relay"}, NEW q \in FloodOgm(h, Relayed(h, m, flood), g.from)
      PROVE  /\ q \in Datagram
             /\ <<q.from, q.to>> \in Links
             /\ q.from = h /\ q.msg.origin = m.origin
             /\ q.msg.hop \in Nat \ {0} /\ q.msg.lastHop = q.from
             /\ Dist[q.msg.origin][q.from] <= q.msg.hop
             /\ q.msg.hop + q.msg.ttl = TTL
             /\ q.msg.flood # "hello"
  <2> HIDE DEF h, m
  <2>1. Relayed(h, m, flood) \in Ogm
    BY <1>1, <1>4 DEF Relayed, Ogm
  <2>2. /\ q \in Datagram /\ q.from = h /\ q.msg = Relayed(h, m, flood)
        /\ <<q.from, q.to>> \in Links
    BY <1>1, <2>1, FloodOgmProperties
  <2>3. /\ q.msg.origin = m.origin /\ q.msg.hop = m.hop + 1 /\ q.msg.ttl = m.ttl - 1
        /\ q.msg.lastHop = h /\ q.msg.flood = flood
    BY <2>2 DEF Relayed
  <2> QED
    BY <1>1, <1>2, <1>3, <1>4, <2>2, <2>3
<1> QED
  BY <1>4, Zenon DEF Copies, Announces, Relays

---------------------------------------------------------------------------
\* Drawing on a budget keeps the budgets numbers.
LEMMA SpentType ==
  ASSUME TypeOK, NEW x \in Budgets, spent' = [spent EXCEPT ![x] = @ + 1]
  PROVE  spent' \in [Budgets -> Nat]
<1>1. spent \in [Budgets -> Nat]
  BY DEF TypeOK
<1> QED
  BY <1>1

\* Every step keeps the types.
LEMMA TypeStep ==
  ASSUME IInv, [Next]_vars
  PROVE  TypeOK'
<1> USE DEF IInv
<1>0. /\ \A h \in Hubs : seq[h] + 1 \in Nat /\ spent["hello"] + 1 \in Nat
      /\ Zero \in [Hubs -> Nat]
      /\ NoAlternates \in [Hubs -> Seq(Route(Hubs))]
  BY BoundAssumption DEF TypeOK, Budgets, Zero, NoAlternates
<1>1. ASSUME NEW h \in Hubs, BroadcastOnce(h) PROVE TypeOK'
  <2>1. seq' \in [Hubs -> Nat]
    BY <1>1, <1>0 DEF BroadcastOnce, TypeOK
  <2>2. net' \in SUBSET Datagram
    BY <1>1, <1>0, OwnDatagramsTruthful DEF BroadcastOnce, TypeOK
  <2> QED
    BY <1>1, <2>1, <2>2 DEF BroadcastOnce, TypeOK, database
<1>2. ASSUME NEW h \in Hubs, SendHellos(h) PROVE TypeOK'
  <2>1. net' \in SUBSET Datagram
    BY <1>2, <1>0, OwnDatagramsTruthful DEF SendHellos, TypeOK
  <2>2. spent' \in [Budgets -> Nat]
    BY <1>2, SpentType DEF SendHellos, Budgets
  <2> QED
    BY <1>2, <2>1, <2>2 DEF SendHellos, TypeOK, database, memory
<1>3. ASSUME NEW h \in Hubs, StaleProbe(h) PROVE TypeOK'
  <2>1. seq' \in [Hubs -> Nat]
    BY <1>3, <1>0 DEF StaleProbe, TypeOK
  <2>2. net' \in SUBSET Datagram
    BY <1>3, <1>0, OwnDatagramsTruthful DEF StaleProbe, TypeOK
  <2>3. spent' \in [Budgets -> Nat]
    BY <1>3, SpentType DEF StaleProbe, Budgets
  <2> QED
    BY <1>3, <2>1, <2>2, <2>3 DEF StaleProbe, TypeOK, database
<1>4. ASSUME NEW h \in Hubs, Restart(h) PROVE TypeOK'
  <2>1. /\ seq' \in [Hubs -> Nat]
        /\ lastSeq' \in [Hubs -> [Hubs -> Nat]]
        /\ rebroadcasted' \in [Hubs -> [Hubs -> Nat]]
        /\ linkRQ' \in [Hubs -> [Hubs -> Nat]]
        /\ linkEQ' \in [Hubs -> [Hubs -> Nat]]
    BY <1>4, <1>0 DEF Restart, TypeOK
  <2>2. alternates' \in [Hubs -> [Hubs -> Seq(Route(Hubs))]]
    BY <1>4, <1>0 DEF Restart, TypeOK
  <2>3. spent' \in [Budgets -> Nat]
    BY <1>4, SpentType DEF Restart, Budgets
  <2> QED
    BY <1>4, <2>1, <2>2, <2>3 DEF Restart, TypeOK, database
<1>5. ASSUME NEW h \in Hubs, NEW o \in Hubs, StaleSweep(h, o) PROVE TypeOK'
  <2>1. status' \in [Hubs -> [Hubs -> Status]]
    BY <1>5 DEF StaleSweep, TypeOK, Status
  <2>2. alternates[h] \in [Hubs -> Seq(Route(Hubs))]
    BY DEF TypeOK
  <2>3. /\ AlternatesAfterFailover(alternates[h], o) \in [Hubs -> Seq(Route(Hubs))]
        /\ TableAfterFailover(routes[h], alternates[h], o)
              \subseteq routes[h] \cup UNION {Range(alternates[h][d]) : d \in Hubs}
    BY <2>2, FailoverProperties
  <2>4. \A d \in Hubs : Range(alternates[h][d]) \subseteq Route(Hubs)
    <3> SUFFICES ASSUME NEW d \in Hubs PROVE Range(alternates[h][d]) \subseteq Route(Hubs)
      OBVIOUS
    <3>1. alternates[h][d] \in Seq(Route(Hubs))
      BY <2>2
    <3> QED
      BY <3>1, ElementOfSeq, LenProperties DEF Range
  <2>5. TableAfterFailover(routes[h], alternates[h], o) \in SUBSET Route(Hubs)
    BY <2>3, <2>4 DEF TypeOK
  <2>6. routes' \in [Hubs -> SUBSET Route(Hubs)]
    BY <1>5, <2>5 DEF StaleSweep, TypeOK
  <2>7. alternates' \in [Hubs -> [Hubs -> Seq(Route(Hubs))]]
    BY <1>5, <2>3 DEF StaleSweep, TypeOK
  <2>8. spent' \in [Budgets -> Nat]
    BY <1>5, SpentType DEF StaleSweep, Budgets
  <2> QED
    BY <1>5, <2>1, <2>6, <2>7, <2>8 DEF StaleSweep, TypeOK
<1>6. ASSUME NEW g \in net, Receive(g) PROVE TypeOK'
  <2> DEFINE h == g.to
             m == g.msg
             f == Forwarder(m)
  <2>1. /\ g \in Datagram /\ DatagramTruthful(g)
        /\ h \in Hubs /\ g.from \in Hubs /\ m.origin \in Hubs /\ m.seq \in Nat
    BY DEF TypeOK, Datagram, Ogm, NetTruthful
  <2>2. f \in Hubs
    BY <2>1, ForwarderIsSender
  <2>3. ASSUME NEW sent \in SUBSET Datagram, Exchange(g, sent)
        PROVE  net' \in SUBSET Datagram /\ spent' \in [Budgets -> Nat]
    BY <2>3, BoundAssumption DEF Exchange, TypeOK, Budgets
  <2>4. ASSUME NEW count \in [Hubs -> [Hubs -> Nat]], NEW n \in Nat
        PROVE  [count EXCEPT ![h][f] = @ + n] \in [Hubs -> [Hubs -> Nat]]
    <3> HIDE DEF h, f
    <3> QED
      BY <2>1, <2>2
  <2>5. CASE ReceiveOwn(h, m) /\ Exchange(g, {})
    <3>1. linkEQ' \in [Hubs -> [Hubs -> Nat]]
      <4>1. (IF m.hop > 0 THEN 1 ELSE 0) \in Nat
        OBVIOUS
      <4>2. linkEQ \in [Hubs -> [Hubs -> Nat]]
        BY DEF TypeOK
      <4> QED
        BY <2>4, <2>5, <4>1, <4>2, Zenon DEF ReceiveOwn
    <3>2. net' \in SUBSET Datagram /\ spent' \in [Budgets -> Nat]
      BY <2>3, <2>5
    <3> QED
      BY <2>5, <3>1, <3>2 DEF ReceiveOwn, TypeOK, database
  <2>6. CASE ReceiveOld(h, m) /\ Exchange(g, {})
    <3>1. linkRQ' \in [Hubs -> [Hubs -> Nat]]
      <4>1. linkRQ \in [Hubs -> [Hubs -> Nat]] /\ 1 \in Nat
        BY DEF TypeOK
      <4> QED
        BY <2>4, <2>6, <4>1, Zenon DEF ReceiveOld
    <3>2. net' \in SUBSET Datagram /\ spent' \in [Budgets -> Nat]
      BY <2>3, <2>6
    <3> QED
      BY <2>6, <3>1, <3>2 DEF ReceiveOld, TypeOK, database
  <2>7. CASE ReceiveNew(h, m) /\ Exchange(g, Copies(h, g))
    <3> DEFINE c == Candidate(h, m)
    <3>1. linkRQ' \in [Hubs -> [Hubs -> Nat]]
      <4>1. linkRQ \in [Hubs -> [Hubs -> Nat]] /\ 1 \in Nat
        BY DEF TypeOK
      <4> QED
        BY <2>4, <2>7, <4>1, Zenon DEF ReceiveNew
    <3>2. m.origin # h
      BY <2>7 DEF ReceiveNew
    <3>3. net' \in SUBSET Datagram /\ spent' \in [Budgets -> Nat]
      <4>1. Copies(h, g) \in SUBSET Datagram
        BY <2>1, <3>2, CopiesTruthful
      <4> QED
        BY <2>3, <2>7, <4>1
    <3>4. c \in Route(Hubs) /\ c.dest = m.origin
      BY <2>1, <3>2, CandidateSound
    <3>5. /\ lastSeq' = [lastSeq EXCEPT ![h][m.origin] = m.seq]
          /\ status' = [status EXCEPT ![h][m.origin] = "online"]
          /\ proximity' = [proximity EXCEPT ![h] =
                @ \cup {<<m.origin, IF m.hop = 0 THEN "hub_direct" ELSE "hub_relay">>}]
          /\ routes' = [routes EXCEPT ![h] = TableAfterCandidate(@, c)]
          /\ alternates' = [alternates EXCEPT ![h] = AlternatesAfterCandidate(@, routes[h], c)]
          /\ rebroadcasted' \in {rebroadcasted, [rebroadcasted EXCEPT ![h][m.origin] = m.seq]}
          /\ UNCHANGED <<seq, linkEQ>>
      BY <2>7, Zenon DEF ReceiveNew
    <3>6. routes[h] \in SUBSET Route(Hubs) /\ alternates[h] \in [Hubs -> Seq(Route(Hubs))]
      BY <2>1 DEF TypeOK
    <3>7. TableAfterCandidate(routes[h], c) \in SUBSET Route(Hubs)
      BY <3>4, <3>6, TableAfterCandidateSubset
    <3>8. AlternatesAfterCandidate(alternates[h], routes[h], c) \in [Hubs -> Seq(Route(Hubs))]
      <4> HIDE DEF h, m, c
      <4>1. CandidateInput(Hubs, Route(Hubs), alternates[h], routes[h], c)
        BY <2>1, <3>4, <3>6 DEF CandidateInput
      <4> QED
        BY <4>1, AlternatesAfterCandidateProperties
    <3> HIDE DEF h, m, c
    <3>9. lastSeq' \in [Hubs -> [Hubs -> Nat]] /\ rebroadcasted' \in [Hubs -> [Hubs -> Nat]]
      <4>1. /\ lastSeq \in [Hubs -> [Hubs -> Nat]] /\ rebroadcasted \in [Hubs -> [Hubs -> Nat]]
            /\ h \in Hubs /\ m.origin \in Hubs /\ m.seq \in Nat
        BY <2>1 DEF TypeOK
      <4>2. \A x \in [Hubs -> [Hubs -> Nat]] : [x EXCEPT ![h][m.origin] = m.seq] \in [Hubs -> [Hubs -> Nat]]
        BY <4>1
      <4> QED
        BY <3>5, <4>1, <4>2
    <3>10. status' \in [Hubs -> [Hubs -> Status]]
      BY <2>1, <3>5 DEF TypeOK, Status
    <3>11. proximity' \in [Hubs -> SUBSET (Hubs \X {"hub_direct", "hub_relay"})]
      <4> DEFINE event == <<m.origin, IF m.hop = 0 THEN "hub_direct" ELSE "hub_relay">>
      <4>1. event \in Hubs \X {"hub_direct", "hub_relay"}
        BY <2>1
      <4>2. proximity' = [proximity EXCEPT ![h] = @ \cup {event}]
        BY <3>5
      <4> HIDE DEF event
      <4> QED
        BY <2>1, <4>1, <4>2 DEF TypeOK
    <3>12. routes' \in [Hubs -> SUBSET Route(Hubs)]
      BY <2>1, <3>5, <3>7 DEF TypeOK
    <3>13. alternates' \in [Hubs -> [Hubs -> Seq(Route(Hubs))]]
      BY <2>1, <3>5, <3>8 DEF TypeOK
    <3> QED
      BY <3>1, <3>3, <3>5, <3>9, <3>10, <3>11, <3>12, <3>13 DEF TypeOK
  <2> QED
    BY <1>6, <2>5, <2>6, <2>7 DEF Receive
<1>7. CASE UNCHANGED vars
  BY <1>7 DEF TypeOK, vars, memory, database
<1> QED
  BY <1>1, <1>2, <1>3, <1>4, <1>5, <1>6, <1>7 DEF Next

\* A known node stays known.
KnownStaysKnown ==
    \A k, e \in Hubs : status[k][e] # "unknown" => status'[k][e] # "unknown"

\* The frame of every step: what is in net, in a table or among the alternates
\* afterwards was there before, moved between table and alternates, or is sound.
LEMMA Frame ==
  ASSUME IInv, TypeOK', KnownStaysKnown,
         \A g \in net' : g \in net \/ DatagramTruthful(g)',
         \A h \in Hubs : \A r \in routes'[h] :
            \/ r \in routes[h]
            \/ \E d \in Hubs : r \in Range(alternates[h][d])
            \/ RouteSound(h, r)',
         \A h, d \in Hubs : \A r \in Range(alternates'[h][d]) :
            \/ r \in Range(alternates[h][d])
            \/ r.dest = d /\ (r \in routes[h] \/ RouteSound(h, r)'),
         \A h \in Hubs : Bounded(alternates[h]) => Bounded(alternates'[h])
  PROVE  IInv'
<1>1. /\ routes \in [Hubs -> SUBSET Route(Hubs)]
      /\ net \in SUBSET Datagram
      /\ alternates \in [Hubs -> [Hubs -> Seq(Route(Hubs))]]
      /\ alternates' \in [Hubs -> [Hubs -> Seq(Route(Hubs))]]
  BY DEF IInv, TypeOK
<1>2. \A h, d \in Hubs : Range(alternates[h][d]) \subseteq Route(Hubs)
  <2> SUFFICES ASSUME NEW h \in Hubs, NEW d \in Hubs
               PROVE  Range(alternates[h][d]) \subseteq Route(Hubs)
    OBVIOUS
  <2>1. alternates[h][d] \in Seq(Route(Hubs))
    BY <1>1
  <2> QED
    BY <2>1, ElementOfSeq, LenProperties DEF Range
<1>3. \A h \in Hubs, r \in Route(Hubs) : RouteSound(h, r) => RouteSound(h, r)'
  BY DEF RouteSound, RouteTruthful, KnownStaysKnown, Route
<1>4. \A g \in Datagram : DatagramTruthful(g) => DatagramTruthful(g)'
  BY DEF DatagramTruthful, KnownStaysKnown, Datagram, Ogm
<1>5. NetTruthful'
  BY <1>1, <1>4 DEF IInv, NetTruthful
<1>6. TablesSound'
  <2> SUFFICES ASSUME NEW h \in Hubs, NEW r \in routes'[h]
               PROVE  RouteSound(h, r)'
    BY DEF TablesSound
  <2>1. CASE r \in routes[h]
    <3>1. RouteSound(h, r) /\ r \in Route(Hubs)
      BY <1>1, <2>1 DEF IInv, TablesSound
    <3> QED
      BY <1>3, <3>1
  <2>2. ASSUME NEW d \in Hubs, r \in Range(alternates[h][d])
        PROVE  RouteSound(h, r)'
    <3>1. RouteSound(h, r) /\ r \in Route(Hubs)
      BY <1>2, <2>2 DEF IInv, AlternatesSound
    <3> QED
      BY <1>3, <3>1
  <2> QED
    BY <2>1, <2>2
<1>7. AlternatesSound'
  <2> SUFFICES ASSUME NEW h \in Hubs, NEW d \in Hubs, NEW r \in Range(alternates'[h][d])
               PROVE  r.dest = d /\ RouteSound(h, r)'
    BY DEF AlternatesSound
  <2>1. CASE r \in Range(alternates[h][d])
    <3>1. r.dest = d /\ RouteSound(h, r) /\ r \in Route(Hubs)
      BY <1>2, <2>1 DEF IInv, AlternatesSound
    <3> QED
      BY <1>3, <3>1
  <2>2. CASE r.dest = d /\ r \in routes[h]
    <3>1. RouteSound(h, r) /\ r \in Route(Hubs)
      BY <1>1, <2>2 DEF IInv, TablesSound
    <3> QED
      BY <1>3, <2>2, <3>1
  <2>3. CASE r.dest = d /\ RouteSound(h, r)'
    BY <2>3
  <2> QED
    BY <2>1, <2>2, <2>3
<1>8. AlternatesBounded'
  <2>1. \A h \in Hubs : DOMAIN alternates[h] = Hubs /\ DOMAIN alternates'[h] = Hubs
    BY <1>1
  <2> QED
    BY <2>1 DEF IInv, AlternatesBounded, Bounded
<1> QED
  BY <1>5, <1>6, <1>7, <1>8 DEF IInv

\* The invariant survives every step.
LEMMA IInvStep ==
  ASSUME IInv, [Next]_vars
  PROVE  IInv'
<1>0. TypeOK' /\ TypeOK
  BY TypeStep DEF IInv
<1>1. ASSUME UNCHANGED <<status, routes, alternates>>,
             \A g \in net' : g \in net \/ DatagramTruthful(g)
      PROVE  IInv'
  <2>1. \A g \in net' : g \in net \/ DatagramTruthful(g)'
    BY <1>1 DEF DatagramTruthful
  <2>2. KnownStaysKnown
    BY <1>1 DEF KnownStaysKnown
  <2> QED
    BY <1>0, <1>1, <2>1, <2>2, Frame
<1>2. \A h \in Hubs : seq[h] + 1 \in Nat /\ spent["hello"] + 1 \in Nat
  <2>1. seq \in [Hubs -> Nat] /\ spent \in [Budgets -> Nat] /\ "hello" \in Budgets
    BY <1>0 DEF TypeOK, Budgets
  <2> QED
    BY <2>1
<1>3. ASSUME NEW h \in Hubs, BroadcastOnce(h) PROVE IInv'
  <2>1. \A g \in net' : g \in net \/ DatagramTruthful(g)
    BY <1>2, <1>3, OwnDatagramsTruthful DEF BroadcastOnce
  <2> QED
    BY <1>1, <1>3, <2>1 DEF BroadcastOnce, database
<1>4. ASSUME NEW h \in Hubs, SendHellos(h) PROVE IInv'
  <2>1. \A g \in net' : g \in net \/ DatagramTruthful(g)
    BY <1>2, <1>4, OwnDatagramsTruthful DEF SendHellos
  <2> QED
    BY <1>1, <1>4, <2>1 DEF SendHellos, database, memory
<1>5. ASSUME NEW h \in Hubs, StaleProbe(h) PROVE IInv'
  <2>1. \A g \in net' : g \in net \/ DatagramTruthful(g)
    BY <1>2, <1>5, OwnDatagramsTruthful DEF StaleProbe
  <2> QED
    BY <1>1, <1>5, <2>1 DEF StaleProbe, database
<1>6. ASSUME NEW h \in Hubs, Restart(h) PROVE IInv'
  <2>1. UNCHANGED <<status, routes, net>>
    BY <1>6 DEF Restart, database
  <2>2. /\ alternates'[h] = NoAlternates
        /\ \A k \in Hubs : k # h => alternates'[k] = alternates[k]
    BY <1>0, <1>6 DEF Restart, TypeOK
  <2>3. /\ DOMAIN NoAlternates = Hubs
        /\ \A d \in Hubs : NoAlternates[d] = << >> /\ Range(NoAlternates[d]) = {}
    BY DEF NoAlternates, Range
  <2>4. Bounded(NoAlternates)
    BY <2>3 DEF Bounded, MaxAlternates, DistinctHops
  <2>5. KnownStaysKnown
    BY <2>1 DEF KnownStaysKnown
  <2>6. \A k, d \in Hubs : \A r \in Range(alternates'[k][d]) : r \in Range(alternates[k][d])
    BY <2>2, <2>3
  <2>7. \A k \in Hubs : Bounded(alternates[k]) => Bounded(alternates'[k])
    BY <2>2, <2>4
  <2> QED
    BY <1>0, <2>1, <2>5, <2>6, <2>7, Frame
<1>7. ASSUME NEW h \in Hubs, NEW o \in Hubs, StaleSweep(h, o) PROVE IInv'
  <2>1. alternates[h] \in [Hubs -> Seq(Route(Hubs))]
    BY <1>0 DEF TypeOK
  <2>2. /\ net' = net
        /\ routes'[h] = TableAfterFailover(routes[h], alternates[h], o)
        /\ alternates'[h] = AlternatesAfterFailover(alternates[h], o)
        /\ \A k \in Hubs : k # h => routes'[k] = routes[k] /\ alternates'[k] = alternates[k]
    BY <1>0, <1>7 DEF StaleSweep, TypeOK
  <2>3. KnownStaysKnown
    <3>1. status \in [Hubs -> [Hubs -> Status]] /\ status' = [status EXCEPT ![h][o] = "stale"]
      BY <1>0, <1>7 DEF StaleSweep, TypeOK
    <3> QED
      BY <3>1 DEF KnownStaysKnown
  <2>4. /\ \A d \in Hubs : Range(alternates'[h][d]) \subseteq Range(alternates[h][d])
        /\ Bounded(alternates[h]) => Bounded(alternates'[h])
        /\ routes'[h] \subseteq routes[h] \cup UNION {Range(alternates[h][d]) : d \in Hubs}
    <3>1. /\ \A d \in Hubs : Range(AlternatesAfterFailover(alternates[h], o)[d])
                              \subseteq Range(alternates[h][d])
          /\ Bounded(alternates[h]) => Bounded(AlternatesAfterFailover(alternates[h], o))
          /\ TableAfterFailover(routes[h], alternates[h], o)
                \subseteq routes[h] \cup UNION {Range(alternates[h][d]) : d \in Hubs}
      BY <2>1, FailoverProperties
    <3> QED
      BY <2>2, <3>1, Zenon
  <2>5. \A k \in Hubs : \A r \in routes'[k] :
           r \in routes[k] \/ \E d \in Hubs : r \in Range(alternates[k][d])
    BY <2>2, <2>4
  <2>6. \A k, d \in Hubs : \A r \in Range(alternates'[k][d]) : r \in Range(alternates[k][d])
    BY <2>2, <2>4
  <2>7. \A k \in Hubs : Bounded(alternates[k]) => Bounded(alternates'[k])
    BY <2>2, <2>4
  <2> QED
    BY <1>0, <2>2, <2>3, <2>5, <2>6, <2>7, Frame
<1>8. ASSUME NEW g \in net, Receive(g) PROVE IInv'
  <2> DEFINE h == g.to
             m == g.msg
  <2>1. ASSUME NEW sent, Exchange(g, sent)
        PROVE  \A q \in net' : q \in net \/ q \in sent
    BY <2>1 DEF Exchange
  <2>2. CASE ReceiveOwn(h, m) /\ Exchange(g, {})
    <3>1. \A q \in net' : q \in net
      BY <2>1, <2>2
    <3> QED
      BY <1>1, <2>2, <3>1 DEF ReceiveOwn, database
  <2>3. CASE ReceiveOld(h, m) /\ Exchange(g, {})
    <3>1. \A q \in net' : q \in net
      BY <2>1, <2>3
    <3> QED
      BY <1>1, <2>3, <3>1 DEF ReceiveOld, database
  <2>4. CASE ReceiveNew(h, m) /\ Exchange(g, Copies(h, g))
    <3>0. PICK c : c = Candidate(h, m)
      OBVIOUS
    <3>1. /\ DatagramTruthful(g) /\ m.origin # h
          /\ h \in Hubs /\ m.origin \in Hubs
      BY <1>0, <2>4 DEF IInv, NetTruthful, ReceiveNew, TypeOK, Datagram, Ogm
    <3>2. /\ status' = [status EXCEPT ![h][m.origin] = "online"]
          /\ routes' = [routes EXCEPT ![h] = TableAfterCandidate(@, c)]
          /\ alternates' = [alternates EXCEPT ![h] = AlternatesAfterCandidate(@, routes[h], c)]
      BY <2>4, <3>0, Zenon DEF ReceiveNew
    <3>3. c \in Route(Hubs) /\ c.dest = m.origin /\ RouteSound(h, c)
      BY <1>0, <3>0, <3>1, CandidateSound
    <3>4. \A q \in net' : q \in net \/ q \in Copies(h, g)
      BY <2>1, <2>4
    <3>5. \A q \in Copies(h, g) :
            /\ q \in Datagram
            /\ <<q.from, q.to>> \in Links
            /\ q.from = h /\ q.msg.origin = m.origin
            /\ q.msg.hop \in Nat \ {0} /\ q.msg.lastHop = q.from
            /\ Dist[q.msg.origin][q.from] <= q.msg.hop
            /\ q.msg.hop + q.msg.ttl = TTL
            /\ q.msg.flood # "hello"
      BY <1>0, <3>1, CopiesTruthful
    <3>6. /\ status \in [Hubs -> [Hubs -> Status]]
          /\ routes \in [Hubs -> SUBSET Route(Hubs)]
          /\ alternates \in [Hubs -> [Hubs -> Seq(Route(Hubs))]]
      BY <1>0 DEF TypeOK
    <3> HIDE DEF h, m
    <3>7. KnownStaysKnown /\ status'[h][m.origin] = "online"
      BY <3>1, <3>2, <3>6 DEF KnownStaysKnown
    <3>8. \A q \in net' : q \in net \/ DatagramTruthful(q)'
      <4> SUFFICES ASSUME NEW q \in Copies(h, g) PROVE DatagramTruthful(q)'
        BY <3>4
      <4>1. /\ <<q.from, q.to>> \in Links
            /\ q.from = h /\ q.msg.origin = m.origin
            /\ q.msg.hop \in Nat \ {0} /\ q.msg.lastHop = q.from
            /\ Dist[q.msg.origin][q.from] <= q.msg.hop
            /\ q.msg.hop + q.msg.ttl = TTL
            /\ q.msg.flood # "hello"
        BY <3>5
      <4> QED
        BY <3>1, <3>7, <4>1, BoundAssumption DEF DatagramTruthful
    <3>9. RouteSound(h, c)'
      <4>1. c.nextHop \in Hubs /\ c.dest \in Hubs
        BY <3>3 DEF Route
      <4>2. RouteTruthful(h, c)'
        BY <3>3 DEF RouteSound, RouteTruthful
      <4> QED
        BY <3>3, <3>7, <4>1, <4>2 DEF RouteSound, KnownStaysKnown
    <3>10. /\ routes'[h] \subseteq routes[h] \cup {c}
           /\ \A k \in Hubs : k # h => routes'[k] = routes[k]
      BY <3>1, <3>2, <3>6, TableAfterCandidateSubset
    <3>11. /\ alternates'[h] = AlternatesAfterCandidate(alternates[h], routes[h], c)
           /\ \A k \in Hubs : k # h => alternates'[k] = alternates[k]
      BY <3>1, <3>2, <3>6
    <3>12. /\ \A d \in Hubs : \A r \in Range(alternates'[h][d]) :
                r \in Range(alternates[h][d]) \/ (r.dest = d /\ r \in routes[h] \cup {c})
           /\ Bounded(alternates[h]) => Bounded(alternates'[h])
      <4>1. /\ alternates[h] \in [Hubs -> Seq(Route(Hubs))]
            /\ routes[h] \in SUBSET Route(Hubs)
            /\ c \in Route(Hubs) /\ c.dest \in Hubs
        BY <3>1, <3>3, <3>6
      <4>2. CandidateInput(Hubs, Route(Hubs), alternates[h], routes[h], c)
        BY <4>1 DEF CandidateInput
      <4>3. PICK after : after = AlternatesAfterCandidate(alternates[h], routes[h], c)
        OBVIOUS
      <4>4. /\ \A d \in Hubs : \A r \in Range(after[d]) :
                 r \in Range(alternates[h][d]) \/ (r.dest = d /\ r \in routes[h] \cup {c})
            /\ Bounded(alternates[h]) => Bounded(after)
        BY <4>2, <4>3, AlternatesAfterCandidateProperties
      <4> QED
        BY <3>11, <4>3, <4>4, Zenon
    <3>13. \A k \in Hubs : \A r \in routes'[k] : r \in routes[k] \/ RouteSound(k, r)'
      <4> SUFFICES ASSUME NEW k \in Hubs, NEW r \in routes'[k], r \notin routes[k]
                   PROVE  RouteSound(k, r)'
        OBVIOUS
      <4>1. k = h /\ r = c
        BY <3>10
      <4> QED
        BY <3>9, <4>1
    <3>14. \A k, d \in Hubs : \A r \in Range(alternates'[k][d]) :
              \/ r \in Range(alternates[k][d])
              \/ r.dest = d /\ (r \in routes[k] \/ RouteSound(k, r)')
      <4> SUFFICES ASSUME NEW k \in Hubs, NEW d \in Hubs, NEW r \in Range(alternates'[k][d]),
                          r \notin Range(alternates[k][d]), r \notin routes[k]
                   PROVE  r.dest = d /\ RouteSound(k, r)'
        BY <3>11, <3>12
      <4>1. k = h /\ r.dest = d /\ r = c
        BY <3>11, <3>12
      <4> QED
        BY <3>9, <4>1
    <3>15. \A k \in Hubs : Bounded(alternates[k]) => Bounded(alternates'[k])
      BY <3>11, <3>12
    <3> QED
      BY <1>0, <3>7, <3>8, <3>13, <3>14, <3>15, Frame
  <2> QED
    BY <1>8, <2>2, <2>3, <2>4 DEF Receive
<1>9. CASE UNCHANGED vars
  BY <1>1, <1>9 DEF vars, memory, database
<1> QED
  BY <1>3, <1>4, <1>5, <1>6, <1>7, <1>8, <1>9 DEF Next

\* The invariant holds at the start.
LEMMA IInvInit == Init => IInv
<1> SUFFICES ASSUME Init PROVE IInv
  OBVIOUS
<1>1. TypeOK
  BY DEF Init, TypeOK, Zero, NoAlternates, Status, Budgets
<1>2. NetTruthful /\ TablesSound
  BY DEF Init, NetTruthful, TablesSound
<1>3. \A h, d \in Hubs : alternates[h][d] = << >>
  BY DEF Init, NoAlternates
<1>4. AlternatesSound
  BY <1>3 DEF AlternatesSound, Range
<1>5. AlternatesBounded
  BY <1>3 DEF AlternatesBounded, MaxAlternates, DistinctHops
<1> QED
  BY <1>1, <1>2, <1>4, <1>5 DEF IInv

\* The invariant holds in every reachable state.
THEOREM Invariance == Spec => []IInv
  BY IInvInit, IInvStep, PTL DEF Spec

---------------------------------------------------------------------------
\* Every variable keeps its type.
THEOREM TypeCorrect == Spec => []TypeOK
<1>1. IInv => TypeOK
  BY DEF IInv
<1> QED
  BY <1>1, Invariance, PTL

\* Hops travelled and hops left always add up to OGMTTL, whatever is lost,
\* reordered or duplicated: relaying cannot go on for ever.
THEOREM HopBudgetHolds == Spec => []HopBudget
<1>1. IInv => HopBudget
  <2> SUFFICES ASSUME IInv, NEW g \in net, g.msg.flood # "hello"
               PROVE  g.msg.ttl + g.msg.hop = TTL
    BY DEF HopBudget
  <2>1. g.msg.hop + g.msg.ttl = TTL
    BY DEF IInv, NetTruthful, DatagramTruthful
  <2>2. g.msg.hop \in Nat /\ g.msg.ttl \in Nat
    BY DEF IInv, TypeOK, Datagram, Ogm
  <2> QED
    BY <2>1, <2>2
<1> QED
  BY <1>1, Invariance, PTL

\* All routes and alternates are truthful about the topology, and their next
\* hops have heard of their destinations.
THEOREM RoutesSound == Spec => [](RoutesTruthful /\ NextHopKnowsDestination)
<1>1. IInv => RoutesTruthful /\ NextHopKnowsDestination
  <2> SUFFICES ASSUME IInv, NEW h \in Hubs, NEW r \in routes[h] \cup AlternatesOf(h)
               PROVE  RouteSound(h, r)
    BY DEF RoutesTruthful, NextHopKnowsDestination, RouteSound
  <2>1. CASE r \in routes[h]
    BY <2>1 DEF IInv, TablesSound
  <2>2. CASE r \in AlternatesOf(h)
    <3>1. PICK d \in Hubs : r \in Range(alternates[h][d])
      BY <2>2 DEF AlternatesOf
    <3> QED
      BY <3>1 DEF IInv, AlternatesSound
  <2> QED
    BY <2>1, <2>2
<1> QED
  BY <1>1, Invariance, PTL

\* A next hop is a hub that has heard of the destination itself, also after the
\* failovers and restarts that make the tables of two hubs disagree.
THEOREM NextHopsInformed == Spec => []NextHopKnowsDestination
<1> QED
  BY RoutesSound, PTL

\* storeAlternate and failoverRoutes keep the alternates bounded, each list
\* with distinct next hops for its own destination.
THEOREM AlternatesStayWellFormed == Spec => []AlternatesWellFormed
<1>1. IInv => AlternatesWellFormed
  <2> SUFFICES ASSUME IInv, NEW h \in Hubs, NEW d \in Hubs
               PROVE  /\ Len(alternates[h][d]) <= MaxAlternates
                      /\ \A i \in DOMAIN alternates[h][d] : alternates[h][d][i].dest = d
                      /\ DistinctHops(alternates[h][d])
    BY DEF AlternatesWellFormed
  <2>1. \A i \in DOMAIN alternates[h][d] : alternates[h][d][i] \in Range(alternates[h][d])
    BY DEF Range
  <2> QED
    BY <2>1 DEF IInv, AlternatesSound, AlternatesBounded
<1> QED
  BY <1>1, Invariance, PTL

\* A hub_direct proximity event is only ever recorded for a hub that has this
\* one among its peers.
THEOREM ProximityHonest == Spec => []DirectProximityHonest
<1>1. Init => DirectProximityHonest
  BY DEF Init, DirectProximityHonest
<1>2. ASSUME IInv, DirectProximityHonest, [Next]_vars
      PROVE  DirectProximityHonest'
  <2>1. CASE UNCHANGED proximity
    BY <1>2, <2>1 DEF DirectProximityHonest
  <2>2. ASSUME NEW g \in net, ReceiveNew(g.to, g.msg)
        PROVE  DirectProximityHonest'
    <3> DEFINE h == g.to
               m == g.msg
    <3>1. /\ h \in Hubs /\ m.origin \in Hubs
          /\ m.hop = 0 => <<m.origin, h>> \in Links
      BY <1>2 DEF IInv, TypeOK, NetTruthful, DatagramTruthful, Datagram, Ogm
    <3>2. proximity \in [Hubs -> SUBSET (Hubs \X {"hub_direct", "hub_relay"})]
      BY <1>2 DEF IInv, TypeOK
    <3>3. proximity' = [proximity EXCEPT ![h] =
              @ \cup {<<m.origin, IF m.hop = 0 THEN "hub_direct" ELSE "hub_relay">>}]
      BY <2>2 DEF ReceiveNew
    <3> HIDE DEF h, m
    <3> SUFFICES ASSUME NEW k \in Hubs, NEW o \in Hubs, <<o, "hub_direct">> \in proximity'[k],
                        <<o, "hub_direct">> \notin proximity[k]
                 PROVE  <<o, k>> \in Links
      BY <1>2 DEF DirectProximityHonest
    <3>4. k = h /\ <<o, "hub_direct">> = <<m.origin, IF m.hop = 0 THEN "hub_direct" ELSE "hub_relay">>
      BY <3>1, <3>2, <3>3
    <3> QED
      BY <3>1, <3>4
  <2> QED
    BY <1>2, <2>1, <2>2 DEF Next, vars, database, memory, BroadcastOnce, SendHellos, StaleProbe,
       Restart, StaleSweep, Receive, ReceiveOwn, ReceiveOld
<1> QED
  BY <1>1, <1>2, Invariance, PTL DEF Spec

\* Outside a stale sweep no step loses a route or makes it worse.
THEOREM RoutesOnlyImproveHolds == Spec => RoutesOnlyImprove
<1>1. ASSUME IInv, [Next]_vars
      PROVE  [\A h \in Hubs : \A r \in routes[h] :
                spent'["sweep"] = spent["sweep"] =>
                  \E r2 \in routes'[h] : r2.dest = r.dest /\ (r2 = r \/ Better(r2, r))]_vars
  <2> SUFFICES ASSUME NEW h \in Hubs, NEW r \in routes[h], spent'["sweep"] = spent["sweep"]
               PROVE  \E r2 \in routes'[h] : r2.dest = r.dest /\ (r2 = r \/ Better(r2, r))
    OBVIOUS
  <2>1. CASE UNCHANGED routes
    BY <2>1
  <2>2. ASSUME NEW k \in Hubs, NEW o \in Hubs, StaleSweep(k, o) PROVE FALSE
    <3>1. spent \in [Budgets -> Nat] /\ "sweep" \in Budgets
      BY <1>1 DEF IInv, TypeOK, Budgets
    <3> QED
      BY <2>2, <3>1 DEF StaleSweep
  <2>3. ASSUME NEW g \in net, ReceiveNew(g.to, g.msg)
        PROVE  \E r2 \in routes'[h] : r2.dest = r.dest /\ (r2 = r \/ Better(r2, r))
    <3>1. PICK c : c = Candidate(g.to, g.msg)
      OBVIOUS
    <3>2. routes' = [routes EXCEPT ![g.to] = TableAfterCandidate(@, c)]
      BY <2>3, <3>1, Zenon DEF ReceiveNew
    <3>3. routes'[h] \in {routes[h], TableAfterCandidate(routes[h], c)}
      BY <1>1, <3>2 DEF IInv, TypeOK
    <3>4. \E r2 \in TableAfterCandidate(routes[h], c) : r2.dest = r.dest /\ (r2 = r \/ Better(r2, r))
      BY Zenon DEF TableAfterCandidate, UpsertRoute, Accepts, GetRoute
    <3> QED
      BY <3>3, <3>4
  <2> QED
    BY <1>1, <2>1, <2>2, <2>3 DEF Next, vars, database, memory, BroadcastOnce, SendHellos,
       StaleProbe, Restart, Receive, ReceiveOwn, ReceiveOld
<1> QED
  BY <1>1, Invariance, PTL DEF Spec, RoutesOnlyImprove

---------------------------------------------------------------------------
\* The best route

\* While no node has gone stale, every table holds the best route of its hub.
BestInv ==
    spent["sweep"] = 0 => \A h \in Hubs : BestInTable(alternates[h], routes[h])

\* Receiving an OGM keeps the best route in the table.
LEMMA BestStep ==
  ASSUME IInv, BestInv, [Next]_vars
  PROVE  BestInv'
<1>0. /\ spent \in [Budgets -> Nat] /\ "sweep" \in Budgets
      /\ routes \in [Hubs -> SUBSET Route(Hubs)]
      /\ alternates \in [Hubs -> [Hubs -> Seq(Route(Hubs))]]
  BY DEF IInv, TypeOK, Budgets
<1>1. ASSUME UNCHANGED <<routes, alternates>>, spent'["sweep"] = spent["sweep"]
      PROVE  BestInv'
  BY <1>1 DEF BestInv, BestInTable
<1>2. ASSUME NEW x \in Budgets, spent' = [spent EXCEPT ![x] = @ + 1], x # "sweep"
      PROVE  spent'["sweep"] = spent["sweep"]
  BY <1>0, <1>2
<1>3. ASSUME NEW g, NEW sent, Exchange(g, sent)
      PROVE  spent'["sweep"] = spent["sweep"]
  BY <1>0, <1>3 DEF Exchange, Budgets
<1>4. ASSUME NEW h \in Hubs, BroadcastOnce(h) PROVE BestInv'
  BY <1>1, <1>4 DEF BroadcastOnce, database
<1>5. ASSUME NEW h \in Hubs, SendHellos(h) \/ StaleProbe(h) PROVE BestInv'
  BY <1>1, <1>2, <1>5 DEF SendHellos, StaleProbe, memory, database, Budgets
<1>6. ASSUME NEW h \in Hubs, Restart(h) PROVE BestInv'
  <2>1. spent'["sweep"] = spent["sweep"] /\ routes' = routes
    BY <1>2, <1>6 DEF Restart, database, Budgets
  <2>2. \A k \in Hubs : alternates'[k] = IF k = h THEN NoAlternates ELSE alternates[k]
    BY <1>0, <1>6 DEF Restart
  <2>3. \A d \in Hubs : Range(NoAlternates[d]) = {}
    BY DEF NoAlternates, Range
  <2>4. DOMAIN NoAlternates = Hubs
    BY DEF NoAlternates
  <2>5. ASSUME spent["sweep"] = 0, NEW k \in Hubs
        PROVE  BestInTable(alternates'[k], routes'[k])
    <3>1. BestInTable(alternates[k], routes[k])
      BY <2>5 DEF BestInv
    <3> QED
      BY <2>1, <2>2, <2>3, <2>4, <3>1 DEF BestInTable
  <2> QED
    BY <2>1, <2>5 DEF BestInv
<1>7. ASSUME NEW h \in Hubs, NEW o \in Hubs, StaleSweep(h, o) PROVE BestInv'
  <2>1. spent'["sweep"] = spent["sweep"] + 1
    BY <1>0, <1>7 DEF StaleSweep
  <2> QED
    BY <1>0, <2>1 DEF BestInv
<1>8. ASSUME NEW g \in net, Receive(g) PROVE BestInv'
  <2>1. CASE ReceiveOwn(g.to, g.msg) /\ Exchange(g, {})
    BY <1>1, <1>3, <2>1 DEF ReceiveOwn, database
  <2>2. CASE ReceiveOld(g.to, g.msg) /\ Exchange(g, {})
    BY <1>1, <1>3, <2>2 DEF ReceiveOld, database
  <2>3. CASE ReceiveNew(g.to, g.msg) /\ Exchange(g, Copies(g.to, g))
    <3>0. PICK c, h : c = Candidate(g.to, g.msg) /\ h = g.to
      OBVIOUS
    <3>1. spent'["sweep"] = spent["sweep"]
      BY <1>3, <2>3
    <3>2. /\ routes' = [routes EXCEPT ![h] = TableAfterCandidate(@, c)]
          /\ alternates' = [alternates EXCEPT ![h] = AlternatesAfterCandidate(@, routes[h], c)]
      BY <2>3, <3>0, Zenon DEF ReceiveNew
    <3>3. h \in Hubs /\ c \in Route(Hubs) /\ c.dest \in Hubs
      <4>1. g.msg.origin # g.to /\ DatagramTruthful(g) /\ g \in Datagram
        BY <2>3 DEF IInv, NetTruthful, TypeOK, ReceiveNew
      <4>2. c \in Route(Hubs)
        BY <3>0, <4>1, CandidateSound DEF IInv
      <4> QED
        BY <3>0, <4>1, <4>2 DEF Datagram, Route
    <3>4. /\ routes'[h] = TableAfterCandidate(routes[h], c)
          /\ alternates'[h] = AlternatesAfterCandidate(alternates[h], routes[h], c)
          /\ \A k \in Hubs : k # h => routes'[k] = routes[k] /\ alternates'[k] = alternates[k]
      BY <1>0, <3>2, <3>3
    <3>5. CandidateInput(Hubs, Route(Hubs), alternates[h], routes[h], c)
      BY <1>0, <3>3 DEF CandidateInput
    <3>6. ASSUME spent["sweep"] = 0, NEW k \in Hubs
          PROVE  BestInTable(alternates'[k], routes'[k])
      <4>1. BestInTable(alternates[k], routes[k])
        BY <3>6 DEF BestInv
      <4>2. CASE k # h
        BY <3>4, <4>1, <4>2
      <4>3. CASE k = h
        <5>1. BestInTable(AlternatesAfterCandidate(alternates[h], routes[h], c),
                          TableAfterCandidate(routes[h], c))
          BY <3>5, <4>1, <4>3, CandidateKeepsBest
        <5> QED
          BY <3>4, <4>3, <5>1
      <4> QED
        BY <4>2, <4>3
    <3> QED
      BY <3>1, <3>6 DEF BestInv
  <2> QED
    BY <1>8, <2>1, <2>2, <2>3 DEF Receive
<1>9. CASE UNCHANGED vars
  BY <1>1, <1>9 DEF vars, memory, database
<1> QED
  BY <1>4, <1>5, <1>6, <1>7, <1>8, <1>9 DEF Next

\* However OGMs are lost, repeated and reordered, and whatever hub restarts, a
\* hub uses the best route that it knows, until a stale sweep promotes the oldest
\* alternate rather than the best.
THEOREM TableHoldsBestHolds == Spec => [](spent["sweep"] = 0 => TableHoldsBest)
<1>1. Init => BestInv
  <2> SUFFICES ASSUME Init, NEW h \in Hubs PROVE BestInTable(alternates[h], routes[h])
    BY DEF BestInv
  <2>1. /\ routes[h] = {} /\ DOMAIN alternates[h] = Hubs
        /\ \A d \in Hubs : Range(alternates[h][d]) = {}
    BY DEF Init, NoAlternates, Range
  <2> QED
    BY <2>1 DEF BestInTable
<1>2. ASSUME IInv, BestInv PROVE spent["sweep"] = 0 => TableHoldsBest
  <2> SUFFICES ASSUME spent["sweep"] = 0, NEW h \in Hubs, NEW r \in routes[h],
                      NEW a \in AlternatesOf(h), a.dest = r.dest
               PROVE  ~Better(a, r)
    BY DEF TableHoldsBest
  <2>1. PICK d \in Hubs : a \in Range(alternates[h][d])
    BY DEF AlternatesOf
  <2>2. a.dest = d
    BY <1>2, <2>1 DEF IInv, AlternatesSound
  <2>3. DOMAIN alternates[h] = Hubs
    BY <1>2 DEF IInv, TypeOK
  <2>4. BestInTable(alternates[h], routes[h])
    BY <1>2 DEF BestInv
  <2>5. PICK s \in routes[h] : s.dest = d /\ ~Better(a, s)
    BY <2>1, <2>3, <2>4 DEF BestInTable
  <2> QED
    BY <2>2, <2>4, <2>5 DEF BestInTable
<1> QED
  BY <1>1, <1>2, BestStep, Invariance, PTL DEF Spec

---------------------------------------------------------------------------
\* Echoes

\* The echoes of h's OGMs that n has sent to h and that are still under way.
Echoes(h, n) ==
    {g \in net : g.from = n /\ g.to = h /\ g.msg.origin = h /\ g.msg.hop # 0}

\* n has relayed no OGM of h that h has not issued nor one that n does not
\* remember, and every relayed one pays for two echoes, counted or under way.
EchoesPaid(h, n) ==
    /\ rebroadcasted[n][h] <= lastSeq[n][h]
    /\ rebroadcasted[n][h] <= seq[h]
    /\ IsFiniteSet(Echoes(h, n))
    /\ linkEQ[h][n] + Cardinality(Echoes(h, n)) <= 2 * rebroadcasted[n][h]

\* No OGM under way is ahead of its origin's counter.
NetIssued == \A g \in net : g.msg.flood # "hello" => g.msg.seq <= seq[g.msg.origin]

NoRestartOrDuplicate == spent["restart"] = 0 /\ spent["dup"] = 0

\* The inductive invariant of the echo counters: it ends with a restart, which
\* starts the counters of one hub again, and with a duplicate, which is counted
\* twice.
EchoInv == NoRestartOrDuplicate => NetIssued /\ \A h, n \in Hubs : EchoesPaid(h, n)

\* What a hub sends on is a startup announcement or a relay of the message
\* received, with its sequence number.
LEMMA CopiesAre ==
  ASSUME NEW g, NEW q \in Copies(g.to, g)
  PROVE  /\ g.msg.ttl > 0
         /\ q.from = g.to /\ q.msg.seq = g.msg.seq /\ q.msg.origin = g.msg.origin
         /\ \E flood \in {"startup", "relay"} :
              q = [from |-> g.to, to |-> q.to, msg |-> Relayed(g.to, g.msg, flood)]
<1> DEFINE Sent(flood) == FloodOgm(g.to, Relayed(g.to, g.msg, flood), g.from)
<1>1. ASSUME NEW flood \in {"startup", "relay"}, q \in Sent(flood)
      PROVE  q = [from |-> g.to, to |-> q.to, msg |-> Relayed(g.to, g.msg, flood)]
  <2>1. PICK p \in Peers(g.to) : q = [from |-> g.to, to |-> p, msg |-> Relayed(g.to, g.msg, flood)]
    BY <1>1, Zenon DEF FloodOgm
  <2> QED
    BY <2>1
<1>2. g.msg.ttl > 0 /\ (q \in Sent("startup") \/ q \in Sent("relay"))
  BY Zenon DEF Copies, Announces, Relays
<1>3. PICK flood \in {"startup", "relay"} :
        q = [from |-> g.to, to |-> q.to, msg |-> Relayed(g.to, g.msg, flood)]
  BY <1>1, <1>2, Zenon
<1>4. q.from = g.to /\ q.msg = Relayed(g.to, g.msg, flood)
  BY <1>3
<1>5. q.msg.seq = g.msg.seq /\ q.msg.origin = g.msg.origin
  BY <1>4 DEF Relayed
<1> QED
  BY <1>2, <1>3, <1>4, <1>5

\* Messages that start at their origin are no echoes.
LEMMA OwnDatagramsNoEchoes ==
  ASSUME IInv, NEW h \in Hubs, NEW n \in Nat
  PROVE  \A g \in FloodOgm(h, OwnOgm(h, n), None) \cup FloodOgm(h, HelloAsOgm(h, n), None) :
            /\ g.msg.hop = 0 /\ g.msg.origin = h
            /\ g.msg.flood # "hello" => g.msg.seq = n
<1>1. OwnOgm(h, n) \in Ogm /\ HelloAsOgm(h, n) \in Ogm
  BY BoundAssumption DEF OwnOgm, HelloAsOgm, Ogm
<1>2. ASSUME NEW g \in FloodOgm(h, OwnOgm(h, n), None)
      PROVE  g \in Datagram /\ g.from = h /\ g.msg = OwnOgm(h, n) /\ <<g.from, g.to>> \in Links
  BY <1>1, FloodOgmProperties
<1>3. ASSUME NEW g \in FloodOgm(h, HelloAsOgm(h, n), None)
      PROVE  g \in Datagram /\ g.from = h /\ g.msg = HelloAsOgm(h, n) /\ <<g.from, g.to>> \in Links
  BY <1>1, FloodOgmProperties
<1>4. /\ OwnOgm(h, n).hop = 0 /\ OwnOgm(h, n).origin = h /\ OwnOgm(h, n).seq = n
      /\ HelloAsOgm(h, n).hop = 0 /\ HelloAsOgm(h, n).origin = h
      /\ HelloAsOgm(h, n).flood = "hello"
  BY DEF OwnOgm, HelloAsOgm
<1> QED
  BY <1>2, <1>3, <1>4

\* A step that only sends messages of the sender's own leaves the echoes alone.
LEMMA SendingKeepsEchoes ==
  ASSUME IInv, EchoInv,
         NoRestartOrDuplicate' => NoRestartOrDuplicate,
         UNCHANGED <<lastSeq, rebroadcasted, linkEQ>>,
         seq' \in [Hubs -> Nat],
         \A o \in Hubs : seq'[o] >= seq[o],
         net \subseteq net',
         \A g \in net' \ net :
            /\ g.msg.hop = 0
            /\ g.msg.flood # "hello" => g.msg.seq <= seq'[g.msg.origin]
  PROVE  EchoInv'
<1> SUFFICES ASSUME NoRestartOrDuplicate
             PROVE  NetIssued' /\ \A h, n \in Hubs : EchoesPaid(h, n)'
  BY DEF EchoInv
<1>0. /\ seq \in [Hubs -> Nat] /\ rebroadcasted \in [Hubs -> [Hubs -> Nat]]
      /\ \A g \in net : g.msg.origin \in Hubs /\ g.msg.seq \in Nat
  BY DEF IInv, TypeOK, Datagram, Ogm
<1>1. NetIssued'
  <2> SUFFICES ASSUME NEW g \in net', g.msg.flood # "hello"
               PROVE  g.msg.seq <= seq'[g.msg.origin]
    BY DEF NetIssued
  <2>1. CASE g \in net
    BY <1>0, <2>1 DEF EchoInv, NetIssued
  <2> QED
    BY <2>1
<1>2. ASSUME NEW h \in Hubs, NEW n \in Hubs PROVE EchoesPaid(h, n)'
  <2>1. Echoes(h, n)' = Echoes(h, n)
    BY DEF Echoes
  <2>2. EchoesPaid(h, n)
    BY DEF EchoInv
  <2>3. rebroadcasted[n][h] \in Nat /\ seq[h] \in Nat /\ seq'[h] \in Nat /\ seq'[h] >= seq[h]
    BY <1>0
  <2>4. rebroadcasted[n][h] <= seq'[h]
    BY <2>2, <2>3 DEF EchoesPaid
  <2> QED
    BY <2>1, <2>2, <2>4 DEF EchoesPaid
<1> QED
  BY <1>1, <1>2

\* Two more elements make a finite set larger by at most two.
LEMMA TwoMore ==
  ASSUME NEW S, IsFiniteSet(S), NEW a, NEW b
  PROVE  /\ IsFiniteSet(S \cup {a, b})
         /\ Cardinality(S \cup {a, b}) <= Cardinality(S) + 2
<1>1. /\ IsFiniteSet(S \cup {a})
      /\ Cardinality(S \cup {a}) \in {Cardinality(S), Cardinality(S) + 1}
  BY FS_AddElement
<1>2. /\ IsFiniteSet((S \cup {a}) \cup {b})
      /\ Cardinality((S \cup {a}) \cup {b}) \in {Cardinality(S \cup {a}), Cardinality(S \cup {a}) + 1}
  BY <1>1, FS_AddElement
<1>3. (S \cup {a}) \cup {b} = S \cup {a, b}
  OBVIOUS
<1>4. Cardinality(S) \in Nat
  BY FS_CardinalityType
<1> QED
  BY <1>1, <1>2, <1>3, <1>4

\* Every step keeps the echoes paid for.
LEMMA EchoStep ==
  ASSUME IInv, EchoInv, [Next]_vars
  PROVE  EchoInv'
<1>0. /\ spent \in [Budgets -> Nat] /\ Budgets = {"hello", "sweep", "restart", "dup"}
      /\ seq \in [Hubs -> Nat]
      /\ lastSeq \in [Hubs -> [Hubs -> Nat]]
      /\ rebroadcasted \in [Hubs -> [Hubs -> Nat]]
      /\ linkEQ \in [Hubs -> [Hubs -> Nat]]
      /\ \A g \in net : /\ g \in Datagram /\ DatagramTruthful(g)
                        /\ g.to \in Hubs /\ g.from \in Hubs
                        /\ g.msg.origin \in Hubs /\ g.msg.seq \in Nat /\ g.msg.hop \in Nat
  BY DEF IInv, TypeOK, Budgets, Datagram, Ogm, NetTruthful
<1>1. \A h \in Hubs : seq[h] + 1 \in Nat /\ spent["hello"] + 1 \in Nat
  BY <1>0
<1>2. ASSUME spent' = [spent EXCEPT !["hello"] = @ + 1] \/ UNCHANGED spent
      PROVE  NoRestartOrDuplicate' => NoRestartOrDuplicate
  BY <1>0, <1>2 DEF NoRestartOrDuplicate
<1>3. ASSUME NEW h \in Hubs, BroadcastOnce(h) PROVE EchoInv'
  <2>1. /\ seq' \in [Hubs -> Nat] /\ seq'[h] = seq[h] + 1 /\ \A o \in Hubs : seq'[o] >= seq[o]
    BY <1>0, <1>3 DEF BroadcastOnce
  <2>2. \A g \in net' \ net :
            /\ g.msg.hop = 0
            /\ g.msg.flood # "hello" => g.msg.seq <= seq'[g.msg.origin]
    <3> SUFFICES ASSUME NEW g \in FloodOgm(h, OwnOgm(h, seq[h] + 1), None)
                 PROVE  /\ g.msg.hop = 0
                        /\ g.msg.flood # "hello" => g.msg.seq <= seq'[g.msg.origin]
      BY <1>3 DEF BroadcastOnce
    <3>1. /\ g.msg.hop = 0 /\ g.msg.origin = h
          /\ g.msg.flood # "hello" => g.msg.seq = seq[h] + 1
      BY <1>1, OwnDatagramsNoEchoes
    <3> QED
      BY <1>1, <2>1, <3>1
  <2> QED
    BY <1>2, <1>3, <2>1, <2>2, SendingKeepsEchoes DEF BroadcastOnce
<1>4. ASSUME NEW h \in Hubs, SendHellos(h) PROVE EchoInv'
  <2>1. \A o \in Hubs : seq'[o] >= seq[o]
    BY <1>0, <1>4 DEF SendHellos, memory
  <2>2. \A g \in net' \ net :
            /\ g.msg.hop = 0
            /\ g.msg.flood # "hello" => g.msg.seq <= seq'[g.msg.origin]
    <3> SUFFICES ASSUME NEW g \in FloodOgm(h, HelloAsOgm(h, spent["hello"] + 1), None)
                 PROVE  g.msg.hop = 0 /\ g.msg.flood = "hello"
      BY <1>4 DEF SendHellos
    <3>1. HelloAsOgm(h, spent["hello"] + 1) \in Ogm
      BY <1>1, BoundAssumption DEF HelloAsOgm, Ogm
    <3>2. /\ g \in Datagram /\ g.from = h /\ g.msg = HelloAsOgm(h, spent["hello"] + 1)
          /\ <<g.from, g.to>> \in Links
      BY <3>1, FloodOgmProperties
    <3> QED
      BY <3>2 DEF HelloAsOgm
  <2> QED
    BY <1>0, <1>2, <1>4, <2>1, <2>2, SendingKeepsEchoes DEF SendHellos, memory
<1>5. ASSUME NEW h \in Hubs, StaleProbe(h) PROVE EchoInv'
  <2>1. /\ seq' \in [Hubs -> Nat] /\ seq'[h] = seq[h] + 1 /\ \A o \in Hubs : seq'[o] >= seq[o]
    BY <1>0, <1>5 DEF StaleProbe
  <2>2. ASSUME NEW g \in net' \ net
        PROVE  /\ g.msg.hop = 0
               /\ g.msg.flood # "hello" => g.msg.seq <= seq'[g.msg.origin]
    <3>1. \/ g \in FloodOgm(h, HelloAsOgm(h, spent["hello"] + 1), None)
          \/ g \in FloodOgm(h, OwnOgm(h, seq[h] + 1), None)
      BY <1>5, <2>2 DEF StaleProbe
    <3>2. CASE g \in FloodOgm(h, HelloAsOgm(h, spent["hello"] + 1), None)
      <4>1. HelloAsOgm(h, spent["hello"] + 1) \in Ogm
        BY <1>1, BoundAssumption DEF HelloAsOgm, Ogm
      <4>2. /\ g \in Datagram /\ g.from = h /\ g.msg = HelloAsOgm(h, spent["hello"] + 1)
            /\ <<g.from, g.to>> \in Links
        BY <3>2, <4>1, FloodOgmProperties
      <4> QED
        BY <4>2 DEF HelloAsOgm
    <3>3. CASE g \in FloodOgm(h, OwnOgm(h, seq[h] + 1), None)
      <4>1. /\ g.msg.hop = 0 /\ g.msg.origin = h
            /\ g.msg.flood # "hello" => g.msg.seq = seq[h] + 1
        BY <1>1, <3>3, OwnDatagramsNoEchoes
      <4> QED
        BY <1>1, <2>1, <4>1
    <3> QED
      BY <3>1, <3>2, <3>3
  <2> QED
    BY <1>2, <1>5, <2>1, <2>2, SendingKeepsEchoes DEF StaleProbe
<1>6. ASSUME NEW h \in Hubs, Restart(h) PROVE EchoInv'
  <2>1. spent'["restart"] = spent["restart"] + 1 /\ spent["restart"] \in Nat
    BY <1>0, <1>6 DEF Restart
  <2> QED
    BY <2>1 DEF EchoInv, NoRestartOrDuplicate
<1>7. ASSUME NEW h \in Hubs, NEW o \in Hubs, StaleSweep(h, o) PROVE EchoInv'
  <2>1. NoRestartOrDuplicate' => NoRestartOrDuplicate
    BY <1>0, <1>7 DEF StaleSweep, NoRestartOrDuplicate
  <2>2. UNCHANGED <<seq, lastSeq, rebroadcasted, linkEQ, net>>
    BY <1>7 DEF StaleSweep
  <2> QED
    BY <1>0, <2>1, <2>2, SendingKeepsEchoes
<1>8. ASSUME NEW g \in net, NEW sent, Exchange(g, sent), NoRestartOrDuplicate'
      PROVE  NoRestartOrDuplicate /\ net' = (net \ {g}) \cup sent
  BY <1>0, <1>8 DEF Exchange, NoRestartOrDuplicate
<1>9. ASSUME NEW g \in net, ReceiveOwn(g.to, g.msg), Exchange(g, {}) PROVE EchoInv'
  <2> SUFFICES ASSUME NoRestartOrDuplicate'
               PROVE  NetIssued' /\ \A h, n \in Hubs : EchoesPaid(h, n)'
    BY DEF EchoInv
  <2>1. NoRestartOrDuplicate /\ net' = net \ {g}
    BY <1>8, <1>9
  <2>2. /\ g.msg.origin = g.to /\ UNCHANGED <<seq, lastSeq, rebroadcasted>>
        /\ linkEQ' = [linkEQ EXCEPT ![g.to][g.from] = @ + (IF g.msg.hop > 0 THEN 1 ELSE 0)]
    BY <1>0, <1>9, ForwarderIsSender DEF ReceiveOwn
  <2>3. NetIssued'
    BY <2>1, <2>2 DEF EchoInv, NetIssued
  <2>4. ASSUME NEW h \in Hubs, NEW n \in Hubs PROVE EchoesPaid(h, n)'
    <3>1. EchoesPaid(h, n)
      BY <2>1 DEF EchoInv
    <3>2. IsFiniteSet(Echoes(h, n)) /\ Cardinality(Echoes(h, n)) \in Nat
      BY <3>1, FS_CardinalityType DEF EchoesPaid
    <3>3. CASE g \in Echoes(h, n)
      <4>1. h = g.to /\ n = g.from /\ g.msg.hop > 0
        BY <1>0, <3>3 DEF Echoes
      <4>2. linkEQ'[h][n] = linkEQ[h][n] + 1 /\ linkEQ[h][n] \in Nat
        BY <1>0, <2>2, <4>1
      <4>3. Echoes(h, n)' = Echoes(h, n) \ {g}
        BY <2>1 DEF Echoes
      <4>4. /\ IsFiniteSet(Echoes(h, n) \ {g})
            /\ Cardinality(Echoes(h, n) \ {g}) = Cardinality(Echoes(h, n)) - 1
        BY <3>2, <3>3, FS_RemoveElement
      <4>5. linkEQ'[h][n] + Cardinality(Echoes(h, n))' <= 2 * rebroadcasted[n][h]
        <5>1. rebroadcasted[n][h] \in Nat
          BY <1>0
        <5>2. linkEQ[h][n] + Cardinality(Echoes(h, n)) <= 2 * rebroadcasted[n][h]
          BY <3>1 DEF EchoesPaid
        <5> QED
          BY <3>2, <4>2, <4>3, <4>4, <5>1, <5>2
      <4> QED
        BY <2>2, <3>1, <4>3, <4>4, <4>5 DEF EchoesPaid
    <3>4. CASE g \notin Echoes(h, n)
      <4>1. Echoes(h, n)' = Echoes(h, n)
        BY <2>1, <3>4 DEF Echoes
      <4>2. linkEQ'[h][n] = linkEQ[h][n]
        <5>1. h = g.to /\ n = g.from => g.msg.hop = 0
          BY <2>2, <3>4 DEF Echoes
        <5> QED
          BY <1>0, <2>2, <5>1
      <4> QED
        BY <2>2, <3>1, <4>1, <4>2 DEF EchoesPaid
    <3> QED
      BY <3>3, <3>4
  <2> QED
    BY <2>3, <2>4
<1>10. ASSUME NEW g \in net, ReceiveOld(g.to, g.msg), Exchange(g, {}) PROVE EchoInv'
  <2> SUFFICES ASSUME NoRestartOrDuplicate'
               PROVE  NetIssued' /\ \A h, n \in Hubs : EchoesPaid(h, n)'
    BY DEF EchoInv
  <2>1. NoRestartOrDuplicate /\ net' = net \ {g}
    BY <1>8, <1>10
  <2>2. g.msg.origin # g.to /\ UNCHANGED <<seq, lastSeq, rebroadcasted, linkEQ>>
    BY <1>10 DEF ReceiveOld
  <2>3. NetIssued'
    BY <2>1, <2>2 DEF EchoInv, NetIssued
  <2>4. ASSUME NEW h \in Hubs, NEW n \in Hubs PROVE EchoesPaid(h, n)'
    <3>1. EchoesPaid(h, n)
      BY <2>1 DEF EchoInv
    <3>2. Echoes(h, n)' = Echoes(h, n)
      BY <2>1, <2>2 DEF Echoes
    <3> QED
      BY <2>2, <3>1, <3>2 DEF EchoesPaid
  <2> QED
    BY <2>3, <2>4
<1>11. ASSUME NEW g \in net, ReceiveNew(g.to, g.msg), Exchange(g, Copies(g.to, g)) PROVE EchoInv'
  <2> SUFFICES ASSUME NoRestartOrDuplicate'
               PROVE  NetIssued' /\ \A h, n \in Hubs : EchoesPaid(h, n)'
    BY DEF EchoInv
  <2> DEFINE k == g.to
             o == g.msg.origin
             m == g.msg
  <2>1. NoRestartOrDuplicate /\ net' = (net \ {g}) \cup Copies(k, g)
    BY <1>8, <1>11
  <2>2. /\ k \in Hubs /\ o \in Hubs /\ m.seq \in Nat /\ o # k
        /\ m.seq > lastSeq[k][o]
        /\ lastSeq' = [lastSeq EXCEPT ![k][o] = m.seq]
        /\ rebroadcasted' = IF Relays(k, m)
                            THEN [rebroadcasted EXCEPT ![k][o] = m.seq] ELSE rebroadcasted
        /\ UNCHANGED <<seq, linkEQ>>
    BY <1>0, <1>11, Zenon DEF ReceiveNew
  <2>3. m.ttl \in Nat /\ (m.ttl > 0 => m.flood # "hello")
    <3>1. DatagramTruthful(g) /\ g \in Datagram
      BY <1>0
    <3> QED
      BY <3>1 DEF DatagramTruthful, Datagram, Ogm
  <2>4. m.ttl > 0 => m.seq <= seq[o]
    BY <2>1, <2>3 DEF EchoInv, NetIssued
  <2>5. NetIssued'
    <3> SUFFICES ASSUME NEW q \in net', q.msg.flood # "hello"
                 PROVE  q.msg.seq <= seq[q.msg.origin]
      BY <2>2 DEF NetIssued
    <3>1. CASE q \in net
      BY <2>1, <3>1 DEF EchoInv, NetIssued
    <3>2. CASE q \in Copies(k, g)
      <4>1. m.ttl > 0 /\ q.msg.seq = m.seq /\ q.msg.origin = o
        BY <3>2, CopiesAre
      <4> QED
        BY <2>4, <4>1
    <3> QED
      BY <2>1, <3>1, <3>2
  <2>6. rebroadcasted[k][o] <= lastSeq[k][o] /\ rebroadcasted[k][o] \in Nat /\ lastSeq[k][o] \in Nat
    BY <1>0, <2>1, <2>2 DEF EchoInv, EchoesPaid
  <2>7. Relays(k, m) <=> m.ttl > 0
    <3> HIDE DEF k, o, m
    <3>1. m.seq > rebroadcasted[k][o]
      BY <2>2, <2>6
    <3> QED
      BY <2>3, <3>1 DEF Relays, o, m
  <2> HIDE DEF k, o
  <2>8. ASSUME NEW h \in Hubs, NEW n \in Hubs PROVE EchoesPaid(h, n)'
    <3>1. EchoesPaid(h, n)
      BY <2>1 DEF EchoInv
    <3>2. /\ IsFiniteSet(Echoes(h, n)) /\ Cardinality(Echoes(h, n)) \in Nat
          /\ rebroadcasted[n][h] \in Nat /\ lastSeq[n][h] \in Nat /\ seq[h] \in Nat
          /\ linkEQ[h][n] \in Nat
      BY <1>0, <3>1, FS_CardinalityType DEF EchoesPaid
    <3>3. g \notin Echoes(h, n)
      BY <2>2 DEF Echoes, k, o
    <3>4. CASE n = k /\ h = o /\ m.ttl > 0
      <4>1. /\ lastSeq'[n][h] = m.seq /\ rebroadcasted'[n][h] = m.seq
            /\ m.seq > rebroadcasted[n][h]
            /\ m.seq <= seq[h]
        BY <1>0, <2>2, <2>4, <2>6, <2>7, <3>4
      <4> DEFINE Echo(flood) == [from |-> k, to |-> h, msg |-> Relayed(k, m, flood)]
      <4>2. Echoes(h, n)' \subseteq Echoes(h, n) \cup {Echo("startup"), Echo("relay")}
        <5> SUFFICES ASSUME NEW q \in Echoes(h, n)', q \notin Echoes(h, n)
                     PROVE  q \in {Echo("startup"), Echo("relay")}
          OBVIOUS
        <5>1. q \in Copies(k, g) /\ q.to = h
          BY <2>1 DEF Echoes
        <5> QED
          <6>1. PICK flood \in {"startup", "relay"} :
                  q = [from |-> g.to, to |-> q.to, msg |-> Relayed(g.to, g.msg, flood)]
            BY <5>1, CopiesAre, Zenon DEF k
          <6>2. q = Echo(flood)
            BY <5>1, <6>1, Zenon DEF k
          <6> QED
            BY <6>2, Zenon
      <4> HIDE DEF Echo
      <4>3. /\ IsFiniteSet(Echoes(h, n) \cup {Echo("startup"), Echo("relay")})
            /\ Cardinality(Echoes(h, n) \cup {Echo("startup"), Echo("relay")})
                  <= Cardinality(Echoes(h, n)) + 2
        BY <3>2, TwoMore
      <4>4. /\ IsFiniteSet(Echoes(h, n)')
            /\ Cardinality(Echoes(h, n)') \in Nat
            /\ Cardinality(Echoes(h, n)') <= Cardinality(Echoes(h, n)) + 2
        <5>1. PICK new, bound : /\ new = Echoes(h, n)'
                                /\ bound = Echoes(h, n) \cup {Echo("startup"), Echo("relay")}
          OBVIOUS
        <5>2. /\ IsFiniteSet(new) /\ Cardinality(new) <= Cardinality(bound)
          BY <4>2, <4>3, <5>1, FS_Subset
        <5>3. Cardinality(new) \in Nat /\ Cardinality(bound) \in Nat
          BY <4>3, <5>1, <5>2, FS_CardinalityType
        <5> QED
          BY <3>2, <4>3, <5>1, <5>2, <5>3
      <4>5. linkEQ[h][n] + Cardinality(Echoes(h, n)) <= 2 * rebroadcasted[n][h]
        BY <3>1 DEF EchoesPaid
      <4>6. linkEQ'[h][n] + Cardinality(Echoes(h, n)') <= 2 * rebroadcasted'[n][h]
        BY <2>2, <3>2, <4>1, <4>4, <4>5
      <4> QED
        BY <2>2, <4>1, <4>4, <4>6 DEF EchoesPaid
    <3>5. CASE ~(n = k /\ h = o /\ m.ttl > 0)
      <4>1. rebroadcasted'[n][h] = rebroadcasted[n][h] /\ lastSeq'[n][h] >= lastSeq[n][h]
            /\ lastSeq'[n][h] \in Nat
        BY <1>0, <2>2, <2>7, <3>5
      <4>2. Echoes(h, n)' = Echoes(h, n)
        <5>1. ASSUME NEW q \in Copies(k, g) PROVE ~(q.from = n /\ q.msg.origin = h)
          BY <3>5, <5>1, CopiesAre DEF k, o
        <5> QED
          BY <2>1, <3>3, <5>1 DEF Echoes
      <4> QED
        BY <2>2, <3>1, <3>2, <4>1, <4>2 DEF EchoesPaid
    <3> QED
      BY <3>4, <3>5
  <2> QED
    BY <2>5, <2>8
<1>12. CASE UNCHANGED vars
  BY <1>0, <1>2, <1>12, SendingKeepsEchoes DEF vars, memory, database
<1> QED
  BY <1>3, <1>4, <1>5, <1>6, <1>7, <1>9, <1>10, <1>11, <1>12, Zenon DEF Next, Receive

\* While no hub restarts and no datagram is repeated, EQ, the numerator of a
\* link's TQ, never exceeds twice the OGMs that the hub has issued, however the
\* copies of one OGM chase each other through the mesh.
THEOREM EchoesAtMostTwiceHolds ==
    Spec => [](spent["restart"] = 0 /\ spent["dup"] = 0 => EchoesAtMostTwice)
<1>1. Init => EchoInv
  <2>0. Init => NetIssued
    BY DEF Init, NetIssued
  <2> SUFFICES ASSUME Init, NEW h \in Hubs, NEW n \in Hubs
               PROVE  EchoesPaid(h, n)
    BY <2>0 DEF EchoInv
  <2>1. net = {} /\ Echoes(h, n) = {}
    BY DEF Init, Echoes
  <2>2. IsFiniteSet(Echoes(h, n)) /\ Cardinality(Echoes(h, n)) = 0
    BY <2>1, FS_EmptySet
  <2>3. rebroadcasted[n][h] = 0 /\ lastSeq[n][h] = 0 /\ seq[h] = 0 /\ linkEQ[h][n] = 0
    BY DEF Init, Zero
  <2> QED
    BY <2>2, <2>3 DEF EchoesPaid
<1>2. ASSUME IInv, EchoInv, spent["restart"] = 0, spent["dup"] = 0 PROVE EchoesAtMostTwice
  <2> SUFFICES ASSUME NEW h \in Hubs, NEW n \in Hubs PROVE linkEQ[h][n] <= 2 * seq[h]
    BY DEF EchoesAtMostTwice
  <2>1. EchoesPaid(h, n)
    BY <1>2 DEF EchoInv, NoRestartOrDuplicate
  <2>2. /\ linkEQ[h][n] \in Nat /\ rebroadcasted[n][h] \in Nat /\ seq[h] \in Nat
        /\ Cardinality(Echoes(h, n)) \in Nat
    BY <1>2, <2>1, FS_CardinalityType DEF IInv, TypeOK, EchoesPaid
  <2> QED
    BY <2>1, <2>2 DEF EchoesPaid
<1> QED
  BY <1>1, <1>2, EchoStep, Invariance, PTL DEF Spec

---------------------------------------------------------------------------
\* Flooding

\* A Hello is taken for an OGM with a number far ahead, and a restarted hub begins
\* again with 1: either makes its peers drop the OGMs that follow.
NoHelloOrRestart == spent["hello"] = 0 /\ spent["restart"] = 0

\* The hubs that have taken OGM n of o.
Taken(o, n) == {x \in Hubs \ {o} : lastSeq[x][o] >= n}

\* Hub h has the latest OGM of o.
UpToDate(h, o) == h = o \/ lastSeq[h][o] >= seq[o]

\* Its latest OGM is under way to p.
UnderWay(o, p) == \E g \in net : g.to = p /\ g.msg.origin = o /\ g.msg.seq = seq[o]

\* Nobody is ahead of an origin's counter, nor has relayed what it has not taken.
CountersInStep ==
    \A h, o \in Hubs : lastSeq[h][o] <= seq[o] /\ rebroadcasted[h][o] <= lastSeq[h][o]

\* A datagram under way is an OGM that its sender has, and every hop that it has
\* made was made by another hub.
HopsCounted ==
    \A g \in net :
        /\ g.msg.flood # "hello" /\ g.msg.seq <= seq[g.msg.origin]
        /\ g.from = g.msg.origin \/ lastSeq[g.from][g.msg.origin] >= g.msg.seq
        /\ g.msg.hop <= Cardinality(Taken(g.msg.origin, g.msg.seq))

\* Whoever has the latest OGM has sent it to its peers.
FrontCovered ==
    \A o, h, p \in Hubs :
        <<h, p>> \in Links /\ seq[o] > 0 /\ UpToDate(h, o) => UpToDate(p, o) \/ UnderWay(o, p)

FloodInv ==
    NoHelloOrRestart =>
        CountersInStep /\ HopsCounted /\ (Cardinality(Hubs) <= TTL + 2 => FrontCovered)

\* A set of naturals has a least element: were there none, the numbers below all of
\* them would be finitely many and closed under + 1.
LEMMA LeastNumber ==
  ASSUME NEW S \in SUBSET Nat, S # {}
  PROVE  \E n \in S : \A m \in S : n <= m
<1> SUFFICES ASSUME \A n \in S : \E m \in S : m < n PROVE FALSE
  OBVIOUS
<1> DEFINE L == {k \in Nat : \A m \in S : k < m}
<1>1. PICK top \in S : top \in Nat
  OBVIOUS
<1>2. L \subseteq Nat /\ \A k \in L : k <= top
  BY <1>1
<1>3. 0 \in L
  OBVIOUS
<1>4. \A k \in L : k + 1 \in L \ {0}
  OBVIOUS
<1> HIDE DEF L
<1>5. IsFiniteSet(L)
  BY <1>1, <1>2, FS_BoundedSetOfNaturals
<1>6. Cardinality(L) \in Nat
  BY <1>5, FS_CardinalityType
<1>7. IsFiniteSet(L \ {0}) /\ Cardinality(L \ {0}) = Cardinality(L) - 1
  BY <1>3, <1>5, FS_RemoveElement
<1>8. PICK f : f = [k \in L |-> k + 1]
  OBVIOUS
<1>9. f \in [L -> L \ {0}]
  BY <1>4, <1>8
<1>10. \E x, y \in L : x # y /\ f[x] = f[y]
  BY <1>5, <1>6, <1>7, <1>9, FS_PigeonHole
<1> QED
  BY <1>2, <1>8, <1>10

LEMMA TakenFinite ==
  ASSUME NEW o, NEW n
  PROVE  IsFiniteSet(Taken(o, n)) /\ Cardinality(Taken(o, n)) \in Nat
<1>1. Taken(o, n) \in SUBSET Hubs
  BY DEF Taken
<1>2. IsFiniteSet(Hubs)
  BY TopologyAssumption
<1>3. IsFiniteSet(Taken(o, n))
  BY <1>1, <1>2, FS_Subset
<1> QED
  BY <1>3, FS_CardinalityType

\* Sets that lack three hubs.
LEMMA ThreeLess ==
  ASSUME NEW a \in Hubs, NEW b \in Hubs, NEW c \in Hubs, a # b, b # c, a # c,
         NEW T \in SUBSET (Hubs \ {a, b, c})
  PROVE  Cardinality(T) <= Cardinality(Hubs) - 3
<1>1. IsFiniteSet(Hubs) /\ Cardinality(Hubs) \in Nat
  BY TopologyAssumption, FS_CardinalityType
<1>2. IsFiniteSet(Hubs \ {a}) /\ Cardinality(Hubs \ {a}) = Cardinality(Hubs) - 1
  BY <1>1, FS_RemoveElement
<1>3. IsFiniteSet((Hubs \ {a}) \ {b}) /\ Cardinality((Hubs \ {a}) \ {b}) = Cardinality(Hubs) - 2
  <2>1. b \in Hubs \ {a}
    OBVIOUS
  <2>2. IsFiniteSet((Hubs \ {a}) \ {b}) /\ Cardinality((Hubs \ {a}) \ {b}) = Cardinality(Hubs \ {a}) - 1
    BY <1>2, <2>1, FS_RemoveElement
  <2> QED
    BY <1>1, <1>2, <2>2
<1>4. PICK R : R = ((Hubs \ {a}) \ {b}) \ {c}
  OBVIOUS
<1>5. IsFiniteSet(R) /\ Cardinality(R) = Cardinality(Hubs) - 3
  <2>1. c \in (Hubs \ {a}) \ {b}
    OBVIOUS
  <2>2. IsFiniteSet(R) /\ Cardinality(R) = Cardinality((Hubs \ {a}) \ {b}) - 1
    BY <1>3, <1>4, <2>1, FS_RemoveElement
  <2> QED
    BY <1>1, <1>3, <2>2
<1>6. T \in SUBSET R
  BY <1>4
<1>7. Cardinality(T) <= Cardinality(R)
  BY <1>5, <1>6, FS_Subset
<1> QED
  BY <1>5, <1>7

\* What floodOgm sends to a peer that it does not leave out.
LEMMA FloodOgmReaches ==
  ASSUME NEW h \in Hubs, NEW p \in Hubs, <<h, p>> \in Links, NEW m, NEW except, p # except
  PROVE  [from |-> h, to |-> p, msg |-> m] \in FloodOgm(h, m, except)
<1>1. p \in {q \in Peers(h) : ~(q = except /\ <<h, q>> \in LiteralPeers)}
  BY DEF Peers
<1> QED
  BY <1>1, Zenon DEF FloodOgm

\* A hub that takes the latest OGM and has a peer without it still has a hop to spend,
\* and sends it to that peer.
LEMMA FrontAdvances ==
  ASSUME IInv, CountersInStep, HopsCounted, Cardinality(Hubs) <= TTL + 2,
         NEW g \in net, ReceiveNew(g.to, g.msg), g.msg.seq = seq[g.msg.origin],
         NEW p \in Hubs, <<g.to, p>> \in Links, ~UpToDate(p, g.msg.origin)
  PROVE  \E q \in Copies(g.to, g) : q.to = p /\ q.msg.origin = g.msg.origin /\ q.msg.seq = g.msg.seq
<1> DEFINE k == g.to
           o == g.msg.origin
           m == g.msg
<1>1. /\ k \in Hubs /\ o \in Hubs /\ g.from \in Hubs
      /\ m.seq \in Nat /\ m.hop \in Nat /\ m.ttl \in Nat
      /\ DatagramTruthful(g)
  BY DEF IInv, TypeOK, Datagram, Ogm, NetTruthful
<1>2. o # k /\ m.seq > lastSeq[k][o]
  BY DEF ReceiveNew
<1>3. /\ lastSeq[p][o] \in Nat /\ lastSeq[k][o] \in Nat /\ rebroadcasted[k][o] \in Nat
      /\ seq[o] \in Nat
  BY <1>1 DEF IInv, TypeOK
<1>4. p # o /\ lastSeq[p][o] < m.seq /\ p # k
  BY <1>1, <1>3, TopologyAssumption DEF UpToDate
<1>5. p # g.from
  BY <1>1, <1>3, <1>4 DEF HopsCounted
<1>6. m.hop <= Cardinality(Taken(o, m.seq)) /\ m.flood # "hello" /\ m.hop + m.ttl = TTL
  BY <1>1 DEF HopsCounted, DatagramTruthful
<1>7. Taken(o, m.seq) \in SUBSET (Hubs \ {o, k, p})
  <2> SUFFICES ASSUME NEW x \in Taken(o, m.seq) PROVE x \notin {o, k, p} /\ x \in Hubs
    OBVIOUS
  <2>1. x \in Hubs /\ x # o /\ lastSeq[x][o] >= m.seq
    BY DEF Taken
  <2> QED
    BY <1>1, <1>2, <1>3, <1>4, <2>1
<1>8. Cardinality(Taken(o, m.seq)) <= Cardinality(Hubs) - 3
  BY <1>1, <1>2, <1>4, <1>7, ThreeLess
<1>9. Cardinality(Taken(o, m.seq)) \in Nat /\ Cardinality(Hubs) \in Nat /\ TTL \in Nat
  BY TakenFinite, TopologyAssumption, FS_CardinalityType, BoundAssumption
<1>10. m.ttl > 0
  <2> HIDE DEF k, o, m
  <2> QED
    BY <1>1, <1>6, <1>8, <1>9
<1>11. Relays(k, m)
  <2>1. rebroadcasted[k][o] <= lastSeq[k][o]
    BY <1>1 DEF CountersInStep
  <2>2. m.seq > rebroadcasted[k][o]
    <3> HIDE DEF k, o, m
    <3> QED
      BY <1>1, <1>2, <1>3, <2>1
  <2> QED
    BY <1>10, <2>2 DEF Relays
<1>12. PICK q : q = [from |-> k, to |-> p, msg |-> Relayed(k, m, "relay")]
  OBVIOUS
<1>13. q \in FloodOgm(k, Relayed(k, m, "relay"), g.from)
  BY <1>1, <1>5, <1>12, FloodOgmReaches
<1>14. q \in Copies(g.to, g)
  BY <1>11, <1>13, Zenon DEF Copies
<1>15. q.to = p /\ q.msg.origin = o /\ q.msg.seq = m.seq
  BY <1>12 DEF Relayed
<1> QED
  BY <1>14, <1>15

\* Types that the flooding lemmas use.
LEMMA FloodTypes ==
  ASSUME IInv
  PROVE  /\ seq \in [Hubs -> Nat]
         /\ lastSeq \in [Hubs -> [Hubs -> Nat]]
         /\ rebroadcasted \in [Hubs -> [Hubs -> Nat]]
         /\ spent \in [Budgets -> Nat] /\ Budgets = {"hello", "sweep", "restart", "dup"}
         /\ \A g \in net : /\ g.to \in Hubs /\ g.from \in Hubs /\ <<g.from, g.to>> \in Links
                           /\ g.msg.origin \in Hubs /\ g.msg.seq \in Nat /\ g.msg.hop \in Nat
BY DEF IInv, TypeOK, Budgets, Datagram, Ogm, NetTruthful, DatagramTruthful

\* A step that takes nothing in, and at most lets go of a datagram whose receiver
\* has nothing to learn from it.
LEMMA FloodFrame ==
  ASSUME IInv, FloodInv, UNCHANGED <<seq, lastSeq, rebroadcasted>>,
         NoHelloOrRestart' => NoHelloOrRestart,
         net' \subseteq net,
         \A g \in net \ net' : g.msg.seq = seq[g.msg.origin] => UpToDate(g.to, g.msg.origin)
  PROVE  FloodInv'
<1> SUFFICES ASSUME NoHelloOrRestart
             PROVE  /\ CountersInStep' /\ HopsCounted'
                    /\ Cardinality(Hubs) <= TTL + 2 => FrontCovered'
  BY DEF FloodInv
<1>1. CountersInStep'
  BY DEF FloodInv, CountersInStep
<1>2. \A o, n : Taken(o, n)' = Taken(o, n)
  BY DEF Taken
<1>3. HopsCounted'
  BY <1>2 DEF FloodInv, HopsCounted
<1>4. \A h, o : UpToDate(h, o)' <=> UpToDate(h, o)
  BY DEF UpToDate
<1>5. ASSUME Cardinality(Hubs) <= TTL + 2, NEW o \in Hubs, NEW h \in Hubs, NEW p \in Hubs,
             <<h, p>> \in Links, seq[o] > 0, UpToDate(h, o)
      PROVE  UpToDate(p, o) \/ UnderWay(o, p)'
  <2>1. UpToDate(p, o) \/ UnderWay(o, p)
    BY <1>5 DEF FloodInv, FrontCovered
  <2> QED
    BY <2>1 DEF UnderWay
<1> QED
  BY <1>1, <1>3, <1>4, <1>5 DEF FrontCovered

\* broadcastOnce gives a hub a new number that nobody has, and sends it to its peers.
LEMMA FloodBroadcast ==
  ASSUME IInv, FloodInv, NEW k \in Hubs, BroadcastOnce(k)
  PROVE  FloodInv'
<1>0. PICK Own : Own = OwnOgm(k, seq[k] + 1)
  OBVIOUS
<1>1. /\ UNCHANGED <<lastSeq, rebroadcasted, spent>>
      /\ seq' = [seq EXCEPT ![k] = seq[k] + 1]
      /\ net' = net \cup FloodOgm(k, Own, None)
  BY <1>0 DEF BroadcastOnce
<1> SUFFICES ASSUME NoHelloOrRestart
             PROVE  /\ CountersInStep' /\ HopsCounted'
                    /\ Cardinality(Hubs) <= TTL + 2 => FrontCovered'
  BY <1>1 DEF FloodInv, NoHelloOrRestart
<1>2. seq'[k] = seq[k] + 1 /\ \A o \in Hubs : seq'[o] >= seq[o] /\ (o # k => seq'[o] = seq[o])
  BY <1>1, FloodTypes
<1>3. CountersInStep /\ HopsCounted /\ (Cardinality(Hubs) <= TTL + 2 => FrontCovered)
  BY DEF FloodInv
<1>4. \A h, o \in Hubs : /\ seq[o] \in Nat /\ seq'[o] \in Nat
                         /\ lastSeq[h][o] \in Nat /\ rebroadcasted[h][o] \in Nat
  BY <1>1, FloodTypes
<1>5. CountersInStep'
  BY <1>1, <1>2, <1>3, <1>4 DEF CountersInStep
<1>6. Own \in Ogm /\ Own.origin = k /\ Own.seq = seq[k] + 1 /\ Own.hop = 0 /\ Own.flood = "originate"
  <2>1. seq[k] + 1 \in Nat /\ TTL \in Nat
    BY <1>4, BoundAssumption
  <2> QED
    BY <1>0, <2>1 DEF OwnOgm, Ogm
<1>7. \A g \in FloodOgm(k, Own, None) : g.from = k /\ g.msg = Own
  <2>1. Own \in Ogm
    BY <1>6
  <2>2. ASSUME NEW g \in FloodOgm(k, Own, None)
        PROVE  /\ g \in Datagram
               /\ g.from = k /\ g.msg = Own
               /\ <<g.from, g.to>> \in Links
    BY <2>1, FloodOgmProperties
  <2> QED
    BY <2>2
<1>8. \A o, n : Taken(o, n)' = Taken(o, n)
  BY <1>1 DEF Taken
<1>9. HopsCounted'
  <2> SUFFICES ASSUME NEW g \in net'
               PROVE  /\ g.msg.flood # "hello" /\ g.msg.seq <= seq'[g.msg.origin]
                      /\ g.from = g.msg.origin \/ lastSeq[g.from][g.msg.origin] >= g.msg.seq
                      /\ g.msg.hop <= Cardinality(Taken(g.msg.origin, g.msg.seq))
    BY <1>1, <1>8 DEF HopsCounted
  <2>1. CASE g \in net
    <3>1. g.msg.origin \in Hubs /\ g.msg.seq \in Nat
      BY <2>1, FloodTypes
    <3> QED
      BY <1>2, <1>3, <1>4, <2>1, <3>1 DEF HopsCounted
  <2>2. CASE g \in FloodOgm(k, Own, None)
    <3>1. g.from = k /\ g.msg = Own
      BY <1>7, <2>2
    <3>2. Cardinality(Taken(k, seq[k] + 1)) \in Nat
      BY TakenFinite
    <3> QED
      BY <1>2, <1>4, <1>6, <3>1, <3>2
  <2> QED
    BY <1>1, <2>1, <2>2
<1>10. ASSUME Cardinality(Hubs) <= TTL + 2, NEW o \in Hubs, NEW h \in Hubs, NEW p \in Hubs,
              <<h, p>> \in Links, seq'[o] > 0, UpToDate(h, o)'
       PROVE  UpToDate(p, o)' \/ UnderWay(o, p)'
  <2>1. CASE o = k
    <3>1. h = k
      <4>1. lastSeq[h][o] <= seq[o]
        BY <1>3 DEF CountersInStep
      <4>2. h = o \/ lastSeq[h][o] >= seq'[o]
        BY <1>1, <1>10 DEF UpToDate
      <4> QED
        BY <1>2, <1>4, <2>1, <4>1, <4>2
    <3>2. PICK q : q = [from |-> k, to |-> p, msg |-> Own]
      OBVIOUS
    <3>3. p # None
      BY TopologyAssumption
    <3>4. q \in FloodOgm(k, Own, None)
      BY <1>10, <3>1, <3>2, <3>3, FloodOgmReaches
    <3>5. q \in net' /\ q.to = p /\ q.msg = Own
      BY <1>1, <3>2, <3>4
    <3> QED
      BY <1>2, <1>6, <2>1, <3>5 DEF UnderWay
  <2>2. CASE o # k
    <3>1. seq'[o] = seq[o]
      BY <1>2, <2>2
    <3>2. UpToDate(h, o)
      BY <1>1, <1>10, <3>1 DEF UpToDate
    <3>3. UpToDate(p, o) \/ UnderWay(o, p)
      BY <1>3, <1>10, <3>1, <3>2 DEF FrontCovered
    <3>4. UpToDate(p, o) => UpToDate(p, o)'
      BY <1>1, <3>1 DEF UpToDate
    <3>5. UnderWay(o, p) => UnderWay(o, p)'
      BY <1>1, <3>1 DEF UnderWay
    <3> QED
      BY <3>3, <3>4, <3>5
  <2> QED
    BY <2>1, <2>2
<1> QED
  BY <1>5, <1>9, <1>10 DEF FrontCovered

\* handleOgm on a new number: the receiver joins the hubs that have it, and what it
\* sends on has made one hop more.
LEMMA FloodReceiveNew ==
  ASSUME IInv, FloodInv, NEW g \in net, ReceiveNew(g.to, g.msg), Exchange(g, Copies(g.to, g))
  PROVE  FloodInv'
<1> DEFINE k == g.to
           m == g.msg
<1>1. /\ lastSeq' = [lastSeq EXCEPT ![k][m.origin] = m.seq]
      /\ rebroadcasted' = IF Relays(k, m)
                          THEN [rebroadcasted EXCEPT ![k][m.origin] = m.seq] ELSE rebroadcasted
      /\ seq' = seq
      /\ m.origin # k /\ m.seq > lastSeq[k][m.origin]
  BY Zenon DEF ReceiveNew
<1>2. /\ net \ {g} \subseteq net' /\ Copies(k, g) \subseteq net'
      /\ net' \subseteq net \cup Copies(k, g)
      /\ spent'["hello"] = spent["hello"] /\ spent'["restart"] = spent["restart"]
  BY FloodTypes DEF Exchange
<1> SUFFICES ASSUME NoHelloOrRestart
             PROVE  /\ CountersInStep' /\ HopsCounted'
                    /\ Cardinality(Hubs) <= TTL + 2 => FrontCovered'
  BY <1>2 DEF FloodInv, NoHelloOrRestart
<1>3. CountersInStep /\ HopsCounted /\ (Cardinality(Hubs) <= TTL + 2 => FrontCovered)
  BY DEF FloodInv
<1>4. /\ k \in Hubs /\ m.origin \in Hubs /\ m.seq \in Nat /\ m.hop \in Nat
  BY FloodTypes
<1>5. /\ m.flood # "hello" /\ m.seq <= seq[m.origin]
      /\ m.hop <= Cardinality(Taken(m.origin, m.seq))
  BY <1>3 DEF HopsCounted
<1> HIDE DEF k, m
<1>6. \A h, x \in Hubs : /\ seq[x] \in Nat /\ lastSeq[h][x] \in Nat /\ rebroadcasted[h][x] \in Nat
                         /\ lastSeq'[h][x] \in Nat /\ lastSeq'[h][x] >= lastSeq[h][x]
                         /\ lastSeq'[k][m.origin] = m.seq
                         /\ ~(h = k /\ x = m.origin) => lastSeq'[h][x] = lastSeq[h][x]
                         /\ rebroadcasted'[h][x] = rebroadcasted[h][x] \/ rebroadcasted'[h][x] = lastSeq'[h][x]
  BY <1>1, <1>4, FloodTypes
<1>7. CountersInStep'
  <2> SUFFICES ASSUME NEW h \in Hubs, NEW x \in Hubs
               PROVE  lastSeq'[h][x] <= seq[x] /\ rebroadcasted'[h][x] <= lastSeq'[h][x]
    BY <1>1 DEF CountersInStep
  <2>1. lastSeq[h][x] <= seq[x] /\ rebroadcasted[h][x] <= lastSeq[h][x]
    BY <1>3 DEF CountersInStep
  <2> QED
    BY <1>5, <1>6, <2>1
<1>8. ASSUME NEW x \in Hubs, NEW n \in Nat PROVE Taken(x, n) \subseteq Taken(x, n)'
  BY <1>6 DEF Taken
<1>9. ASSUME NEW x \in Hubs, NEW n \in Nat
      PROVE  /\ Cardinality(Taken(x, n)) \in Nat /\ Cardinality(Taken(x, n)') \in Nat
             /\ Cardinality(Taken(x, n)) <= Cardinality(Taken(x, n)')
  <2>1. PICK S, T : S = Taken(x, n) /\ T = Taken(x, n)'
    OBVIOUS
  <2>2. T \in SUBSET Hubs
    BY <2>1 DEF Taken
  <2>3. IsFiniteSet(T)
    BY <2>2, TopologyAssumption, FS_Subset
  <2>4. S \in SUBSET T
    BY <1>8, <2>1
  <2>5. IsFiniteSet(S) /\ Cardinality(S) <= Cardinality(T)
    BY <2>3, <2>4, FS_Subset
  <2>6. Cardinality(S) \in Nat /\ Cardinality(T) \in Nat
    BY <2>3, <2>5, FS_CardinalityType
  <2> QED
    BY <2>1, <2>5, <2>6
<1>10. m.hop + 1 <= Cardinality(Taken(m.origin, m.seq)')
  <2>1. PICK S, T : S = Taken(m.origin, m.seq) /\ T = Taken(m.origin, m.seq)'
    OBVIOUS
  <2>2. k \notin S
    BY <1>1, <1>4, <1>6, <2>1 DEF Taken
  <2>3. k \in T
    BY <1>1, <1>4, <1>6, <2>1 DEF Taken
  <2>4. IsFiniteSet(S)
    BY <2>1, TakenFinite
  <2>5. IsFiniteSet(S \cup {k}) /\ Cardinality(S \cup {k}) = Cardinality(S) + 1
    BY <2>2, <2>4, FS_AddElement
  <2>6. T \in SUBSET Hubs
    BY <2>1 DEF Taken
  <2>7. IsFiniteSet(T)
    BY <2>6, TopologyAssumption, FS_Subset
  <2>8. S \cup {k} \in SUBSET T
    BY <1>4, <1>8, <2>1, <2>3
  <2>9. Cardinality(S \cup {k}) <= Cardinality(T)
    BY <2>7, <2>8, FS_Subset
  <2>10. Cardinality(S) \in Nat /\ Cardinality(T) \in Nat
    BY <2>4, <2>7, FS_CardinalityType
  <2> QED
    BY <1>4, <1>5, <2>1, <2>5, <2>9, <2>10
<1>11. HopsCounted'
  <2> SUFFICES ASSUME NEW q \in net'
               PROVE  /\ q.msg.flood # "hello" /\ q.msg.seq <= seq[q.msg.origin]
                      /\ q.from = q.msg.origin \/ lastSeq'[q.from][q.msg.origin] >= q.msg.seq
                      /\ q.msg.hop <= Cardinality(Taken(q.msg.origin, q.msg.seq)')
    BY <1>1 DEF HopsCounted
  <2>1. CASE q \in net
    <3>1. /\ q.msg.origin \in Hubs /\ q.from \in Hubs /\ q.msg.seq \in Nat /\ q.msg.hop \in Nat
      BY <2>1, FloodTypes
    <3>2. /\ q.msg.flood # "hello" /\ q.msg.seq <= seq[q.msg.origin]
          /\ q.from = q.msg.origin \/ lastSeq[q.from][q.msg.origin] >= q.msg.seq
          /\ q.msg.hop <= Cardinality(Taken(q.msg.origin, q.msg.seq))
      BY <1>3, <2>1 DEF HopsCounted
    <3>3. PICK x \in Hubs, n \in Nat : x = q.msg.origin /\ n = q.msg.seq
      BY <3>1
    <3>4. q.msg.hop <= Cardinality(Taken(x, n)')
      BY <1>9, <3>1, <3>2, <3>3
    <3>5. q.from = x \/ lastSeq'[q.from][x] >= n
      BY <1>6, <3>1, <3>2, <3>3
    <3> QED
      BY <3>2, <3>3, <3>4, <3>5
  <2>2. CASE q \in Copies(k, g)
    <3>1. PICK flood \in {"startup", "relay"} :
            q = [from |-> k, to |-> q.to, msg |-> Relayed(k, m, flood)]
      BY <2>2, CopiesAre, Zenon DEF k, m
    <3>2. /\ q.from = k /\ q.msg.flood # "hello" /\ q.msg.hop = m.hop + 1
          /\ q.msg.seq = m.seq /\ q.msg.origin = m.origin
      BY <3>1 DEF Relayed
    <3> QED
      BY <1>4, <1>5, <1>6, <1>10, <3>2
  <2> QED
    BY <1>2, <2>1, <2>2
<1>12. \A h, x \in Hubs : UpToDate(h, x) => UpToDate(h, x)'
  BY <1>1, <1>6 DEF UpToDate
<1>13. ASSUME Cardinality(Hubs) <= TTL + 2, NEW x \in Hubs, NEW h \in Hubs, NEW p \in Hubs,
              <<h, p>> \in Links, seq[x] > 0, UpToDate(h, x)'
       PROVE  UpToDate(p, x)' \/ UnderWay(x, p)'
  <2> SUFFICES ASSUME ~UpToDate(p, x)' PROVE UnderWay(x, p)'
    OBVIOUS
  <2>1. ~UpToDate(p, x)
    BY <1>12
  <2>2. CASE UpToDate(h, x)
    <3>1. PICK q \in net : q.to = p /\ q.msg.origin = x /\ q.msg.seq = seq[x]
      BY <1>3, <1>13, <2>1, <2>2 DEF FrontCovered, UnderWay
    <3>2. q # g
      <4>1. lastSeq'[p][x] < seq[x] /\ p # x
        BY <1>1, <1>6 DEF UpToDate
      <4> QED
        BY <1>6, <3>1, <4>1 DEF k, m
    <3>3. q \in net'
      BY <1>2, <3>2
    <3> QED
      BY <1>1, <3>1, <3>3 DEF UnderWay
  <2>3. CASE ~UpToDate(h, x)
    <3>1. h = k /\ x = m.origin
      BY <1>1, <1>6, <1>13, <2>3 DEF UpToDate
    <3>2. m.seq = seq[m.origin]
      <4>1. m.seq >= seq[m.origin]
        BY <1>1, <1>6, <1>13, <2>3, <3>1 DEF UpToDate
      <4> QED
        BY <1>4, <1>5, <1>6, <4>1
    <3>3. \E q \in Copies(g.to, g) : q.to = p /\ q.msg.origin = g.msg.origin /\ q.msg.seq = g.msg.seq
      BY <1>3, <1>13, <2>1, <3>1, <3>2, FrontAdvances DEF k, m
    <3>4. PICK q \in Copies(k, g) : q.to = p /\ q.msg.origin = m.origin /\ q.msg.seq = m.seq
      BY <3>3 DEF k, m
    <3>5. q \in net'
      BY <1>2
    <3> QED
      BY <1>1, <3>1, <3>2, <3>4, <3>5 DEF UnderWay
  <2> QED
    BY <2>2, <2>3
<1> QED
  BY <1>1, <1>7, <1>11, <1>13 DEF FrontCovered

LEMMA FloodStep ==
  ASSUME IInv, FloodInv, [Next]_vars
  PROVE  FloodInv'
<1>1. ASSUME NEW h \in Hubs, SendHellos(h) \/ StaleProbe(h) \/ Restart(h) PROVE FloodInv'
  <2>1. spent'["hello"] = spent["hello"] + 1 \/ spent'["restart"] = spent["restart"] + 1
    BY <1>1, FloodTypes DEF SendHellos, StaleProbe, Restart
  <2>2. spent["hello"] \in Nat /\ spent["restart"] \in Nat
    BY FloodTypes
  <2> QED
    BY <2>1, <2>2 DEF FloodInv, NoHelloOrRestart
<1>2. ASSUME NEW h \in Hubs, NEW o \in Hubs, StaleSweep(h, o) PROVE FloodInv'
  <2>1. UNCHANGED <<seq, lastSeq, rebroadcasted, net>> /\ (NoHelloOrRestart' => NoHelloOrRestart)
    BY <1>2, FloodTypes DEF StaleSweep, NoHelloOrRestart
  <2> QED
    BY <2>1, FloodFrame
<1>3. ASSUME NEW g \in net, ReceiveOwn(g.to, g.msg) \/ ReceiveOld(g.to, g.msg), Exchange(g, {})
      PROVE  FloodInv'
  <2>1. UNCHANGED <<seq, lastSeq, rebroadcasted>>
    BY <1>3 DEF ReceiveOwn, ReceiveOld
  <2>2. net' \subseteq net /\ net \ {g} \subseteq net' /\ (NoHelloOrRestart' => NoHelloOrRestart)
    BY <1>3, FloodTypes DEF Exchange, NoHelloOrRestart
  <2>3. g.msg.seq = seq[g.msg.origin] => UpToDate(g.to, g.msg.origin)
    BY <1>3 DEF ReceiveOwn, ReceiveOld, UpToDate
  <2> QED
    BY <2>1, <2>2, <2>3, FloodFrame
<1>4. CASE UNCHANGED vars
  <2>1. UNCHANGED <<seq, lastSeq, rebroadcasted, net, spent>>
    BY <1>4 DEF vars, memory, database
  <2> QED
    BY <2>1, FloodFrame DEF NoHelloOrRestart
<1> QED
  BY <1>1, <1>2, <1>3, <1>4, FloodBroadcast, FloodReceiveNew, Zenon DEF Next, Receive

\* With nothing under way, the hubs that have the latest OGM of o are closed under
\* the links, and so every hub at a finite distance is one of them: the nearest one
\* that is not would have a neighbour nearer to o.
LEMMA FloodQuiescent ==
  ASSUME IInv, FloodInv, NoHelloOrRestart
  PROVE  FloodReachesAll
<1> SUFFICES ASSUME net = {}, Cardinality(Hubs) <= TTL + 2, NEW o \in Hubs,
                    NEW b \in Hubs, b # o, Dist[o][b] < Cardinality(Hubs),
                    ~(lastSeq[b][o] >= seq[o])
             PROVE  FALSE
  BY DEF FloodReachesAll
<1>1. FrontCovered
  BY DEF FloodInv
<1>2. \A h \in Hubs : lastSeq[h][o] \in Nat /\ seq[o] \in Nat /\ Dist[o][h] \in Nat
  BY FloodTypes, DistAssumption
<1>3. seq[o] > 0
  BY <1>2
<1>4. \A h, p \in Hubs : <<h, p>> \in Links /\ UpToDate(h, o) => UpToDate(p, o)
  BY <1>1, <1>3 DEF FrontCovered, UnderWay
<1> DEFINE Behind == {h \in Hubs : Dist[o][h] < Cardinality(Hubs) /\ ~UpToDate(h, o)}
           Radii == {Dist[o][h] : h \in Behind}
<1>5. b \in Behind
  BY DEF UpToDate
<1>6. Radii \in SUBSET Nat /\ Radii # {}
  BY <1>2, <1>5
<1>7. PICK n \in Radii : \A r \in Radii : n <= r
  BY <1>6, LeastNumber
<1>8. PICK h \in Behind : n = Dist[o][h]
  OBVIOUS
<1>9. h \in Hubs /\ h # o /\ Dist[o][h] < Cardinality(Hubs) /\ ~UpToDate(h, o)
  BY DEF UpToDate
<1>10. 0 < Dist[o][h]
  BY <1>2, <1>9, DistAssumption
<1>11. PICK p \in Hubs : <<p, h>> \in Links /\ Dist[o][p] < Dist[o][h]
  BY <1>9, <1>10, DistAssumption
<1>12. ~UpToDate(p, o)
  BY <1>4, <1>9, <1>11
<1>13. Cardinality(Hubs) \in Nat
  BY TopologyAssumption, FS_CardinalityType
<1>14. p \in Behind
  BY <1>2, <1>9, <1>11, <1>12, <1>13
<1>15. n <= Dist[o][p]
  BY <1>7, <1>14
<1> QED
  BY <1>2, <1>8, <1>9, <1>11, <1>15

\* While no hello was sent and no hub restarted, an OGM flood that has come to rest
\* has reached every hub that its origin can reach, for every topology whose loop-free
\* paths fit into OGMTTL and however the copies overtake each other or are repeated.
THEOREM FloodReachesAllHolds ==
    Spec => [](spent["hello"] = 0 /\ spent["restart"] = 0 => FloodReachesAll)
<1>1. Init => FloodInv
  <2> SUFFICES ASSUME Init PROVE CountersInStep /\ HopsCounted /\ FrontCovered
    BY DEF FloodInv
  <2>1. net = {} /\ \A h, o \in Hubs : seq[o] = 0 /\ lastSeq[h][o] = 0 /\ rebroadcasted[h][o] = 0
    BY DEF Init, Zero
  <2> QED
    BY <2>1 DEF CountersInStep, HopsCounted, FrontCovered
<1>2. IInv /\ FloodInv => (spent["hello"] = 0 /\ spent["restart"] = 0 => FloodReachesAll)
  BY FloodQuiescent DEF NoHelloOrRestart
<1> QED
  BY <1>1, <1>2, FloodStep, Invariance, PTL DEF Spec
=============================================================================
