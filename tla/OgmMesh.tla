------------------------------ MODULE OgmMesh ------------------------------
(***************************************************************************)
(* hub/internal/ogmengine on every hub of a mesh: originator messages      *)
(* (OGMs) flooded over UDP, hello pings, stale-node sweeps and probes, and *)
(* process restarts.  Datagrams may be lost (a packet in net is never      *)
(* bound to be delivered), reordered and duplicated.  One handler runs     *)
(* atomically here.                                                        *)
(***************************************************************************)
EXTENDS RouteTable, FiniteSets

CONSTANTS
    Hubs,          \* the hubs of the mesh
    Links,         \* <<h, p>>: p is in the Peers of h's configuration
    LiteralPeers,  \* the links configured as the ip:port the peer sends from
    Dist,          \* Dist[o][h]: length of a shortest path from o to h, or the
                   \* number of hubs if there is none
    TTL,           \* OGMTTL: the hop budget of an OGM
    HelloEpoch,    \* the wall clock in ms, far above any OGM counter
    None           \* an absent last_hop_id

CONSTANTS          \* bounds of the model
    MaxSeq,        \* MaxSeq[h]: OGMs hub h originates in one life
    MaxHellos,     \* hello rounds in the whole mesh
    MaxSweeps,     \* stale verdicts in the whole mesh
    MaxRestarts,   \* restarts in the whole mesh
    MaxDups        \* datagrams delivered twice

ASSUME TopologyAssumption ==
    /\ IsFiniteSet(Hubs)
    /\ Links \subseteq Hubs \X Hubs
    /\ LiteralPeers \subseteq Links
    /\ \A l \in Links : l[1] # l[2]
    /\ None \notin Hubs

ASSUME DistAssumption ==
    /\ Dist \in [Hubs -> [Hubs -> Nat]]
    /\ \A o, h \in Hubs : Dist[o][h] = 0 <=> o = h
    /\ \A o \in Hubs, l \in Links : Dist[o][l[2]] <= Dist[o][l[1]] + 1
    /\ \A o, h \in Hubs :
        0 < Dist[o][h] /\ Dist[o][h] < Cardinality(Hubs) =>
            \E p \in Hubs : <<p, h>> \in Links /\ Dist[o][p] < Dist[o][h]

ASSUME BoundAssumption ==
    /\ TTL \in Nat /\ HelloEpoch \in Nat
    /\ MaxSeq \in [Hubs -> Nat]
    /\ MaxHellos \in Nat /\ MaxSweeps \in Nat
    /\ MaxRestarts \in Nat /\ MaxDups \in Nat

VARIABLES
    seq,            \* Engine.seq: OGMs originated since start
    lastSeq,        \* Engine.lastSeq; 0 for an origin not heard yet
    rebroadcasted,  \* Engine.rebroadcasted
    linkRQ,         \* Engine.linkRQ: packets accepted for parsing, by forwarder
    linkEQ,         \* Engine.linkEQ: own OGMs heard back, by forwarder
    alternates,     \* Engine.alternates
    status,         \* node_registry.status, persistent
    routes,         \* routing_table, persistent
    proximity,      \* proximity_events recorded by recordProximity, persistent
    net,            \* datagrams under way
    spent           \* how much of each bound is used up

memory == <<seq, lastSeq, rebroadcasted, linkRQ, linkEQ, alternates>>
database == <<status, routes, proximity>>
vars == <<memory, database, net, spent>>

Peers(h) == {p \in Hubs : <<h, p>> \in Links}

(* A message is what the receiver decodes; a datagram is a message between *)
(* two hubs.  "flood" tells which function sent the message and is not on  *)
(* the wire: it keeps apart the two copies of one OGM that a hub may send  *)
(* (rebroadcastStartup and maybeRebroadcast).                              *)
Ogm == [origin : Hubs, seq : Nat, ttl : Nat, hop : Nat, lastHop : Hubs \cup {None},
        flood : {"originate", "hello", "startup", "relay"}]

Datagram == [from : Hubs, to : Hubs, msg : Ogm]

Status == {"unknown", "online", "stale"}

Budgets == {"hello", "sweep", "restart", "dup"}

TypeOK ==
    /\ seq \in [Hubs -> Nat]
    /\ lastSeq \in [Hubs -> [Hubs -> Nat]]
    /\ rebroadcasted \in [Hubs -> [Hubs -> Nat]]
    /\ linkRQ \in [Hubs -> [Hubs -> Nat]]
    /\ linkEQ \in [Hubs -> [Hubs -> Nat]]
    /\ alternates \in [Hubs -> [Hubs -> Seq(Route(Hubs))]]
    /\ status \in [Hubs -> [Hubs -> Status]]
    /\ routes \in [Hubs -> SUBSET Route(Hubs)]
    /\ proximity \in [Hubs -> SUBSET (Hubs \X {"hub_direct", "hub_relay"})]
    /\ net \in SUBSET Datagram
    /\ spent \in [Budgets -> Nat]

\* What New leaves in memory.
Zero == [o \in Hubs |-> 0]
NoAlternates == [d \in Hubs |-> << >>]

Init ==
    /\ seq = Zero
    /\ lastSeq = [h \in Hubs |-> Zero]
    /\ rebroadcasted = [h \in Hubs |-> Zero]
    /\ linkRQ = [h \in Hubs |-> Zero]
    /\ linkEQ = [h \in Hubs |-> Zero]
    /\ alternates = [h \in Hubs |-> NoAlternates]
    /\ status = [h \in Hubs |-> [o \in Hubs |-> "unknown"]]
    /\ routes = [h \in Hubs |-> {}]
    /\ proximity = [h \in Hubs |-> {}]
    /\ net = {}
    /\ spent = [x \in Budgets |-> 0]

---------------------------------------------------------------------------
\* Sending

\* floodOgm: to every peer, except the one whose configured address is the
\* source address of the packet being relayed.
FloodOgm(h, msg, except) ==
    {[from |-> h, to |-> p, msg |-> msg] :
        p \in {q \in Peers(h) : ~(q = except /\ <<h, q>> \in LiteralPeers)}}

\* The OGM of broadcastOnce and broadcastStartup.
OwnOgm(h, n) ==
    [origin |-> h, seq |-> n, ttl |-> TTL, hop |-> 0, lastHop |-> None,
     flood |-> "originate"]

\* A Hello on the wire is a node id in field 1 and a varint in field 2: the
\* first two fields of an Ogm.  handlePacket tries Ogm first, and sees an OGM
\* of no hops and no ttl whose sequence number is the sender's clock.
HelloAsOgm(h, clock) ==
    [origin |-> h, seq |-> HelloEpoch + clock, ttl |-> 0, hop |-> 0, lastHop |-> None,
     flood |-> "hello"]

\* Fault: the hop is not counted.
RelayedUncounted(h, m, flood) ==
    [origin |-> m.origin, seq |-> m.seq, ttl |-> m.ttl - 1, hop |-> m.hop,
     lastHop |-> h, flood |-> flood]

\* The clone that a relaying hub sends on.
Relayed(h, m, flood) ==
    [origin |-> m.origin, seq |-> m.seq, ttl |-> m.ttl - 1, hop |-> m.hop + 1,
     lastHop |-> h, flood |-> flood]

\* sendLoop: at start and on every tick.
BroadcastOnce(h) ==
    /\ seq[h] < MaxSeq[h]
    /\ seq' = [seq EXCEPT ![h] = @ + 1]
    /\ net' = net \cup FloodOgm(h, OwnOgm(h, seq[h] + 1), None)
    /\ UNCHANGED <<lastSeq, rebroadcasted, linkRQ, linkEQ, alternates, database, spent>>

\* helloLoop: every two seconds.
SendHellos(h) ==
    /\ spent["hello"] < MaxHellos
    /\ spent' = [spent EXCEPT !["hello"] = @ + 1]
    /\ net' = net \cup FloodOgm(h, HelloAsOgm(h, spent["hello"] + 1), None)
    /\ UNCHANGED <<memory, database>>

\* staleProbeLoop: while some node is stale, hellos and an extra OGM.
StaleProbe(h) ==
    /\ \E o \in Hubs : status[h][o] = "stale"
    /\ spent["hello"] < MaxHellos
    /\ seq[h] < MaxSeq[h]
    /\ spent' = [spent EXCEPT !["hello"] = @ + 1]
    /\ seq' = [seq EXCEPT ![h] = @ + 1]
    /\ net' = net \cup FloodOgm(h, HelloAsOgm(h, spent["hello"] + 1), None)
                  \cup FloodOgm(h, OwnOgm(h, seq[h] + 1), None)
    /\ UNCHANGED <<lastSeq, rebroadcasted, linkRQ, linkEQ, alternates, database>>

---------------------------------------------------------------------------
\* Receiving

\* Fault: the origin is credited for every hop.
ForwarderIgnoresLastHop(m) == m.origin

\* resolveForwarder: the last hop, or the origin of a message sent by its
\* origin (whose address then maps to the origin in peerByAddr too).
Forwarder(m) == IF m.lastHop = None THEN m.origin ELSE m.lastHop

\* The datagram leaves the network (or, a duplicate, does not) and the ones the
\* handler sends enter it.
Exchange(g, sent) ==
    \/ /\ net' = (net \ {g}) \cup sent
       /\ UNCHANGED spent
    \/ /\ spent["dup"] < MaxDups
       /\ net' = net \cup sent
       /\ spent' = [spent EXCEPT !["dup"] = @ + 1]

\* Fault: an echo counts once for every hop that it took.
ReceiveOwnByHops(h, m) ==
    /\ m.origin = h
    /\ linkEQ' = [linkEQ EXCEPT ![h][Forwarder(m)] = @ + m.hop]
    /\ UNCHANGED <<seq, lastSeq, rebroadcasted, linkRQ, alternates, database>>

\* handleOgm, an own OGM: an echo if another hub sent it.
ReceiveOwn(h, m) ==
    /\ m.origin = h
    /\ linkEQ' = [linkEQ EXCEPT ![h][Forwarder(m)] = @ + (IF m.hop > 0 THEN 1 ELSE 0)]
    /\ UNCHANGED <<seq, lastSeq, rebroadcasted, linkRQ, alternates, database>>

\* handleOgm, the early return for a sequence number that is not new.
ReceiveOld(h, m) ==
    /\ m.origin # h
    /\ m.seq <= lastSeq[h][m.origin]
    /\ linkRQ' = [linkRQ EXCEPT ![h][Forwarder(m)] = @ + 1]
    /\ UNCHANGED <<seq, lastSeq, rebroadcasted, linkEQ, alternates, database>>

\* The route that an accepted OGM offers.  The latency is 0: a Hello never
\* reaches handleHello, so latencyMs stays empty.
Candidate(h, m) ==
    LET f == Forwarder(m)
        linkTQ == ComputeTQ(linkEQ[h][f], linkRQ[h][f] + 1)
    IN  [dest |-> m.origin, nextHop |-> f,
         tq |-> IF m.hop > 0 THEN PathTQ(linkTQ, (85 * Scale) \div 100) ELSE linkTQ,
         latencyMs |-> 0, hopCount |-> m.hop + 1]

\* Fault: no guard on the ttl.
AnnouncesWithoutTtl(h, m) == status[h][m.origin] # "online"

\* rebroadcastStartup: a node that comes online is announced at once.
Announces(h, m) == status[h][m.origin] # "online" /\ m.ttl > 0

\* Fault: remembers which origins were relayed, not which sequence numbers.
RelaysOriginOnce(h, m) == m.ttl > 0 /\ rebroadcasted[h][m.origin] = 0

\* maybeRebroadcast: once for every sequence number.
Relays(h, m) == m.ttl > 0 /\ m.seq > rebroadcasted[h][m.origin]

\* What handleOgm sends on, to all peers but the one it came from.
Copies(h, g) ==
    (IF Announces(h, g.msg)
     THEN FloodOgm(h, Relayed(h, g.msg, "startup"), g.from) ELSE {})
    \cup
    (IF Relays(h, g.msg)
     THEN FloodOgm(h, Relayed(h, g.msg, "relay"), g.from) ELSE {})

\* handleOgm, a new sequence number.
ReceiveNew(h, m) ==
    LET o == m.origin IN
    /\ o # h
    /\ m.seq > lastSeq[h][o]
    /\ linkRQ' = [linkRQ EXCEPT ![h][Forwarder(m)] = @ + 1]
    /\ lastSeq' = [lastSeq EXCEPT ![h][o] = m.seq]
    /\ status' = [status EXCEPT ![h][o] = "online"]
    /\ proximity' = [proximity EXCEPT ![h] =
            @ \cup {<<o, IF m.hop = 0 THEN "hub_direct" ELSE "hub_relay">>}]
    /\ routes' = [routes EXCEPT ![h] = TableAfterCandidate(@, Candidate(h, m))]
    /\ alternates' = [alternates EXCEPT ![h] =
            AlternatesAfterCandidate(@, routes[h], Candidate(h, m))]
    /\ rebroadcasted' = IF Relays(h, m)
                        THEN [rebroadcasted EXCEPT ![h][o] = m.seq] ELSE rebroadcasted
    /\ UNCHANGED <<seq, linkEQ>>

\* receiveLoop: one datagram, handled to the end.
Receive(g) ==
    \/ ReceiveOwn(g.to, g.msg) /\ Exchange(g, {})
    \/ ReceiveOld(g.to, g.msg) /\ Exchange(g, {})
    \/ ReceiveNew(g.to, g.msg) /\ Exchange(g, Copies(g.to, g))

---------------------------------------------------------------------------
\* Time and failure

\* Fault: the row of a stale node is deleted.
StaleSweepDeletes(h, o) ==
    /\ spent["sweep"] < MaxSweeps
    /\ status[h][o] = "online"
    /\ spent' = [spent EXCEPT !["sweep"] = @ + 1]
    /\ status' = [status EXCEPT ![h][o] = "unknown"]
    /\ routes' = [routes EXCEPT ![h] = TableAfterFailover(@, alternates[h], o)]
    /\ alternates' = [alternates EXCEPT ![h] = AlternatesAfterFailover(@, o)]
    /\ UNCHANGED <<seq, lastSeq, rebroadcasted, linkRQ, linkEQ, proximity, net>>

\* staleSweepLoop, for one online node not heard for StaleAfter: it is marked
\* stale and routes that use it fail over.
StaleSweep(h, o) ==
    /\ spent["sweep"] < MaxSweeps
    /\ status[h][o] = "online"
    /\ spent' = [spent EXCEPT !["sweep"] = @ + 1]
    /\ status' = [status EXCEPT ![h][o] = "stale"]
    /\ routes' = [routes EXCEPT ![h] = TableAfterFailover(@, alternates[h], o)]
    /\ alternates' = [alternates EXCEPT ![h] = AlternatesAfterFailover(@, o)]
    /\ UNCHANGED <<seq, lastSeq, rebroadcasted, linkRQ, linkEQ, proximity, net>>

\* The process stops and New builds a fresh engine over the same database.
Restart(h) ==
    /\ spent["restart"] < MaxRestarts
    /\ spent' = [spent EXCEPT !["restart"] = @ + 1]
    /\ seq' = [seq EXCEPT ![h] = 0]
    /\ lastSeq' = [lastSeq EXCEPT ![h] = Zero]
    /\ rebroadcasted' = [rebroadcasted EXCEPT ![h] = Zero]
    /\ linkRQ' = [linkRQ EXCEPT ![h] = Zero]
    /\ linkEQ' = [linkEQ EXCEPT ![h] = Zero]
    /\ alternates' = [alternates EXCEPT ![h] = NoAlternates]
    /\ UNCHANGED <<database, net>>

Next ==
    \/ \E h \in Hubs : BroadcastOnce(h) \/ SendHellos(h) \/ StaleProbe(h) \/ Restart(h)
    \/ \E g \in net : Receive(g)
    \/ \E h, o \in Hubs : StaleSweep(h, o)

Spec == Init /\ [][Next]_vars

---------------------------------------------------------------------------
\* Properties

AlternatesOf(h) == UNION {Range(alternates[h][d]) : d \in Hubs}

\* Relaying conserves the hop budget: an OGM under way has travelled exactly
\* as many hops as rebroadcastStartup and maybeRebroadcast took off its ttl,
\* and so never more than TTL.
HopBudget ==
    \A g \in net : g.msg.flood # "hello" => g.msg.ttl + g.msg.hop = TTL

\* A route tells the truth about the topology: the next hop is a hub that
\* sends to this one, the hop count understates no distance and stays within
\* the flooding radius, and one hop means that the destination is the next hop.
RouteTruthful(h, r) ==
    /\ r.dest # h
    /\ <<r.nextHop, h>> \in Links
    /\ Dist[r.dest][r.nextHop] <= r.hopCount - 1
    /\ r.hopCount <= TTL + 1
    /\ r.hopCount = 1 <=> r.nextHop = r.dest

\* Every route in the routing_table and every alternate kept for failover is
\* truthful, through losses, duplicates, failovers and restarts.
RoutesTruthful ==
    \A h \in Hubs : \A r \in routes[h] \cup AlternatesOf(h) : RouteTruthful(h, r)

\* A next hop that is not the destination itself has the destination in its
\* own node_registry: traffic is never handed to a hub that never heard of it.
NextHopKnowsDestination ==
    \A h \in Hubs : \A r \in routes[h] \cup AlternatesOf(h) :
        r.nextHop # r.dest => status[r.nextHop][r.dest] # "unknown"

\* storeAlternate keeps at most three alternates per destination, with
\* distinct next hops, each for that destination.
AlternatesWellFormed ==
    \A h, d \in Hubs :
        LET alts == alternates[h][d] IN
        /\ Len(alts) <= MaxAlternates
        /\ \A i \in DOMAIN alts : alts[i].dest = d
        /\ DistinctHops(alts)

\* The routing_table holds the best route a hub knows: no alternate kept for
\* failover is better than the route in use.
TableHoldsBest ==
    \A h \in Hubs : \A r \in routes[h], a \in AlternatesOf(h) :
        a.dest = r.dest => ~Better(a, r)

\* Only a stale sweep takes a route away or replaces it by one that is not
\* better; receiving OGMs only improves routes, and a restart keeps them.
RoutesOnlyImprove ==
    [][\A h \in Hubs : \A r \in routes[h] :
            spent'["sweep"] = spent["sweep"] =>
                \E r2 \in routes'[h] : r2.dest = r.dest /\ (r2 = r \/ Better(r2, r))]_vars

\* A hub_direct proximity event, which trust scoring counts as a meeting, is
\* only recorded for a hub that sends to this one.
DirectProximityHonest ==
    \A h, o \in Hubs : <<o, "hub_direct">> \in proximity[h] => <<o, h>> \in Links

\* An "I'm up" OGM propagates hop by hop through the mesh: when nothing is
\* under way any more, every hub that can be reached has taken every
\* originator's latest OGM.  Claimed where every loop-free path fits into the hop
\* budget: in a larger mesh a copy that took a longer path, its ttl used up, may
\* arrive first and make the hub drop the copy that it would have relayed.
FloodReachesAll ==
    net = {} /\ Cardinality(Hubs) <= TTL + 2 =>
        \A h, o \in Hubs :
            h # o /\ Dist[o][h] < Cardinality(Hubs) => lastSeq[h][o] >= seq[o]

\* A neighbour sends each OGM of a hub back at most twice, as a start-up
\* announcement (rebroadcastStartup) and as a relay (maybeRebroadcast): EQ, the
\* numerator of the link's TQ, is bounded by twice the OGMs issued.
EchoesAtMostTwice ==
    \A h, n \in Hubs : linkEQ[h][n] <= 2 * seq[h]
=============================================================================
