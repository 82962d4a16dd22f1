----------------------------- MODULE RouteTable -----------------------------
(***************************************************************************)
(* A hub's routing state and the operations on it: the routing_table of    *)
(* hub/internal/registry (a set of routes, one per destination) and the    *)
(* alternates that hub/internal/ogmengine keeps in memory (per destination *)
(* a short sequence, oldest first).                                        *)
(***************************************************************************)
EXTENDS Routing, Sequences, Functions

MaxAlternates == 3

\* The routes of a routing_table row or of an alternates entry.
Route(Nodes) ==
    [dest : Nodes, nextHop : Nodes, tq : 0..Scale, latencyMs : Nat, hopCount : Nat]

---------------------------------------------------------------------------
\* registry: the routing_table, keyed by destination

GetRoute(table, d) == {r \in table : r.dest = d}

UpsertRoute(table, route) == {r \in table : r.dest # route.dest} \cup {route}

DeleteRoutesViaNextHop(table, n) == {r \in table : r.nextHop # n}

---------------------------------------------------------------------------
\* ogmengine: the alternates of one destination

\* Fault: a second alternate via the same next hop is stored.
StoreAlternateTwice(alts, route) ==
    LET longer == Append(alts, route)
    IN  IF Len(longer) > MaxAlternates THEN Tail(longer) ELSE longer

\* A route whose next hop is already stored is dropped, even if the stored
\* metrics are out of date; beyond three the oldest is forgotten.
StoreAlternate(alts, route) ==
    IF \E i \in DOMAIN alts : alts[i].nextHop = route.nextHop
    THEN alts
    ELSE LET longer == Append(alts, route)
         IN  IF Len(longer) > MaxAlternates THEN Tail(longer) ELSE longer

\* No two alternates share a next hop.
DistinctHops(alts) ==
    \A i, j \in DOMAIN alts : alts[i].nextHop = alts[j].nextHop => i = j

\* The alternates that remain when n is gone.  StoreAlternate keeps next hops
\* distinct, so at most one entry goes.
DropVia(alts, n) ==
    IF \E i \in DOMAIN alts : alts[i].nextHop = n
    THEN LET i == CHOOSE j \in DOMAIN alts : alts[j].nextHop = n
         IN  [j \in 1..(Len(alts) - 1) |-> IF j < i THEN alts[j] ELSE alts[j + 1]]
    ELSE alts

---------------------------------------------------------------------------
\* ogmengine: maybeUpsertRoute and failoverRoutes, as functions of the table
\* and of the alternates (a function from destinations to sequences)

\* Fault: the latest candidate wins.
AcceptsLatest(table, candidate) == TRUE

\* A candidate replaces the current route only when it is better.
Accepts(table, candidate) ==
    \A current \in GetRoute(table, candidate.dest) : Better(candidate, current)

TableAfterCandidate(table, candidate) ==
    IF Accepts(table, candidate) THEN UpsertRoute(table, candidate) ELSE table

\* What loses the comparison, candidate or current, becomes an alternate.
AlternatesAfterCandidate(alternates, table, candidate) ==
    LET dest == candidate.dest
        current == GetRoute(table, dest)
    IN  IF current = {} THEN alternates
        ELSE [alternates EXCEPT ![dest] =
                StoreAlternate(@, IF Accepts(table, candidate)
                                  THEN CHOOSE r \in current : TRUE
                                  ELSE candidate)]

\* Every alternate list loses its entry via the stale node.
AlternatesAfterFailover(alternates, stale) ==
    [d \in DOMAIN alternates |-> DropVia(alternates[d], stale)]

\* The first remaining alternate of every destination.
Promoted(alternates, stale) ==
    {Head(DropVia(alternates[d], stale)) :
        d \in {e \in DOMAIN alternates : DropVia(alternates[e], stale) # << >>}}

\* Routes via the stale node go; then every promoted alternate is written,
\* also over the route of a destination that did not use the stale node.
TableAfterFailover(table, alternates, stale) ==
    LET promoted == Promoted(alternates, stale)
    IN  {r \in DeleteRoutesViaNextHop(table, stale) :
            \A p \in promoted : p.dest # r.dest} \cup promoted
=============================================================================
