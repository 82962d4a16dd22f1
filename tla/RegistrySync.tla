---------------------------- MODULE RegistrySync ----------------------------
(***************************************************************************)
(* Who is there: node_registry, hub_registry, relay_hubs and app_presence  *)
(* of every hub.  Heartbeats (hub/internal/nodeheartbeat), LAN beacons     *)
(* (landiscovery) and OGMs (ogmengine) report nodes and hubs to            *)
(* hub/internal/registry, the monitor edits the relays, the daemon API     *)
(* registers apps, sweeps mark what has fallen silent, and syncengine      *)
(* gossips all of it but the hub rows to the peers.  Every one of them is  *)
(* a goroutine or a process of its own; a merge of a gossiped row is a     *)
(* SELECT and a write with no transaction around them.                     *)
(*                                                                         *)
(* A row is its timestamp (last_seen, last_verified or last_reported) and, *)
(* for nodes and hubs, its status.  Positions, handles, addresses and app  *)
(* versions do not decide which row wins and are left out.                 *)
(***************************************************************************)
EXTENDS Integers, FiniteSets

CONSTANTS
    Hubs,
    Nodes,        \* keys of node_registry
    Backbone,     \* keys of hub_registry
    Relays,       \* keys of relay_hubs
    Apps,         \* keys of app_presence
    Peers,        \* Peers[h]: the hubs to which h gossips
    Hears,        \* Hears[h]: the nodes and other hubs that h hears directly
    Located,      \* hubs to which the nodes report a position as well
    Home,         \* Home[a]: the hub whose daemon API app a registers with
    Curators,     \* hubs whose monitor edits the relays
    Blocked,      \* Blocked[h]: the apps of which h enforces a ban
    StaleAfter,
    Lag,          \* bound: a clock is read at most this long before its use
    LastContact,  \* bound: the time after which everyone falls silent
    MaxTime,      \* bound: the time modelled
    MaxTables,    \* bound: the tables in use at the same time
    NoMsg

Tables == {Nodes, Backbone, Relays, Apps}
Seen == Nodes \cup Backbone
Gossiped == Nodes \cup Relays \cup Apps
Keys == Seen \cup Gossiped
Time == 1 .. MaxTime
Active == 1 .. LastContact

\* The rows of a HubSyncMessage, ban records (see BanGovernance) left out.
Message == [stamp : [Gossiped -> {0} \cup Time], online : SUBSET Nodes]

\* A key names a row of one table: a hub that is in two has a key in each.
ASSUME RegistryAssumption ==
    /\ Peers \in [Hubs -> SUBSET Hubs]
    /\ Hears \in [Hubs -> SUBSET Seen]
    /\ Home \in [Apps -> Hubs]
    /\ Located \subseteq Hubs
    /\ Curators \subseteq Hubs
    /\ Blocked \in [Hubs -> SUBSET Apps]
    /\ StaleAfter \in Nat /\ Lag \in Nat
    /\ LastContact \in Nat /\ MaxTime \in Nat \ {0} /\ MaxTables \in Nat
    /\ Nodes \cap (Backbone \cup Relays \cup Apps) = {}
    /\ Backbone \cap (Relays \cup Apps) = {} /\ Relays \cap Apps = {}
    /\ NoMsg \notin Message

VARIABLES
    now,       \* the clock, which the hubs share
    stamp,     \* stamp[h][k]: the timestamp of row k at h, 0 if there is none
    online,    \* online[h]: nodes and hubs whose row at h has status online
    located,   \* located[h]: positions still to be stored, as [node, at]
    rx,        \* the message that is on its way to h or being applied there
    left,      \* its rows that are still to be merged
    read,      \* the local timestamp that a merge has read
    key,       \* the row it merges, as a set
    heard,     \* history: when h last heard k itself, 0 if never
    raced      \* history: those that some hub heard while it was merging their row

tables == <<stamp, online>>
receiver == <<rx, left, read, key>>
history == <<heard, raced>>
vars == <<now, tables, located, receiver, history>>

TypeOK ==
    /\ now \in Time
    /\ stamp \in [Hubs -> [Keys -> {0} \cup Time]]
    /\ online \in [Hubs -> SUBSET Seen]
    /\ located \in [Hubs -> SUBSET [node : Nodes, at : Active]]
    /\ rx \in [Hubs -> Message \cup {NoMsg}]
    /\ left \in [Hubs -> SUBSET Gossiped] /\ key \in [Hubs -> SUBSET Gossiped]
    /\ read \in [Hubs -> {0} \cup Time]
    /\ heard \in [Hubs -> [Seen -> {0} \cup Time]]
    /\ raced \subseteq Nodes
    /\ \A h \in Hubs : \A k \in online[h] : stamp[h][k] > 0

Init ==
    /\ now = 1
    /\ stamp = [h \in Hubs |-> [k \in Keys |-> 0]]
    /\ online = [h \in Hubs |-> {}]
    /\ located = [h \in Hubs |-> {}]
    /\ rx = [h \in Hubs |-> NoMsg]
    /\ left = [h \in Hubs |-> {}] /\ key = [h \in Hubs |-> {}]
    /\ read = [h \in Hubs |-> 0]
    /\ heard = [h \in Hubs |-> [k \in Seen |-> 0]]
    /\ raced = {}

Tick ==
    /\ now < MaxTime
    /\ now' = now + 1
    /\ UNCHANGED <<tables, located, receiver, history>>

\* What a goroutine that asked for the time a moment ago may hold.
Recent == {t \in Active : t <= now /\ now <= t + Lag}

\* The bound on tables: rows of different tables do not touch each other.
InUse(T) == \E h \in Hubs : left[h] \cap T # {} \/ \E k \in T : stamp[h][k] > 0
MayUse(T) == Cardinality({S \in Tables : S = T \/ InUse(S)}) <= MaxTables

---------------------------------------------------------------------------
\* Direct contact

\* Fault: the row is not inserted when there is none.
UpsertSeenStatusOnly(h, k, t) ==
    /\ stamp' = [stamp EXCEPT ![h][k] = IF @ = 0 THEN 0 ELSE t]
    /\ online' = [online EXCEPT ![h] = @ \cup {k}]

\* One transaction, whatever the row held before.
UpsertSeen(h, k, t) ==
    /\ stamp' = [stamp EXCEPT ![h][k] = t]
    /\ online' = [online EXCEPT ![h] = @ \cup {k}]

UpsertHubSeen(h, k, t) ==
    /\ stamp' = [stamp EXCEPT ![h][k] = t]
    /\ online' = [online EXCEPT ![h] = @ \cup {k}]

\* History: h hears k itself, at t.
Hear(h, k, t) ==
    /\ heard' = [heard EXCEPT ![h][k] = t]
    /\ raced' = IF k \in key[h] THEN raced \cup {k} ELSE raced
    /\ UNCHANGED <<now, receiver>>

\* A node may add a position, with a time; a statement of its own is to store it.
Locates(h, k, times) ==
    \/ UNCHANGED located
    \/ /\ h \in Located
       /\ \E at \in times :
            located' = [located EXCEPT ![h] = @ \cup {[node |-> k, at |-> at]}]

RegisterPresence(h, k, t) ==
    /\ MayUse(Nodes)
    /\ UpsertSeen(h, k, t)
    /\ Locates(h, k, {t})

\* handleHeartbeat and handleSOS.
HandleHeartbeat(h, k, t) == k \in Hears[h] /\ Hear(h, k, t) /\ RegisterPresence(h, k, t)

HandleNodeBeacon(h, k, t) == k \in Hears[h] /\ Hear(h, k, t) /\ RegisterPresence(h, k, t)

\* An OGM carries the time of the fix, which is not in the future.
HandleOgm(h, k, t) ==
    /\ k \in Hears[h]
    /\ MayUse(Nodes)
    /\ Hear(h, k, t)
    /\ UpsertSeen(h, k, t)
    /\ Locates(h, k, 1 .. t)

\* An OGM that has not been relayed shows its hub.
UpsertPeerHub(h, k, t) ==
    /\ k \in Hears[h]
    /\ MayUse(Backbone)
    /\ Hear(h, k, t)
    /\ UpsertHubSeen(h, k, t)
    /\ UNCHANGED located

\* With every beacon that it sends, and by selfHubLivenessLoop, a hub refreshes its
\* own row.
RefreshHubLiveness(h, t) ==
    /\ h \in Backbone
    /\ MayUse(Backbone)
    /\ Hear(h, h, t)
    /\ UpsertHubSeen(h, h, t)
    /\ UNCHANGED located

\* last_seen = MAX(last_seen, observedAt).
UpdateLocation(h, p) ==
    /\ p \in located[h]
    /\ stamp' = [stamp EXCEPT ![h][p.node] = IF p.at > @ THEN p.at ELSE @]
    /\ located' = [located EXCEPT ![h] = @ \ {p}]
    /\ UNCHANGED <<now, online, receiver, history>>

\* Fault: the cutoff is now.
OverdueNow(h, T) == {k \in online[h] \cap T : stamp[h][k] < now}

\* The online rows of a table that have not been heard of for StaleAfter.
Overdue(h, T) == {k \in online[h] \cap T : stamp[h][k] + StaleAfter < now}

\* The two transactions of staleSweepLoop.
MarkStaleBefore(h) ==
    /\ Overdue(h, Nodes) # {}
    /\ online' = [online EXCEPT ![h] = @ \ Overdue(h, Nodes)]
    /\ UNCHANGED <<now, stamp, located, receiver, history>>

MarkHubsStaleBefore(h) ==
    /\ Overdue(h, Backbone) # {}
    /\ online' = [online EXCEPT ![h] = @ \ Overdue(h, Backbone)]
    /\ UNCHANGED <<now, stamp, located, receiver, history>>

---------------------------------------------------------------------------
\* Relays, edited in the monitor, and apps, registered with the daemon API

AddRelayHub(h, r, t) == stamp' = [stamp EXCEPT ![h][r] = t]
RemoveRelayHub(h, r) == stamp' = [stamp EXCEPT ![h][r] = 0]
MarkRelayHubVerified(h, r, t) == stamp' = [stamp EXCEPT ![h][r] = IF @ = 0 THEN 0 ELSE t]

HandleRelayHubs(h, r, t) ==
    /\ MayUse(Relays)
    /\ AddRelayHub(h, r, t)
    /\ UNCHANGED <<now, online, located, receiver, history>>

\* Delete, or a probe that the relay has answered.
HandleRelayHubAction(h, r, t) ==
    /\ MayUse(Relays)
    /\ RemoveRelayHub(h, r) \/ MarkRelayHubVerified(h, r, t)
    /\ UNCHANGED <<now, online, located, receiver, history>>

\* The Upsert of handleRegister.
RegisterApp(a, t) ==
    /\ MayUse(Apps)
    /\ stamp' = [stamp EXCEPT ![Home[a]][a] = t]
    /\ UNCHANGED <<now, online, located, receiver, history>>

---------------------------------------------------------------------------
\* Gossip

NodeRows(g) == {k \in Nodes : stamp[g][k] > 0}
RelayRows(g) == {k \in Relays : stamp[g][k] > 0}
AppRows(g) == {k \in Apps : stamp[g][k] > 0}

\* Fault: a hub passes on what it knows at first hand only.
ListedOwn(g) == (NodeRows(g) \cap Hears[g]) \cup {k \in AppRows(g) : Home[k] = g}

\* The rows of a message: all there are, without the apps of which the hub enforces
\* a ban.
Listed(g) == NodeRows(g) \cup RelayRows(g) \cup (AppRows(g) \ Blocked[g])

BuildMessage(g) ==
    [stamp |-> [k \in Gossiped |-> IF k \in Listed(g) THEN stamp[g][k] ELSE 0],
     online |-> online[g] \cap Nodes]

Records(msg) == {k \in Gossiped : msg.stamp[k] > 0}

\* gossipOnce, the network and receiveLoop.  What is never delivered is lost; a
\* message may be applied long after it was built.
Deliver(g, h) ==
    /\ h \in Peers[g]
    /\ rx[h] = NoMsg
    /\ Records(BuildMessage(g)) # {}
    /\ rx' = [rx EXCEPT ![h] = BuildMessage(g)]
    /\ left' = [left EXCEPT ![h] = Records(BuildMessage(g))]
    /\ UNCHANGED <<now, tables, located, read, key, history>>

\* The SELECT of a merge; nodes come before relays, relays before apps.
Read(h, k) ==
    /\ key[h] = {}
    /\ k \in left[h]
    /\ \/ k \in Nodes
       \/ k \in Relays /\ left[h] \cap Nodes = {}
       \/ k \in Apps /\ left[h] \subseteq Apps
    /\ key' = [key EXCEPT ![h] = {k}]
    /\ read' = [read EXCEPT ![h] = stamp[h][k]]
    /\ UNCHANGED <<now, tables, located, rx, left, history>>

\* Fault: the timestamps are not compared.
NewerAny(h, t) == TRUE

\* A record wins if it is newer than what was read.
Newer(h, t) == t > read[h]

\* Without a row at the SELECT the write is an INSERT, which fails if one has
\* appeared; with an older one an UPDATE, which finds no row if it has been deleted.
Takes(h, k, t) == Newer(h, t) /\ (stamp[h][k] = 0 <=> read[h] = 0)

MergeGossipNode(h, k, t) ==
    /\ k \in Nodes
    /\ IF Takes(h, k, t)
       THEN /\ stamp' = [stamp EXCEPT ![h][k] = t]
            /\ online' = [online EXCEPT ![h] = IF k \in rx[h].online THEN @ \cup {k} ELSE @ \ {k}]
       ELSE UNCHANGED tables

UpsertGossipRelay(h, k, t) ==
    /\ k \in Relays
    /\ stamp' = IF Takes(h, k, t) THEN [stamp EXCEPT ![h][k] = t] ELSE stamp
    /\ UNCHANGED online

\* For apps the write is an upsert.
MergeGossip(h, k, t) ==
    /\ k \in Apps
    /\ stamp' = IF Newer(h, t) THEN [stamp EXCEPT ![h][k] = t] ELSE stamp
    /\ UNCHANGED online

\* The rest of a merge; apply goes on with the next record.
Write(h, k) ==
    LET t == rx[h].stamp[k] IN
    /\ key[h] = {k}
    /\ MergeGossipNode(h, k, t) \/ UpsertGossipRelay(h, k, t) \/ MergeGossip(h, k, t)
    /\ left' = [left EXCEPT ![h] = @ \ {k}]
    /\ key' = [key EXCEPT ![h] = {}]
    /\ read' = [read EXCEPT ![h] = 0]
    /\ rx' = IF left[h] = {k} THEN [rx EXCEPT ![h] = NoMsg] ELSE rx
    /\ UNCHANGED <<now, located, history>>

---------------------------------------------------------------------------
Apply(h) == \E k \in Gossiped : Read(h, k) \/ Write(h, k)
Locate(h) == \E p \in located[h] : UpdateLocation(h, p)

Next ==
    \/ Tick
    \/ \E h \in Hubs : Locate(h) \/ MarkStaleBefore(h) \/ MarkHubsStaleBefore(h) \/ Apply(h)
    \/ \E h \in Hubs, k \in Nodes, t \in Recent :
        HandleHeartbeat(h, k, t) \/ HandleNodeBeacon(h, k, t) \/ HandleOgm(h, k, t)
    \/ \E h \in Hubs, k \in Backbone, t \in Recent : UpsertPeerHub(h, k, t)
    \/ \E h \in Hubs, t \in Recent : RefreshHubLiveness(h, t)
    \/ \E h \in Curators, r \in Relays, t \in Recent :
        HandleRelayHubs(h, r, t) \/ HandleRelayHubAction(h, r, t)
    \/ \E a \in Apps, t \in Recent : RegisterApp(a, t)
    \/ \E g, h \in Hubs : Deliver(g, h)

\* Time passes, tickers fire, goroutines run, and a hub that gossips to another
\* again and again is heard again and again.
Fairness ==
    /\ WF_vars(Tick)
    /\ \A h \in Hubs : WF_vars(Locate(h)) /\ WF_vars(Apply(h))
    /\ \A h \in Hubs : WF_vars(MarkStaleBefore(h)) /\ WF_vars(MarkHubsStaleBefore(h))
    /\ \A g \in Hubs : \A h \in Peers[g] : SF_vars(Deliver(g, h))

Spec == Init /\ [][Next]_vars /\ Fairness

---------------------------------------------------------------------------
\* Properties

\* A node or hub that a hub itself has heard within StaleAfter is online in its
\* registry, whatever older or staler record its peers gossip, unless some hub heard
\* it between the SELECT and the UPDATE of a merge of its row: only such a merge may
\* put a stale row over a fresh one, and the gossip may then spread it.
FreshIsOnline ==
    \A h \in Hubs : \A k \in Seen :
        heard[h][k] > 0 /\ now <= heard[h][k] + StaleAfter /\ k \notin raced
            => k \in online[h]

\* What has fallen silent is stale at every hub in the end, and stays so: records
\* that still call it online go round among the hubs, but not for ever.
SilentGoStale == <>[](\A h \in Hubs : online[h] = {})

\* Hubs that can reach each other end with the same rows, by timestamp, although
\* local writers interrupt their merges, registrations overtake each other and a
\* removed relay may be brought back.  Rows of an app that some hub has banned may
\* differ, as that hub does not pass them on.
RowsConverge ==
    <>[](\A k \in Gossiped \ UNION {Blocked[h] : h \in Hubs} : \A g, h \in Hubs : stamp[g][k] = stamp[h][k])
=============================================================================
