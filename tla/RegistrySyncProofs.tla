------------------------- MODULE RegistrySyncProofs -------------------------
(***************************************************************************)
(* Theorems about the registries of the hubs, for any number of hubs, rows *)
(* and messages and any topology.                                          *)
(***************************************************************************)
EXTENDS RegistrySync, TLAPS

\* A merge is about a row of the message that is being applied, and a position was
\* true of the node when it came.
ReceiverHonest ==
    \A h \in Hubs :
        /\ rx[h] = NoMsg => left[h] = {}
        /\ key[h] \subseteq left[h]
PositionsPast ==
    \A h \in Hubs : \A p \in located[h] : p.at <= now /\ heard[h][p.node] > 0

\* The types and what they rest on.
TypeInv == TypeOK /\ ReceiverHonest /\ PositionsPast

---------------------------------------------------------------------------
\* Nobody hears a node later than its row says...
HeardIsStored ==
    \A h \in Hubs : \A k \in Seen \ raced : heard[h][k] <= stamp[h][k]

\* ...nor later than the merge of its row has read.
HeardIsRead ==
    \A h \in Hubs : \A k \in (key[h] \cap Nodes) \ raced : heard[h][k] <= read[h]

\* A row that says stale, here or in a message, has a time that is long past.
StaleIsOld ==
    \A h \in Hubs : \A k \in Nodes \ raced :
        stamp[h][k] > 0 /\ k \notin online[h] => stamp[h][k] + StaleAfter <= now
GossipIsOld ==
    \A h \in Hubs : \A k \in (left[h] \cap Nodes) \ raced :
        k \notin rx[h].online => rx[h].stamp[k] + StaleAfter <= now

\* A position that is still to be stored makes a row hardly younger than its node's
\* last contact.
PositionsOld ==
    \A h \in Hubs :
        /\ h \notin Located => located[h] = {}
        /\ \A p \in located[h] : p.at <= heard[h][p.node] + 1

FreshInv ==
    /\ HeardIsStored /\ HeardIsRead /\ StaleIsOld /\ GossipIsOld /\ PositionsOld
    /\ FreshIsOnline

---------------------------------------------------------------------------
\* The shapes of a step

\* Everything that h hears from k itself does the same to the registry of h.
Contact(h, k, t) ==
    /\ Hear(h, k, t)
    /\ UpsertSeen(h, k, t)
    /\ \/ UNCHANGED located
       \/ /\ k \in Nodes /\ h \in Located
          /\ \E at \in 1 .. t :
                located' = [located EXCEPT ![h] = @ \cup {[node |-> k, at |-> at]}]

\* The monitor and the daemon API write a relay or an app.
Edit(h, k, t) ==
    /\ stamp' = [stamp EXCEPT ![h][k] = t]
    /\ UNCHANGED <<now, online, located, receiver, history>>

\* A sweep.
Sweep(h, T) ==
    /\ online' = [online EXCEPT ![h] = @ \ Overdue(h, T)]
    /\ UNCHANGED <<now, stamp, located, receiver, history>>

\* One assignment to one row.
LEMMA RowSet ==
  ASSUME NEW S, NEW K, NEW f \in [Hubs -> [K -> S]], NEW h \in Hubs, NEW k \in K, NEW t \in S
  PROVE  /\ [f EXCEPT ![h][k] = t] \in [Hubs -> [K -> S]]
         /\ \A g \in Hubs, j \in K :
                [f EXCEPT ![h][k] = t][g][j] = IF g = h /\ j = k THEN t ELSE f[g][j]
  OBVIOUS

LEMMA Basics ==
  /\ \A h \in Hubs : Hears[h] \subseteq Seen
  /\ StaleAfter \in Nat /\ Lag \in Nat /\ LastContact \in Nat /\ MaxTime \in Nat
  /\ \A k \in Relays \cup Apps : k \notin Seen /\ k \in Keys /\ k \in Gossiped
  /\ \A k \in Backbone : k \notin Gossiped
  /\ \A k \in Gossiped : k \in Seen <=> k \in Nodes
  /\ Nodes \subseteq Seen /\ Backbone \subseteq Seen /\ Seen \subseteq Keys /\ Gossiped \subseteq Keys
  /\ NoMsg \notin Message /\ Curators \subseteq Hubs /\ Located \subseteq Hubs
  /\ \A x \in Apps : Home[x] \in Hubs
  BY RegistryAssumption DEF Seen, Gossiped, Keys

LEMMA RecentTimes ==
  ASSUME now \in Time, NEW t \in Recent
  PROVE  t \in Active /\ t \in Time /\ t <= now /\ now <= t + Lag /\ t \in Nat /\ t > 0
  BY Basics DEF Recent, Time, Active

\* Every step has one of these shapes.
LEMMA Shapes ==
  ASSUME [Next]_vars, TypeOK
  PROVE  \/ UNCHANGED vars
         \/ Tick
         \/ \E h \in Hubs : \E p \in located[h] : UpdateLocation(h, p)
         \/ \E h \in Hubs : Sweep(h, Nodes) \/ Sweep(h, Backbone)
         \/ \E h \in Hubs : \E k \in Gossiped : Read(h, k) \/ Write(h, k)
         \/ \E h \in Hubs, k \in Seen, t \in Recent : Contact(h, k, t)
         \/ \E h \in Hubs, k \in Relays \cup Apps, t \in {0} \cup Time : Edit(h, k, t)
         \/ \E g, h \in Hubs : Deliver(g, h)
<1>0. now \in Time
  BY DEF TypeOK
<1>1. ASSUME NEW h \in Hubs, NEW k \in Nodes, NEW t \in Recent,
             HandleHeartbeat(h, k, t) \/ HandleNodeBeacon(h, k, t) \/ HandleOgm(h, k, t)
      PROVE  Contact(h, k, t) /\ k \in Seen
  <2>1. t \in 1 .. t
    BY <1>0, RecentTimes
  <2> QED
    BY <1>1, <2>1, Basics DEF HandleHeartbeat, HandleNodeBeacon, HandleOgm, RegisterPresence, Locates, Contact
<1>2. ASSUME NEW h \in Hubs, NEW k \in Backbone, NEW t \in Recent, UpsertPeerHub(h, k, t)
      PROVE  Contact(h, k, t) /\ k \in Seen
  BY <1>2, Basics DEF UpsertPeerHub, UpsertHubSeen, UpsertSeen, Contact
<1>3. ASSUME NEW h \in Hubs, NEW t \in Recent, RefreshHubLiveness(h, t)
      PROVE  Contact(h, h, t) /\ h \in Seen
  BY <1>3, Basics DEF RefreshHubLiveness, UpsertHubSeen, UpsertSeen, Contact
<1>4. ASSUME NEW h \in Curators, NEW x \in Relays, NEW t \in Recent,
             HandleRelayHubs(h, x, t) \/ HandleRelayHubAction(h, x, t)
      PROVE  \E u \in {0} \cup Time : Edit(h, x, u)
  <2>1. t \in Time
    BY <1>0, RecentTimes
  <2>2. CASE HandleRelayHubs(h, x, t)
    BY <2>1, <2>2 DEF HandleRelayHubs, AddRelayHub, Edit
  <2>3. CASE HandleRelayHubAction(h, x, t) /\ RemoveRelayHub(h, x)
    BY <2>3 DEF HandleRelayHubAction, RemoveRelayHub, Edit
  <2>4. CASE HandleRelayHubAction(h, x, t) /\ MarkRelayHubVerified(h, x, t)
    <3>1. CASE stamp[h][x] = 0
      <4>1. stamp' = [stamp EXCEPT ![h][x] = 0]
        BY <2>4, <3>1 DEF MarkRelayHubVerified
      <4> QED
        BY <2>4, <4>1 DEF HandleRelayHubAction, Edit
    <3>2. CASE stamp[h][x] # 0
      <4>1. stamp' = [stamp EXCEPT ![h][x] = t]
        BY <2>4, <3>2 DEF MarkRelayHubVerified
      <4> QED
        BY <2>1, <2>4, <4>1 DEF HandleRelayHubAction, Edit
    <3> QED
      BY <3>1, <3>2
  <2> QED
    BY <1>4, <2>2, <2>3, <2>4 DEF HandleRelayHubAction
<1>5. ASSUME NEW x \in Apps, NEW t \in Recent, RegisterApp(x, t)
      PROVE  Edit(Home[x], x, t) /\ t \in Time
  BY <1>0, <1>5, RecentTimes DEF RegisterApp, Edit
<1>6. ASSUME NEW h \in Hubs, MarkStaleBefore(h) \/ MarkHubsStaleBefore(h)
      PROVE  Sweep(h, Nodes) \/ Sweep(h, Backbone)
  BY <1>6 DEF MarkStaleBefore, MarkHubsStaleBefore, Sweep
<1> QED
  BY <1>1, <1>2, <1>3, <1>4, <1>5, <1>6, Basics DEF Next, Apply, Locate

---------------------------------------------------------------------------
\* Types

LEMMA InitTypes == Init => TypeInv
<1> SUFFICES ASSUME Init PROVE TypeInv
  OBVIOUS
<1>1. now \in Time
  BY RegistryAssumption DEF Init, Time
<1>2. /\ stamp \in [Hubs -> [Keys -> {0} \cup Time]]
      /\ heard \in [Hubs -> [Seen -> {0} \cup Time]]
      /\ read \in [Hubs -> {0} \cup Time]
  BY DEF Init
<1>3. TypeOK
  BY <1>1, <1>2 DEF Init, TypeOK
<1>4. ReceiverHonest /\ PositionsPast
  BY DEF Init, ReceiverHonest, PositionsPast
<1> QED
  BY <1>3, <1>4 DEF TypeInv

\* What the steps share of TypeOK.
LEMMA Typed ==
  ASSUME TypeOK
  PROVE  /\ now \in Time /\ now \in Nat
         /\ stamp \in [Hubs -> [Keys -> {0} \cup Time]]
         /\ \A h \in Hubs, k \in Keys : stamp[h][k] \in Nat
         /\ heard \in [Hubs -> [Seen -> {0} \cup Time]]
         /\ \A h \in Hubs, k \in Seen : heard[h][k] \in Nat
         /\ online \in [Hubs -> SUBSET Seen]
         /\ read \in [Hubs -> {0} \cup Time] /\ \A h \in Hubs : read[h] \in Nat
         /\ \A h \in Hubs : \A k \in online[h] : stamp[h][k] > 0
         /\ \A h \in Hubs : \A p \in located[h] : p.node \in Nodes /\ p.at \in Active /\ p.at \in Nat
<1>1. {0} \cup Time \subseteq Nat /\ Active \subseteq Nat
  BY Basics DEF Time, Active
<1>2. \A h \in Hubs, k \in Keys : stamp[h][k] \in {0} \cup Time
  BY DEF TypeOK
<1>3. \A h \in Hubs, k \in Seen : heard[h][k] \in {0} \cup Time
  BY DEF TypeOK
<1>4. \A h \in Hubs : read[h] \in {0} \cup Time
  BY DEF TypeOK
<1>5. \A h \in Hubs : \A p \in located[h] : p \in [node : Nodes, at : Active]
  BY DEF TypeOK
<1> QED
  BY <1>1, <1>2, <1>3, <1>4, <1>5 DEF TypeOK

\* A contact.
LEMMA ContactTypes ==
  ASSUME TypeInv, NEW h \in Hubs, NEW k \in Seen, NEW t \in Recent, Contact(h, k, t)
  PROVE  TypeInv'
<1>0. TypeOK /\ ReceiverHonest /\ PositionsPast
  BY DEF TypeInv
<1>1. t \in Active /\ t \in Time /\ t <= now /\ t \in Nat /\ t > 0 /\ k \in Keys
  BY <1>0, RecentTimes, Typed, Basics
<1>2. /\ stamp' \in [Hubs -> [Keys -> {0} \cup Time]]
      /\ \A g \in Hubs, j \in Keys : stamp'[g][j] = IF g = h /\ j = k THEN t ELSE stamp[g][j]
  BY <1>0, <1>1, RowSet, Typed DEF Contact, UpsertSeen
<1>3. /\ heard' \in [Hubs -> [Seen -> {0} \cup Time]]
      /\ \A g \in Hubs, j \in Seen : heard'[g][j] = IF g = h /\ j = k THEN t ELSE heard[g][j]
  BY <1>0, <1>1, RowSet, Typed DEF Contact, Hear
<1>4. /\ online' = [online EXCEPT ![h] = @ \cup {k}]
      /\ raced' \in {raced, raced \cup {k}} /\ (raced' # raced => k \in key[h])
      /\ UNCHANGED <<now, rx, left, read, key>>
  BY DEF Contact, UpsertSeen, Hear, receiver
<1>5. raced' \subseteq Nodes
  BY <1>0, <1>4, Basics DEF TypeOK
<1>6. \A g \in Hubs : \A j \in online'[g] : stamp'[g][j] > 0
  BY <1>0, <1>1, <1>2, <1>4, Typed, Basics
<1>7. /\ located' \in [Hubs -> SUBSET [node : Nodes, at : Active]]
      /\ \A g \in Hubs : \A p \in located'[g] :
            p \in located[g] \/ (g = h /\ p.node = k /\ p.at <= t /\ k \in Nodes)
  <2>1. CASE UNCHANGED located
    BY <1>0, <2>1 DEF TypeOK
  <2>2. ASSUME k \in Nodes, NEW at \in 1 .. t,
               located' = [located EXCEPT ![h] = @ \cup {[node |-> k, at |-> at]}]
        PROVE  /\ located' \in [Hubs -> SUBSET [node : Nodes, at : Active]]
               /\ \A g \in Hubs : \A p \in located'[g] :
                    p \in located[g] \/ (g = h /\ p.node = k /\ p.at <= t /\ k \in Nodes)
    <3>1. at \in Active /\ at <= t
      BY <1>1, Basics DEF Active
    <3>2. [node |-> k, at |-> at] \in [node : Nodes, at : Active]
      BY <2>2, <3>1
    <3> QED
      BY <1>0, <2>2, <3>1, <3>2 DEF TypeOK
  <2> QED
    BY <2>1, <2>2 DEF Contact
<1>8. PositionsPast'
  <2> SUFFICES ASSUME NEW g \in Hubs, NEW p \in located'[g]
               PROVE  p.at <= now' /\ heard'[g][p.node] > 0
    BY DEF PositionsPast
  <2>1. CASE p \in located[g]
    BY <1>0, <1>1, <1>3, <1>4, <2>1, Typed, Basics DEF PositionsPast
  <2>2. CASE g = h /\ p.node = k /\ p.at <= t
    <3>1. p.at \in Nat
      BY <1>7, Basics DEF Active
    <3> QED
      BY <1>0, <1>1, <1>3, <1>4, <2>2, <3>1, Typed
  <2> QED
    BY <1>7, <2>1, <2>2
<1>9. ReceiverHonest'
  BY <1>0, <1>4 DEF ReceiverHonest
<1>10. online' \in [Hubs -> SUBSET Seen]
  BY <1>0, <1>4 DEF TypeOK
<1>11. TypeOK'
  BY <1>0, <1>2, <1>3, <1>4, <1>5, <1>6, <1>7, <1>10 DEF TypeOK
<1> QED
  BY <1>8, <1>9, <1>11 DEF TypeInv

\* A position is stored.
LEMMA LocationTypes ==
  ASSUME TypeInv, NEW h \in Hubs, NEW p \in located[h], UpdateLocation(h, p)
  PROVE  TypeInv'
<1>0. TypeOK /\ ReceiverHonest /\ PositionsPast
  BY DEF TypeInv
<1>1. /\ p.node \in Nodes /\ p.node \in Keys /\ p.at \in Time /\ p.at \in Nat /\ p.at > 0
  BY <1>0, Typed, Basics DEF PositionsPast, Time, Active
<1>2. PICK t : t = IF p.at > stamp[h][p.node] THEN p.at ELSE stamp[h][p.node]
  OBVIOUS
<1>3. t \in {0} \cup Time /\ t > 0
  BY <1>0, <1>1, <1>2, Typed
<1>4. stamp' = [stamp EXCEPT ![h][p.node] = t]
  BY <1>2 DEF UpdateLocation
<1>5. /\ stamp' \in [Hubs -> [Keys -> {0} \cup Time]]
      /\ \A g \in Hubs, j \in Keys : stamp'[g][j] = IF g = h /\ j = p.node THEN t ELSE stamp[g][j]
  BY <1>0, <1>1, <1>3, <1>4, RowSet, Typed
<1>6. /\ located' = [located EXCEPT ![h] = @ \ {p}]
      /\ UNCHANGED <<now, online, rx, left, read, key, heard, raced>>
  BY DEF UpdateLocation, receiver, history
<1>7. \A g \in Hubs : \A j \in online'[g] : stamp'[g][j] > 0
  BY <1>0, <1>3, <1>5, <1>6, Typed, Basics
<1>8. located' \in [Hubs -> SUBSET [node : Nodes, at : Active]] /\ \A g \in Hubs : located'[g] \subseteq located[g]
  BY <1>0, <1>6 DEF TypeOK
<1>9. ReceiverHonest' /\ PositionsPast'
  BY <1>0, <1>6, <1>8 DEF ReceiverHonest, PositionsPast
<1>10. TypeOK'
  BY <1>0, <1>5, <1>6, <1>7, <1>8 DEF TypeOK
<1> QED
  BY <1>9, <1>10 DEF TypeInv

\* A relay or an app is written.
LEMMA EditTypes ==
  ASSUME TypeInv, NEW h \in Hubs, NEW k \in Relays \cup Apps, NEW t \in {0} \cup Time, Edit(h, k, t)
  PROVE  TypeInv'
<1>0. TypeOK /\ ReceiverHonest /\ PositionsPast
  BY DEF TypeInv
<1>1. /\ stamp' \in [Hubs -> [Keys -> {0} \cup Time]]
      /\ \A g \in Hubs, j \in Keys : stamp'[g][j] = IF g = h /\ j = k THEN t ELSE stamp[g][j]
  BY <1>0, RowSet, Typed, Basics DEF Edit
<1>2. UNCHANGED <<now, online, located, rx, left, read, key, heard, raced>>
  BY DEF Edit, receiver, history
<1>3. \A g \in Hubs : \A j \in online'[g] : stamp'[g][j] > 0
  BY <1>0, <1>1, <1>2, Typed, Basics
<1>4. TypeOK'
  BY <1>0, <1>1, <1>2, <1>3 DEF TypeOK
<1> QED
  BY <1>0, <1>2, <1>4 DEF TypeInv, ReceiverHonest, PositionsPast

\* A message is delivered.
LEMMA DeliverTypes ==
  ASSUME TypeInv, NEW g \in Hubs, NEW h \in Hubs, Deliver(g, h)
  PROVE  TypeInv'
<1>0. TypeOK /\ ReceiverHonest /\ PositionsPast
  BY DEF TypeInv
<1>1. BuildMessage(g) \in Message
  <2>1. \A k \in Gossiped : stamp[g][k] \in {0} \cup Time
    BY <1>0, Basics DEF TypeOK
  <2> QED
    BY <2>1 DEF BuildMessage, Message
<1>2. /\ rx' = [rx EXCEPT ![h] = BuildMessage(g)]
      /\ left' = [left EXCEPT ![h] = Records(BuildMessage(g))]
      /\ rx[h] = NoMsg
      /\ UNCHANGED <<now, stamp, online, located, read, key, heard, raced>>
  BY DEF Deliver, tables, history
<1>3. Records(BuildMessage(g)) \subseteq Gossiped
  BY DEF Records
<1>4. rx' \in [Hubs -> Message \cup {NoMsg}] /\ left' \in [Hubs -> SUBSET Gossiped]
  BY <1>0, <1>1, <1>2, <1>3 DEF TypeOK
<1>5. ReceiverHonest'
  <2>1. key[h] = {}
    BY <1>0, <1>2 DEF ReceiverHonest
  <2>2. rx'[h] # NoMsg /\ \A i \in Hubs \ {h} : rx'[i] = rx[i] /\ left'[i] = left[i]
    BY <1>0, <1>1, <1>2, Basics DEF TypeOK
  <2> QED
    BY <1>0, <1>2, <2>1, <2>2 DEF ReceiverHonest
<1>6. TypeOK'
  BY <1>0, <1>2, <1>4 DEF TypeOK
<1> QED
  BY <1>0, <1>2, <1>5, <1>6 DEF TypeInv, PositionsPast

\* What the second half of a merge does.
LEMMA WriteRow ==
  ASSUME TypeInv, NEW h \in Hubs, NEW k \in Gossiped, Write(h, k)
  PROVE  /\ k \in left[h] /\ key[h] = {k} /\ rx[h] \in Message
         /\ rx[h].stamp[k] \in {0} \cup Time /\ rx[h].stamp[k] \in Nat
         /\ \/ /\ UNCHANGED <<stamp, online>>
            \/ /\ rx[h].stamp[k] > read[h]
               /\ stamp' = [stamp EXCEPT ![h][k] = rx[h].stamp[k]]
               /\ \/ k \notin Nodes /\ UNCHANGED online
                  \/ /\ k \in Nodes
                     /\ online' = [online EXCEPT ![h] = IF k \in rx[h].online THEN @ \cup {k} ELSE @ \ {k}]
<1>0. TypeOK /\ ReceiverHonest
  BY DEF TypeInv
<1>1. key[h] = {k} /\ k \in left[h]
  BY <1>0 DEF Write, ReceiverHonest
<1>2. rx[h] \in Message
  BY <1>0, <1>1 DEF ReceiverHonest, TypeOK
<1>3. rx[h].stamp[k] \in {0} \cup Time
  BY <1>2 DEF Message
<1>4. rx[h].stamp[k] \in Nat
  BY <1>3, Basics DEF Time
<1>5. PICK t : t = rx[h].stamp[k]
  OBVIOUS
<1>6. MergeGossipNode(h, k, t) \/ UpsertGossipRelay(h, k, t) \/ MergeGossip(h, k, t)
  BY <1>5 DEF Write
<1>7. CASE MergeGossipNode(h, k, t)
  BY <1>1, <1>2, <1>3, <1>4, <1>5, <1>7 DEF MergeGossipNode, Takes, Newer, tables
<1>8. CASE UpsertGossipRelay(h, k, t)
  BY <1>1, <1>2, <1>3, <1>4, <1>5, <1>8, Basics DEF UpsertGossipRelay, Takes, Newer
<1>9. CASE MergeGossip(h, k, t)
  BY <1>1, <1>2, <1>3, <1>4, <1>5, <1>9, Basics DEF MergeGossip, Newer
<1> QED
  BY <1>6, <1>7, <1>8, <1>9

LEMMA WriteTypes ==
  ASSUME TypeInv, NEW h \in Hubs, NEW k \in Gossiped, Write(h, k)
  PROVE  TypeInv'
<1>0. TypeOK /\ ReceiverHonest /\ PositionsPast
  BY DEF TypeInv
<1>1. /\ left' = [left EXCEPT ![h] = @ \ {k}]
      /\ key' = [key EXCEPT ![h] = {}]
      /\ read' = [read EXCEPT ![h] = 0]
      /\ rx' = IF left[h] = {k} THEN [rx EXCEPT ![h] = NoMsg] ELSE rx
      /\ UNCHANGED <<now, located, heard, raced>>
  BY DEF Write, history
<1>2. PICK t : t = rx[h].stamp[k]
  OBVIOUS
<1>3. k \in left[h] /\ k \in Keys /\ t \in {0} \cup Time /\ t \in Nat
  BY <1>2, WriteRow, Basics
<1>4. /\ stamp' \in [Hubs -> [Keys -> {0} \cup Time]] /\ online' \in [Hubs -> SUBSET Seen]
      /\ \A g \in Hubs : \A j \in online'[g] : stamp'[g][j] > 0
  <2>1. CASE UNCHANGED <<stamp, online>>
    BY <1>0, <2>1 DEF TypeOK
  <2>2. CASE /\ t > read[h]
             /\ stamp' = [stamp EXCEPT ![h][k] = t]
             /\ \/ k \notin Nodes /\ UNCHANGED online
                \/ /\ k \in Nodes
                   /\ online' = [online EXCEPT ![h] = IF k \in rx[h].online THEN @ \cup {k} ELSE @ \ {k}]
    <3>1. t > 0
      BY <1>0, <1>3, <2>2, Typed
    <3>2. /\ stamp' \in [Hubs -> [Keys -> {0} \cup Time]]
          /\ \A g \in Hubs, j \in Keys : stamp'[g][j] = IF g = h /\ j = k THEN t ELSE stamp[g][j]
      BY <1>0, <1>3, <2>2, RowSet, Typed
    <3>3. /\ online' \in [Hubs -> SUBSET Seen]
          /\ \A g \in Hubs : \A j \in online'[g] : j \in online[g] \/ (g = h /\ j = k)
      BY <1>0, <2>2, Typed, Basics
    <3> QED
      BY <1>0, <3>1, <3>2, <3>3, Typed, Basics
  <2> QED
    BY <1>2, <2>1, <2>2, WriteRow
<1>5. /\ left' \in [Hubs -> SUBSET Gossiped] /\ key' \in [Hubs -> SUBSET Gossiped]
      /\ read' \in [Hubs -> {0} \cup Time] /\ rx' \in [Hubs -> Message \cup {NoMsg}]
  BY <1>0, <1>1 DEF TypeOK
<1>6. ReceiverHonest'
  <2>1. rx[h] # NoMsg
    BY <1>0, <1>3 DEF ReceiverHonest
  <2>2. /\ key'[h] = {} /\ left'[h] = left[h] \ {k} /\ (left[h] # {k} => rx'[h] = rx[h])
        /\ \A i \in Hubs \ {h} : rx'[i] = rx[i] /\ left'[i] = left[i] /\ key'[i] = key[i]
    BY <1>0, <1>1 DEF TypeOK
  <2> QED
    BY <1>0, <2>1, <2>2 DEF ReceiverHonest
<1>7. TypeOK'
  BY <1>0, <1>1, <1>4, <1>5 DEF TypeOK
<1> QED
  BY <1>0, <1>1, <1>6, <1>7 DEF TypeInv, PositionsPast

LEMMA TypeStep == TypeInv /\ [Next]_vars => TypeInv'
<1> SUFFICES ASSUME TypeInv, [Next]_vars PROVE TypeInv'
  OBVIOUS
<1>0. TypeOK /\ ReceiverHonest /\ PositionsPast
  BY DEF TypeInv
<1>1. CASE UNCHANGED vars
  BY <1>0, <1>1 DEF vars, tables, receiver, history, TypeInv, TypeOK, ReceiverHonest, PositionsPast
<1>2. CASE Tick
  <2>1. now' = now + 1 /\ now' \in Time /\ now \in Nat
    BY <1>0, <1>2, Typed, Basics DEF Tick, Time
  <2>2. UNCHANGED <<stamp, online, located, rx, left, read, key, heard, raced>>
    BY <1>2 DEF Tick, tables, receiver, history
  <2>3. TypeOK' /\ ReceiverHonest'
    BY <1>0, <2>1, <2>2 DEF TypeOK, ReceiverHonest
  <2>4. PositionsPast'
    BY <1>0, <2>1, <2>2, Typed DEF PositionsPast
  <2> QED
    BY <2>3, <2>4 DEF TypeInv
<1>3. ASSUME NEW h \in Hubs, NEW T, Sweep(h, T) PROVE TypeInv'
  <2>1. online' \in [Hubs -> SUBSET Seen] /\ \A g \in Hubs : online'[g] \subseteq online[g]
    BY <1>0, <1>3 DEF TypeOK, Sweep
  <2>2. UNCHANGED <<now, stamp, located, rx, left, read, key, heard, raced>>
    BY <1>3 DEF Sweep, receiver, history
  <2> QED
    BY <1>0, <2>1, <2>2 DEF TypeInv, TypeOK, ReceiverHonest, PositionsPast
<1>4. ASSUME NEW h \in Hubs, NEW k \in Gossiped, Read(h, k) PROVE TypeInv'
  <2>1. /\ key' = [key EXCEPT ![h] = {k}] /\ k \in left[h]
        /\ read' = [read EXCEPT ![h] = stamp[h][k]]
        /\ UNCHANGED <<now, stamp, online, located, rx, left, heard, raced>>
    BY <1>4 DEF Read, tables, history
  <2>2. stamp[h][k] \in {0} \cup Time
    BY <1>0, Typed, Basics
  <2>3. read' \in [Hubs -> {0} \cup Time] /\ key' \in [Hubs -> SUBSET Gossiped]
        /\ \A g \in Hubs : key'[g] \subseteq left[g]
    BY <1>0, <2>1, <2>2 DEF TypeOK, ReceiverHonest
  <2> QED
    BY <1>0, <2>1, <2>3 DEF TypeInv, TypeOK, ReceiverHonest, PositionsPast
<1> QED
  BY <1>0, <1>1, <1>2, <1>3, <1>4, Shapes, LocationTypes, WriteTypes, ContactTypes, EditTypes, DeliverTypes

\* Every state of registries, messages and merges is well formed: in particular a
\* node or hub that is online has a row.
THEOREM TypeCorrect == Spec => []TypeOK
<1>1. TypeInv /\ [Next]_vars => TypeInv'
  BY TypeStep
<1>2. TypeInv => TypeOK
  BY DEF TypeInv
<1> QED
  BY InitTypes, <1>1, <1>2, PTL DEF Spec

---------------------------------------------------------------------------
\* Who is fresh is online

\* Positions that are handled out of order may make a stale row look younger than the
\* last contact.  Either the time between a look at the clock and its use does not
\* reach two units of time, or no positions are reported.
InStep == Lag <= 1 \/ Located = {}

LEMMA InitFresh == Init => FreshInv
<1> SUFFICES ASSUME Init PROVE FreshInv
  OBVIOUS
<1>1. HeardIsStored /\ HeardIsRead /\ StaleIsOld /\ GossipIsOld
  BY Basics DEF Init, HeardIsStored, HeardIsRead, StaleIsOld, GossipIsOld
<1>2. PositionsOld /\ FreshIsOnline
  BY DEF Init, PositionsOld, FreshIsOnline
<1> QED
  BY <1>1, <1>2 DEF FreshInv

\* What h hears itself brings its row up to date, and the merge that it interrupts is
\* remembered.
LEMMA ContactFresh ==
  ASSUME InStep, TypeInv, FreshInv, NEW h \in Hubs, NEW k \in Seen, NEW t \in Recent, Contact(h, k, t)
  PROVE  FreshInv'
<1>0. TypeOK /\ PositionsPast
  BY DEF TypeInv
<1>1. t \in Time /\ t <= now /\ now <= t + Lag /\ t \in Nat /\ t > 0 /\ k \in Keys
  BY <1>0, RecentTimes, Typed, Basics
<1>2. \A g \in Hubs, j \in Keys : stamp'[g][j] = IF g = h /\ j = k THEN t ELSE stamp[g][j]
  BY <1>0, <1>1, RowSet, Typed DEF Contact, UpsertSeen
<1>3. \A g \in Hubs, j \in Seen : heard'[g][j] = IF g = h /\ j = k THEN t ELSE heard[g][j]
  BY <1>0, <1>1, RowSet, Typed DEF Contact, Hear
<1>4. /\ online' = [online EXCEPT ![h] = @ \cup {k}]
      /\ raced' = IF k \in key[h] THEN raced \cup {k} ELSE raced
      /\ UNCHANGED <<now, rx, left, read, key>>
  BY DEF Contact, UpsertSeen, Hear, receiver
<1>5. \A g \in Hubs, j \in Seen : j \in online'[g] <=> (j \in online[g] \/ (g = h /\ j = k))
  BY <1>0, <1>4, Typed
<1>6. HeardIsStored'
  BY <1>1, <1>2, <1>3, <1>4, Basics DEF FreshInv, HeardIsStored
<1>7. HeardIsRead'
  <2> SUFFICES ASSUME NEW g \in Hubs, NEW j \in key[g], j \in Nodes, j \notin raced'
               PROVE  heard'[g][j] <= read[g]
    BY <1>4 DEF HeardIsRead
  <2>1. ~(g = h /\ j = k) /\ j \notin raced /\ j \in Seen
    BY <1>4, Basics
  <2> QED
    BY <1>3, <2>1 DEF FreshInv, HeardIsRead
<1>8. StaleIsOld'
  BY <1>2, <1>4, <1>5, Basics DEF FreshInv, StaleIsOld
<1>9. GossipIsOld'
  BY <1>4 DEF FreshInv, GossipIsOld
<1>10. FreshIsOnline'
  BY <1>3, <1>4, <1>5 DEF FreshInv, FreshIsOnline
<1>11. PositionsOld'
  <2>1. \A g \in Hubs : g \notin Located => located'[g] = {}
    <3>1. CASE UNCHANGED located
      BY <3>1 DEF FreshInv, PositionsOld
    <3>2. CASE h \in Located /\ \E at \in 1 .. t :
                  located' = [located EXCEPT ![h] = @ \cup {[node |-> k, at |-> at]}]
      <4>1. \A g \in Hubs \ {h} : located'[g] = located[g]
        BY <1>0, <3>2 DEF TypeOK
      <4> QED
        BY <3>2, <4>1 DEF FreshInv, PositionsOld
    <3> QED
      BY <3>1, <3>2 DEF Contact
  <2>2. ASSUME NEW g \in Hubs, NEW p \in located'[g] PROVE p.at <= heard'[g][p.node] + 1
    <3>1. CASE p \in located[g]
      <4>1. /\ p.node \in Nodes /\ p.node \in Seen /\ p.at \in Nat /\ p.at <= now /\ now \in Nat
            /\ p.at <= heard[g][p.node] + 1
        BY <1>0, <3>1, Typed, Basics DEF PositionsPast, FreshInv, PositionsOld
      <4>2. CASE g = h /\ p.node = k
        <5>1. Lag <= 1
          <6>1. g \in Located
            BY <3>1 DEF FreshInv, PositionsOld
          <6> QED
            BY <6>1 DEF InStep
        <5>2. heard'[g][p.node] = t
          BY <1>3, <4>1, <4>2
        <5> QED
          BY <1>1, <4>1, <5>1, <5>2, Basics
      <4>3. CASE ~(g = h /\ p.node = k)
        BY <1>3, <4>1, <4>3
      <4> QED
        BY <4>2, <4>3
    <3>2. CASE p \notin located[g]
      <4>1. PICK at \in 1 .. t : k \in Nodes /\
                located' = [located EXCEPT ![h] = @ \cup {[node |-> k, at |-> at]}]
        BY <3>2 DEF Contact
      <4>2. g = h /\ p = [node |-> k, at |-> at]
        BY <1>0, <2>2, <3>2, <4>1 DEF TypeOK
      <4>3. p.node = k /\ p.at = at /\ at \in Nat /\ at <= t
        BY <1>1, <4>1, <4>2
      <4>4. heard'[g][p.node] = t
        BY <1>3, <4>2, <4>3
      <4> QED
        BY <1>1, <4>3, <4>4
    <3> QED
      BY <3>1, <3>2
  <2> QED
    BY <2>1, <2>2 DEF PositionsOld
<1> QED
  BY <1>6, <1>7, <1>8, <1>9, <1>10, <1>11 DEF FreshInv

\* A position makes no stale row young.
LEMMA LocationFresh ==
  ASSUME TypeInv, FreshInv, NEW h \in Hubs, NEW p \in located[h], UpdateLocation(h, p)
  PROVE  FreshInv'
<1>0. TypeOK /\ PositionsPast
  BY DEF TypeInv
<1>1. /\ p.node \in Nodes /\ p.node \in Seen /\ p.node \in Keys
      /\ p.at \in Time /\ p.at \in Nat
      /\ heard[h][p.node] > 0 /\ p.at <= heard[h][p.node] + 1
  BY <1>0, Typed, Basics DEF PositionsPast, FreshInv, PositionsOld, Time, Active
<1>2. PICK t : t = IF p.at > stamp[h][p.node] THEN p.at ELSE stamp[h][p.node]
  OBVIOUS
<1>3. t \in {0} \cup Time /\ t \in Nat /\ t >= stamp[h][p.node] /\ (t = p.at \/ t = stamp[h][p.node])
  BY <1>0, <1>1, <1>2, Typed
<1>4. \A g \in Hubs, j \in Keys : stamp'[g][j] = IF g = h /\ j = p.node THEN t ELSE stamp[g][j]
  <2>1. stamp' = [stamp EXCEPT ![h][p.node] = t]
    BY <1>2 DEF UpdateLocation
  <2> QED
    BY <1>0, <1>1, <1>3, <2>1, RowSet, Typed
<1>5. /\ located' = [located EXCEPT ![h] = @ \ {p}]
      /\ UNCHANGED <<now, online, rx, left, read, key, heard, raced>>
  BY DEF UpdateLocation, receiver, history
<1>6. HeardIsStored'
  <2> SUFFICES ASSUME NEW g \in Hubs, NEW j \in Seen, j \notin raced
               PROVE  heard[g][j] <= stamp'[g][j]
    BY <1>5 DEF HeardIsStored
  <2>1. heard[g][j] <= stamp[g][j] /\ heard[g][j] \in Nat /\ stamp[g][j] \in Nat /\ j \in Keys
    BY <1>0, Typed, Basics DEF FreshInv, HeardIsStored
  <2> QED
    BY <1>3, <1>4, <2>1
<1>7. StaleIsOld'
  <2> SUFFICES ASSUME NEW g \in Hubs, NEW j \in Nodes, j \notin raced, stamp'[g][j] > 0, j \notin online[g]
               PROVE  stamp'[g][j] + StaleAfter <= now
    BY <1>5 DEF StaleIsOld
  <2>1. j \in Keys /\ j \in Seen /\ now \in Nat /\ StaleAfter \in Nat /\ stamp[g][j] \in Nat
        /\ heard[g][j] \in Nat
    BY <1>0, Typed, Basics
  <2>2. CASE g = h /\ j = p.node /\ t = p.at
    <3>1. ~(now <= heard[h][p.node] + StaleAfter)
      BY <1>1, <2>2 DEF FreshInv, FreshIsOnline
    <3> QED
      BY <1>1, <1>4, <2>1, <2>2, <3>1
  <2>3. CASE ~(g = h /\ j = p.node /\ t = p.at)
    <3>1. stamp'[g][j] = stamp[g][j]
      BY <1>3, <1>4, <2>1, <2>3
    <3> QED
      BY <3>1 DEF FreshInv, StaleIsOld
  <2> QED
    BY <2>2, <2>3
<1>8. PositionsOld'
  <2>1. \A g \in Hubs : located'[g] \subseteq located[g]
    BY <1>0, <1>5 DEF TypeOK
  <2> QED
    BY <1>5, <2>1 DEF FreshInv, PositionsOld
<1>9. HeardIsRead' /\ GossipIsOld' /\ FreshIsOnline'
  BY <1>5 DEF FreshInv, HeardIsRead, GossipIsOld, FreshIsOnline
<1> QED
  BY <1>6, <1>7, <1>8, <1>9 DEF FreshInv

\* A sweep marks only what is overdue.
LEMMA SweepFresh ==
  ASSUME TypeInv, FreshInv, NEW h \in Hubs, NEW T, Sweep(h, T)
  PROVE  FreshInv'
<1>0. TypeOK
  BY DEF TypeInv
<1>1. UNCHANGED <<now, stamp, located, rx, left, read, key, heard, raced>>
  BY DEF Sweep, receiver, history
<1>2. \A g \in Hubs : \A k \in online[g] : k \notin online'[g] => stamp[g][k] + StaleAfter < now
  BY <1>0, Typed DEF Sweep, Overdue
<1>3. StaleIsOld'
  <2> SUFFICES ASSUME NEW g \in Hubs, NEW k \in Nodes, k \notin raced, stamp[g][k] > 0, k \notin online'[g]
               PROVE  stamp[g][k] + StaleAfter <= now
    BY <1>1 DEF StaleIsOld
  <2>1. CASE k \in online[g]
    BY <1>0, <1>2, <2>1, Typed, Basics
  <2>2. CASE k \notin online[g]
    BY <2>2 DEF FreshInv, StaleIsOld
  <2> QED
    BY <2>1, <2>2
<1>4. FreshIsOnline'
  <2> SUFFICES ASSUME NEW g \in Hubs, NEW k \in Seen, k \notin raced,
                      heard[g][k] > 0, now <= heard[g][k] + StaleAfter, k \notin online'[g]
               PROVE  FALSE
    BY <1>1 DEF FreshIsOnline
  <2>1. k \in online[g]
    BY DEF FreshInv, FreshIsOnline
  <2>2. heard[g][k] <= stamp[g][k] /\ stamp[g][k] + StaleAfter < now
    BY <1>2, <2>1 DEF FreshInv, HeardIsStored
  <2> QED
    BY <1>0, <2>2, Typed, Basics
<1>5. HeardIsStored' /\ HeardIsRead' /\ GossipIsOld' /\ PositionsOld'
  BY <1>1 DEF FreshInv, HeardIsStored, HeardIsRead, GossipIsOld, PositionsOld
<1> QED
  BY <1>3, <1>4, <1>5 DEF FreshInv

\* A message has no younger stale records than its sender.
LEMMA DeliverFresh ==
  ASSUME TypeInv, FreshInv, NEW g \in Hubs, NEW h \in Hubs, Deliver(g, h)
  PROVE  FreshInv'
<1>0. TypeOK
  BY DEF TypeInv
<1>1. /\ rx' = [rx EXCEPT ![h] = BuildMessage(g)]
      /\ left' = [left EXCEPT ![h] = Records(BuildMessage(g))]
      /\ UNCHANGED <<now, stamp, online, located, read, key, heard, raced>>
  BY DEF Deliver, tables, history
<1>2. GossipIsOld'
  <2> SUFFICES ASSUME NEW i \in Hubs, NEW k \in left'[i], k \in Nodes, k \notin raced, k \notin rx'[i].online
               PROVE  rx'[i].stamp[k] + StaleAfter <= now
    BY <1>1 DEF GossipIsOld
  <2>1. CASE i = h
    <3>1. rx'[i] = BuildMessage(g) /\ left'[i] = Records(BuildMessage(g))
      BY <1>0, <1>1, <2>1 DEF TypeOK
    <3>2. k \in Gossiped /\ rx'[i].stamp[k] > 0
      BY <3>1 DEF Records
    <3>3. rx'[i].stamp[k] = (IF k \in Listed(g) THEN stamp[g][k] ELSE 0)
      BY <3>1, <3>2 DEF BuildMessage
    <3>4. k \notin online[g]
      BY <3>1 DEF BuildMessage
    <3>5. rx'[i].stamp[k] = stamp[g][k]
      BY <3>2, <3>3
    <3> QED
      BY <3>2, <3>4, <3>5 DEF FreshInv, StaleIsOld
  <2>2. CASE i # h
    <3>1. rx'[i] = rx[i] /\ left'[i] = left[i]
      BY <1>0, <1>1, <2>2 DEF TypeOK
    <3> QED
      BY <3>1 DEF FreshInv, GossipIsOld
  <2> QED
    BY <2>1, <2>2
<1>3. HeardIsStored' /\ HeardIsRead' /\ StaleIsOld' /\ PositionsOld' /\ FreshIsOnline'
  BY <1>1 DEF FreshInv, HeardIsStored, HeardIsRead, StaleIsOld, PositionsOld, FreshIsOnline
<1> QED
  BY <1>2, <1>3 DEF FreshInv

\* A merge that puts a stale record over a row knows of no later contact.
LEMMA WriteFresh ==
  ASSUME TypeInv, FreshInv, NEW h \in Hubs, NEW k \in Gossiped, Write(h, k)
  PROVE  FreshInv'
<1>0. TypeOK
  BY DEF TypeInv
<1>1. /\ left' = [left EXCEPT ![h] = @ \ {k}]
      /\ key' = [key EXCEPT ![h] = {}]
      /\ read' = [read EXCEPT ![h] = 0]
      /\ rx' = IF left[h] = {k} THEN [rx EXCEPT ![h] = NoMsg] ELSE rx
      /\ UNCHANGED <<now, located, heard, raced>>
  BY DEF Write, history
<1>2. PICK t : t = rx[h].stamp[k]
  OBVIOUS
<1>3. k \in left[h] /\ k \in key[h] /\ k \in Keys /\ t \in {0} \cup Time /\ t \in Nat
  BY <1>2, WriteRow, Basics
<1>4. HeardIsRead'
  <2>1. key'[h] = {} /\ \A i \in Hubs \ {h} : key'[i] = key[i] /\ read'[i] = read[i]
    BY <1>0, <1>1 DEF TypeOK
  <2> QED
    BY <1>1, <2>1 DEF FreshInv, HeardIsRead
<1>5. GossipIsOld'
  <2>1. \A i \in Hubs : left'[i] \subseteq left[i] /\ (left'[i] # {} => rx'[i] = rx[i])
    BY <1>0, <1>1, <1>3 DEF TypeOK
  <2> QED
    BY <1>1, <2>1 DEF FreshInv, GossipIsOld
<1>6. PositionsOld'
  BY <1>1 DEF FreshInv, PositionsOld
<1>7. HeardIsStored' /\ StaleIsOld' /\ FreshIsOnline'
  <2>1. CASE UNCHANGED <<stamp, online>>
    BY <1>1, <2>1 DEF FreshInv, HeardIsStored, StaleIsOld, FreshIsOnline
  <2>2. CASE t > read[h] /\ stamp' = [stamp EXCEPT ![h][k] = t] /\ k \notin Nodes /\ UNCHANGED online
    <3>1. k \notin Seen
      BY <2>2, Basics
    <3>2. \A g \in Hubs, j \in Seen : stamp'[g][j] = stamp[g][j]
      BY <1>0, <1>3, <2>2, <3>1, RowSet, Typed, Basics
    <3> QED
      BY <1>1, <2>2, <3>2, Basics DEF FreshInv, HeardIsStored, StaleIsOld, FreshIsOnline
  <2>3. CASE /\ t > read[h] /\ stamp' = [stamp EXCEPT ![h][k] = t] /\ k \in Nodes
             /\ online' = [online EXCEPT ![h] = IF k \in rx[h].online THEN @ \cup {k} ELSE @ \ {k}]
    <3>1. \A g \in Hubs, j \in Keys : stamp'[g][j] = IF g = h /\ j = k THEN t ELSE stamp[g][j]
      BY <1>0, <1>3, <2>3, RowSet, Typed
    <3>2. \A g \in Hubs, j \in Seen :
             j \in online'[g] <=> IF g = h /\ j = k THEN k \in rx[h].online ELSE j \in online[g]
      BY <1>0, <2>3, Typed
    <3>3. /\ k \in Seen /\ heard[h][k] \in Nat /\ read[h] \in Nat
          /\ now \in Nat /\ StaleAfter \in Nat
      BY <1>0, <2>3, Typed, Basics
    <3>4. k \notin raced => heard[h][k] <= read[h]
      BY <1>3, <2>3 DEF FreshInv, HeardIsRead
    <3>5. k \notin raced /\ k \notin rx[h].online => t + StaleAfter <= now
      BY <1>2, <1>3, <2>3 DEF FreshInv, GossipIsOld
    <3>6. HeardIsStored'
      <4> SUFFICES ASSUME NEW g \in Hubs, NEW j \in Seen, j \notin raced
                   PROVE  heard[g][j] <= stamp'[g][j]
        BY <1>1 DEF HeardIsStored
      <4>1. CASE g = h /\ j = k
        <5>1. stamp'[g][j] = t
          BY <1>3, <3>1, <4>1
        <5> QED
          BY <1>3, <2>3, <3>3, <3>4, <4>1, <5>1
      <4>2. CASE ~(g = h /\ j = k)
        BY <3>1, <4>2, Basics DEF FreshInv, HeardIsStored
      <4> QED
        BY <4>1, <4>2
    <3>7. StaleIsOld'
      <4> SUFFICES ASSUME NEW g \in Hubs, NEW j \in Nodes, j \notin raced, stamp'[g][j] > 0, j \notin online'[g]
                   PROVE  stamp'[g][j] + StaleAfter <= now
        BY <1>1 DEF StaleIsOld
      <4>0. j \in Seen /\ j \in Keys
        BY Basics
      <4>1. CASE g = h /\ j = k
        BY <3>1, <3>2, <3>5, <4>0, <4>1
      <4>2. CASE ~(g = h /\ j = k)
        BY <3>1, <3>2, <4>0, <4>2 DEF FreshInv, StaleIsOld
      <4> QED
        BY <4>1, <4>2
    <3>8. FreshIsOnline'
      <4> SUFFICES ASSUME NEW g \in Hubs, NEW j \in Seen, j \notin raced,
                          heard[g][j] > 0, now <= heard[g][j] + StaleAfter
                   PROVE  j \in online'[g]
        BY <1>1 DEF FreshIsOnline
      <4>1. CASE g = h /\ j = k
        <5>1. ~(t + StaleAfter <= now)
          BY <1>3, <2>3, <3>3, <3>4, <4>1
        <5> QED
          BY <3>2, <3>5, <4>1, <5>1
      <4>2. CASE ~(g = h /\ j = k)
        BY <3>2, <4>2 DEF FreshInv, FreshIsOnline
      <4> QED
        BY <4>1, <4>2
    <3> QED
      BY <3>6, <3>7, <3>8
  <2> QED
    BY <1>2, <2>1, <2>2, <2>3, WriteRow
<1> QED
  BY <1>4, <1>5, <1>6, <1>7 DEF FreshInv

LEMMA FreshStep ==
  ASSUME InStep, TypeInv, FreshInv, [Next]_vars
  PROVE  FreshInv'
<1>0. TypeOK /\ ReceiverHonest
  BY DEF TypeInv
<1>1. CASE UNCHANGED vars
  BY <1>1 DEF vars, tables, receiver, history, FreshInv,
              HeardIsStored, HeardIsRead, StaleIsOld, GossipIsOld, PositionsOld, FreshIsOnline
<1>2. CASE Tick
  <2>1. /\ now' = now + 1 /\ now \in Nat /\ StaleAfter \in Nat
        /\ UNCHANGED <<stamp, online, located, rx, left, read, key, heard, raced>>
    BY <1>0, <1>2, Typed, Basics DEF Tick, tables, receiver, history
  <2>2. HeardIsStored' /\ HeardIsRead' /\ PositionsOld'
    BY <2>1 DEF FreshInv, HeardIsStored, HeardIsRead, PositionsOld
  <2>3. StaleIsOld'
    BY <1>0, <2>1, Typed, Basics DEF FreshInv, StaleIsOld
  <2>4. GossipIsOld'
    <3> SUFFICES ASSUME NEW h \in Hubs, NEW k \in left[h], k \in Nodes, k \notin raced, k \notin rx[h].online
                 PROVE  rx[h].stamp[k] + StaleAfter <= now + 1
      BY <2>1 DEF GossipIsOld
    <3>1. rx[h] \in Message /\ k \in Gossiped
      BY <1>0 DEF TypeOK, ReceiverHonest
    <3>2. rx[h].stamp[k] \in Nat
      BY <3>1, Basics DEF Message, Time
    <3>3. rx[h].stamp[k] + StaleAfter <= now
      BY DEF FreshInv, GossipIsOld
    <3> QED
      BY <2>1, <3>2, <3>3
  <2>5. FreshIsOnline'
    BY <1>0, <2>1, Typed DEF FreshInv, FreshIsOnline
  <2> QED
    BY <2>2, <2>3, <2>4, <2>5 DEF FreshInv
<1>3. ASSUME NEW h \in Hubs, NEW k \in Gossiped, Read(h, k) PROVE FreshInv'
  <2>1. /\ key' = [key EXCEPT ![h] = {k}]
        /\ read' = [read EXCEPT ![h] = stamp[h][k]]
        /\ UNCHANGED <<now, stamp, online, located, rx, left, heard, raced>>
    BY <1>3 DEF Read, tables, history
  <2>2. HeardIsRead'
    <3> SUFFICES ASSUME NEW g \in Hubs, NEW j \in key'[g], j \in Nodes, j \notin raced
                 PROVE  heard[g][j] <= read'[g]
      BY <2>1 DEF HeardIsRead
    <3>1. CASE g = h
      <4>1. j = k /\ read'[g] = stamp[g][j]
        BY <1>0, <2>1, <3>1 DEF TypeOK
      <4> QED
        BY <4>1, Basics DEF FreshInv, HeardIsStored
    <3>2. CASE g # h
      BY <1>0, <2>1, <3>2 DEF TypeOK, FreshInv, HeardIsRead
    <3> QED
      BY <3>1, <3>2
  <2>3. HeardIsStored' /\ StaleIsOld' /\ GossipIsOld' /\ PositionsOld' /\ FreshIsOnline'
    BY <2>1 DEF FreshInv, HeardIsStored, StaleIsOld, GossipIsOld, PositionsOld, FreshIsOnline
  <2> QED
    BY <2>2, <2>3 DEF FreshInv
<1>4. ASSUME NEW h \in Hubs, NEW k \in Relays \cup Apps, NEW t \in {0} \cup Time, Edit(h, k, t)
      PROVE  FreshInv'
  <2>1. UNCHANGED <<now, online, located, rx, left, read, key, heard, raced>>
    BY <1>4 DEF Edit, receiver, history
  <2>2. \A g \in Hubs, j \in Seen : stamp'[g][j] = stamp[g][j]
    BY <1>0, <1>4, RowSet, Typed, Basics DEF Edit
  <2> QED
    BY <2>1, <2>2, Basics DEF FreshInv, HeardIsStored, HeardIsRead, StaleIsOld, GossipIsOld,
                              PositionsOld, FreshIsOnline
<1> QED
  BY <1>0, <1>1, <1>2, <1>3, <1>4, Shapes, ContactFresh, LocationFresh, SweepFresh, WriteFresh, DeliverFresh

\* Whoever a hub has heard itself within StaleAfter is online in its registry,
\* although sweeps, late positions and merges of old gossip write the same row, unless
\* somebody was heard between the SELECT and the write of a merge.
THEOREM FreshIsOnlineHolds == ASSUME InStep PROVE Spec => []FreshIsOnline
<1>1. Init => TypeInv /\ FreshInv
  BY InitTypes, InitFresh
<1>2. TypeInv /\ FreshInv /\ [Next]_vars => (TypeInv /\ FreshInv)'
  BY TypeStep, FreshStep
<1>3. FreshInv => FreshIsOnline
  BY DEF FreshInv
<1> QED
  BY <1>1, <1>2, <1>3, PTL DEF Spec
=============================================================================
