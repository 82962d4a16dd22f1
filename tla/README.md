# Formal models of QuakeMesh

TLA+ specifications of the QuakeMesh hub, its monitor and the client library of
apps; the TLC configurations that check them; and TLAPS proofs. Paths below are
relative to the repository. `PROJECT.json` lists the runs, the map from definitions
to source lines, the hazards with the properties that would catch them, the findings
and the theorems.

## The system

QuakeMesh is a disaster-area mesh. A *hub* (`hub/`) is a Go process over one SQLite
database (`core/storage`; a single connection, so each statement or transaction is
atomic and nothing larger is). A *monitor* (`monitor/`) is a second process over the
same file, with a web dashboard. Phones and apps talk to hubs over HTTP, hubs talk to
each other over UDP.

| Component | State | Operations | Talks to | What is hard |
|---|---|---|---|---|
| routing metrics, `core/routing` | none | ComputeTQ, PathTQ, Cost, Better | OGM engine | a preference must not be circular |
| OGM engine, `hub/internal/ogmengine` | seq, lastSeq, rebroadcasted, linkRQ, linkEQ, alternates (memory); node_registry, routing_table | periodic OGM, hello, receive and relay, stale sweep and failover, stale probe | peers; registry; trust; management API; DTN engine | loss, duplication, reordering, restart, several paths |
| registry, `hub/internal/registry` | node_registry, hub_registry, routing_table, relay_hubs | upserts, stale marking, gossip merges | everyone | read-then-write merges beside other writers |
| heartbeat and LAN discovery, `nodeheartbeat`, `landiscovery` | rows of the registry | heartbeats, SOS, beacons, own liveness | phones, LAN | several reporters of one row |
| DTN engine, `dtnengine`, `core/dtn` | dtq_queue, lastDepth | Enqueue, passes over the queue, expiry, depth | registry, OGM events, daemon API | concurrent passes, stale snapshots, crashes |
| hub sync, `syncengine` | none of its own | gossip of node, relay, presence and ban records, merge on receipt | peers; registry, presence, bans | loss, stale copies coming back, records that depend on each other |
| ban list, `core/banlist`, monitor pages | ban_list, ban_verdicts | propose, decide, merge, enforce | hub sync, monitor, daemon API | two processes write; enforcement must follow the admin's will |
| app presence, `core/apppresence` | app_presence | upsert, merge, discover | hub sync, daemon API | last writer wins |
| daemon API, `daemonapi`, and SDK, `sdk/go` | sessions, inbox, topics | register, send, receive, publish, subscribe, discover | DTN engine, ban list, apps | long polls racing each other, lost answers |
| management API, `managementapi`; `monitor/internal/hubclient`, `sosfeed`, `server` | clients and channels, SOS feed, pages | publish, stream, reconnect, fan out | dashboard | drops when full, order, gaps at reconnects |
| monitor sessions, `monitor/internal/auth` | admin_users, sessions, attempts | login, lockout, password change | dashboard | a login overlapping a change |
| storage, `core/storage` | schema, user_version | Open, six migrations | all stores | a crash half way; two processes at once |
| hub lifecycle, `hubapp`, `fallback` | which services run, a flag | New, Start, Close, polling | all | a failure half way through Start, goroutines at work during Close |

What makes each correct: routes are truthful and floods reach everyone; bundles are
neither lost nor kept for ever; what is heard is online, what is silent goes stale,
and rows converge; a ban is enforced exactly where an admin agreed; a message is given
once and in order; events keep their order and leave no gap; the default password is
replaced before anyone acts; the file can always be opened, and shutdown returns.

## Modules

| Module | Models | Grain of a step |
|---|---|---|
| `Routing` | `core/routing`, TQ in ten-thousandths (`Scale`) | operators |
| `RouteTable` | routing_table, alternates, candidates and failover | operators |
| `OgmMesh` | the OGM engines of all hubs and the network | a handler |
| `RegistrySync` | node_registry, hub_registry, relay_hubs and app_presence of all hubs; heartbeats, beacons, OGMs, sweeps, monitor edits and gossip | a statement |
| `BanGovernance` | ban_list and ban_verdicts of all hubs, gossip, monitors | a statement |
| `DtnEngine` | one hub's queue, its goroutines and handleSend | a statement |
| `Mailbox` | abstract: what the daemon API promises of messages | |
| `DaemonApi` | the daemon API of one hub and its SDK clients | a critical section, statement or channel operation |
| `Sessions` | the admin account and the dashboard's sessions | a statement or critical section |
| `EventStream` | extends `Sessions`: management API, hub client, SOS feed, pages | a channel, socket or map operation |
| `Storage` | Open and the migrations, by several processes | a transaction |
| `HubLifecycle` | extends `Storage`: start and shutdown of the hub, the monitor, the fallback flag | a call of Start or Close |
| `MC*` | instances for TLC: topologies, clocks, callers | |
| `*Proofs` | proofs, checked by TLAPS | |

Definitions marked *Fault* are plausible bugs. Substituting one for the definition
that follows it makes TLC refute a property, which shows that the property depends on
that code. They are not part of any specification.

### OgmMesh

State: the maps of `Engine`, the `status` column of node_registry, routing_table and
the proximity events the engine records, for every hub; `net`, the datagrams under
way; `spent`, the bounds used up. Actions: `BroadcastOnce` (sendLoop), `SendHellos`,
`StaleProbe`, `Receive` (receiveLoop, handlePacket, handleOgm: `ReceiveOwn`,
`ReceiveOld`, `ReceiveNew`), `StaleSweep`, `Restart`. A datagram may stay in `net`
for ever (loss), be taken in any order, and be taken twice (`MaxDups`).

A Hello has fields 1 and 2 with the wire types of an Ogm's, and handlePacket tries
Ogm first: `HelloAsOgm` is what the receiver sees, and handleHello is dead code, so
latencies stay 0. `peerByAddr` only matters for messages without a last hop, and then
says what `Forwarder` says. floodOgm skips a peer only when its *configured* address
is the packet's source address: `LiteralPeers` are the links where that can be.
`StaleSweep` handles one node per step. Not here: hub_registry (`RegistrySync`),
metrics, locations (a hub's OGMs carry none), events (`EventStream`), database errors,
and the interleaving of one hub's own goroutines.

### RegistrySync

State: for each hub the timestamp of every row and which rows are online; the message
being applied, the rows left and what the merge in hand has read. `Tick` is the
shared clock, and writers use a time read up to `Lag` before. Nodes are reported by
heartbeats and beacons, with the position stored in a second statement (`Locate`,
which raises the timestamp and leaves the status); hubs by OGMs; relays by the
monitor, which may also remove them; apps by the daemon API. `Deliver` builds and
sends a HubSyncMessage, `Apply` merges a row in two steps (SELECT, then INSERT or
UPDATE), between which any writer may come.

### BanGovernance

State: the two tables at every hub, the sender's and the receiver's locals, the
datagram last sent on each link, and `decided`, the history of admins' decisions. A
merge is two steps, `Read` and `Write`, and the monitor (`ProposeBan`,
`SetBanVerdict`) may write between them. A datagram stays on its link until a later
one replaces it: a lost one is never delivered, one may be delivered twice, and stale
copies come back over other hubs. Every proposal has the zero ban_id (see Findings),
so a table has one row. Signatures, version ranges and reasons are left out: no code
verifies a signature, and signing changes nothing else. It is assumed that one admin's
decisions have increasing timestamps. `Decisions` bounds what an admin may decide and
when.

### DtnEngine

State: dtq_queue, the online nodes and routes of the registry, lastDepth, and for
every goroutine its program counter and locals. `Step(t)` is a goroutine's next
statement: `List` (ExpireBefore and List), `OnlineDestinations`, `Examine` (GetRoute
and DeliverLocal), `Delete`, `ReadDepth`, `PublishDepth`. `HandleSend` (the daemon
API's handler, with `Enqueue` and `Insert`) and `RouteChanged` start a call; `NodeUp`,
`NodeDown`, `RouteLost` and `Expire` are the registry and the clock; `Crash` kills the
process and starts a new one over the same database. Forwarding itself is "a later
phase" in the code: a bundle whose destination is online and has a route is dequeued.
retry_count is read by nothing in the hub and left out. Two history variables, which
`Observe` keeps in every step and nothing reads, record what the world offered each
bundle while it was in the queue: `sighted`, its destination was online, and
`deliverable`, it had a route after that. `NothingLost` compares them with what has
left the queue.

### DaemonApi and Mailbox

Requests are sequences of steps: registration looks up the ban, writes app_presence,
opens the session; `HandleReceive` takes a payload off the inbox before it is answered
(`PollReceive`, or `PollFails` when the answer is lost); a subscription registers a
channel under its session, takes a payload or the timeout, and deletes *whatever* is
registered there; a publication copies the channels under the lock and sends without
it; a lookup lists and then filters. An empty payload is answered like an empty inbox,
as the copy of an empty slice is nil. `Crash` loses sessions, inbox and topics.

`Mailbox` knows only what has arrived and who was given what. `Box`, the instance of
`Mailbox` in `DaemonApi`, maps `arrived` and `given` to the variables of those names: `DeliverLocal` is an arrival, an answer that
reaches its client gives one message, and everything else (the inbox, losing an
answer, a restart) is a stutter.

### Sessions and EventStream

A login reads the row and compares the password before it opens the session; a change
compares, updates the row and then lifts the restriction of sessions. Event i is the
i-th change the hub commits; it is published later, in any order among those pending,
as the code calls its handlers after the transaction. It passes the channel of the
hub's client (`queue`), the connection (`wire`), the monitor's channel (`feed`) and a
page's channel (`pane`); each drops what it finds no room for. Connections end on
either side, by silence, and with restarts of hub and monitor. A page registers its
channel, reads its overview and then gets events. The overview is eight counters and a
flag: `Counted` are the events that change one of them, and of those alone can a page
learn from it. When it fails, the page goes on without one (`"blank"`), and `NoGap`
says nothing of it: it is not told what was passed on before it registered. The same
goes for bans, apps and routes that change without a new row.

### Storage and HubLifecycle

The schema is the set of parts the migrations add. Migrations 4 to 6 fail on what is
there already; 2 and 3 rebuild a table and so drop later columns without complaint.
`BeginOpen`, `ReadVersion`, `ApplyMigration` (one transaction each) and `EndOpen` make
up Open. The hub opens, starts its services in the order of Start, and on a failure
unwinds what Start unwinds; it then registers itself, runs, and closes in the order of
Close. `todo` is the set of services still to be handled, and `StartOrder` and
`CloseOrder` rank them, so that `IsNext` is the order in which the code handles them.
Engines wait for their goroutines; HTTP servers wait five seconds, which the model
takes as "may give up". Either process may die anywhere.

## Runs

| Run | Result | Distinct states | What it shows |
|---|---|---|---|
| `ogm_flood` | pass | 617 thousand | kite of four hubs, TTL 2, two OGMs of one hub and one of another, every order and loss: hop budgets add up, proximity is honest, floods reach everyone, echoes are bounded, the table holds the best route |
| `ogm_churn` | pass | 354 thousand | source, relay and listener with a hello, a duplicate, a sweep, a probe and a restart anywhere: routes and alternates stay truthful, next hops have heard of the destination, and only a sweep makes a route worse |
| `registry` | pass | 72 thousand | two hubs hear a node and each other, sweep and gossip: what is heard is online, what falls silent goes stale everywhere, rows converge |
| `bans` | pass | 274 thousand | ring of three hubs, two proposals of different age, and an admin whose verdict has to be relayed and who changes it: copies of the earlier decision come back and do not undo the later one, rows never get older, everyone ends with the same |
| `dtn` | pass | 291 thousand | the loop, a route notification and a sender over two bundles, one of which may expire, with one crash: nothing is dequeued that was not deliverable while it waited, the queue drains, the published depth settles |
| `daemon` | pass | 90 thousand | two apps, two overlapping polls of one session, two posts, three messages, a lookup, a changing verdict and a restart: Mailbox is implemented, no channel leaks, a post comes once, bans are respected, requests end |
| `events` | pass | 351 thousand | channels of one place, two connections, restarts and one page, with or without overview: order is kept, no counted change is missed but for overflow, clients are reaped, the monitor reconnects; logins and a password change overlap, and the admin logs in again after a restart |
| `lifecycle` | pass | 35 thousand | a file of any version, any service failing, either process dying: the file stays openable, engines end before the database closes, failed starts stop what they should, shutdown returns or hangs in LAN discovery and nowhere else |
| `ogm_hello`, `dtn_local`, `bans_auto`, `schema_race` | violation | | see Findings |

### Bounds

Every bound is a constant and stands in a guard.

* TTL 2 is the smallest with a relay of a relay, and the kite's longest path uses it
  up. Two OGMs of one origin are needed for old against new, one restart and one sweep
  for everything that outlives them. `FloodReachesAll` is claimed for meshes of at most
  TTL + 2 hubs: in a larger one a copy whose ttl ran out on a longer path may arrive
  first and suppress the relay (listed as a hazard).
* `RegistrySync`: the four tables share the merge loop and nothing else, so
  `MaxTables` = 1 lets each run use one of them, any of them. `LastContact` = 2 and
  `MaxTime` = 4 leave time to go stale and to be called online again by gossip.
  `StaleAfter` = `Lag` = 1, where `Lag` is the time between reading the clock and
  writing the row. With a lag of two units of time, `FreshIsOnline` does not hold: a
  position that is stored only after an older contact and a sweep makes a stale row
  younger than its last contact, and gossip puts that row over another hub's fresh one.
  In the code the lag is a few instructions; timestamps are milliseconds and StaleAfter
  is minutes.
* `BanGovernance`: two proposals of different age are what last-writer-wins tells
  apart. One admin agrees, rejects, or does first one and then the other
  (`RingDecisions`), so that copies of the earlier decision are still under way when
  the later one is taken; the theorems cover any decisions of all admins.
* `DtnEngine`: two goroutines beside the loop are what publishDepth and deliverPending
  need to race.
* `DaemonApi`: mail, topics and lookups share the sessions and nothing else, so
  `MaxServices` = 1 runs each beside registration, bans and restarts. Buffers of one
  place overflow with two posts. The theorems have neither restriction.
* `EventStream`: pages need a session and share nothing else with logins. With `Apart`
  the stream begins when the password is changed and no login is under way (`Settled`),
  and the admin logs in again when the monitor has restarted and not yet connected; the
  theorems hold without it. One of the two events is an alert, the other is counted.
  Channels of one place and two events make each of them overflow; two connections let
  an old one linger beside its successor.
* `HubLifecycle`: three starts cover failing, dying and starting again; two services
  use the database at a time.

Deadlock is checked where the specification never stops (`dtn`, `bans`). The other
runs end when their bounds are used up.

### Fairness

* `DtnEngine`: a goroutine that is running is scheduled and the loop's ticker keeps
  firing; nothing is assumed of sends, routes or nodes, and crashes are bounded.
* `BanGovernance`, `RegistrySync`: tickers and receivers keep running (weak fairness),
  and a hub that gossips to a peer again and again is heard again and again (strong
  fairness of `Deliver`: a fair-lossy link). Gossip is repeated every tick for ever,
  and that is the only thing that makes up for UDP. `Tick` makes time pass.
* `DaemonApi`: goroutines run and timeouts fire; apps need not do anything.
* `EventStream`: goroutines run, the client tries again after every failure; events,
  pages and failures need not come.
* `HubLifecycle`: goroutines run. Closing an engine needs strong fairness: its loop
  sees the end between two pieces of work, as OGM and Sync close their sockets first and
  the others select on their context. LAN discovery is exempt. Its reader looks at the
  context only when a read has failed, and Close waits for it before it closes the
  socket, so nothing in the code ends it while beacons come within two seconds of each
  other. `ShutdownReturns` therefore says that this is the only place where a shutdown
  hangs, and has as an explicit hypothesis, `LanFallsSilent`, what it takes not to.
* `OgmMesh` has safety properties only and states no fairness.

## Findings

* **A Hello is taken for an OGM** (`hub/internal/ogmengine/ogmengine.go:239`, run
  `ogm_hello`). Its timestamp becomes the neighbour's sequence number; the neighbour's
  OGMs are then old and not relayed, so OGMs do not cross more than one hop after the
  first hello tick, two seconds after start.
* **Bundles for the hub itself are never delivered**
  (`hub/internal/dtnengine/dtnengine.go:144`, run `dtn_local`): the hub has no route to
  itself.
* **All bans share one id** (`core/banlist/store.go:62`, run `bans_auto`): a hub
  enforces a ban on an app whose proposal its admin never saw.
* **Two processes that migrate at once spoil the schema** (`core/storage/storage.go:82`,
  run `schema_race`): the version is read once, outside the transactions, and a hub and
  a monitor that start together repeat migrations the other has passed.

Observations that contradict no statement of the repository and have no run: on a
triangle two hubs come to route a third one via each other; failoverRoutes promotes
alternates also for destinations whose route did not lead through the stale node; a
message whose answer is lost is gone, as is an event that finds a channel full; when
Sync or OGM fails to start, heartbeat and discovery are left running; a second poll of a
session cuts the first one off; Close of LAN discovery does not return while beacons
keep arriving within two seconds of each other (TLC shows the cycle when
`LanFallsSilent` is replaced by TRUE in `ShutdownReturns`); a page opened without an
overview, or after a change that the overview does not count, is not told of it; a hub
heard between the SELECT and the UPDATE of a merge may be marked stale although it was
just heard.

## Proofs

All theorems hold for every value of the constants that satisfies the ASSUMEs of the
module, without the restrictions listed under Bounds (the bounds are arbitrary
numbers).

* `RouteTableProofs`: transmit qualities stay in range; Better is asymmetric and
  transitive; what StoreAlternate, DropVia and failover return. Transitivity is a fact
  about the fixed-point metric, where the tolerance of Better is less than the distance
  of any two costs that differ. With float64 qualities that are closer together than 0.000025
  (link counters above about 200) the band of "equal" routes is not transitive, and the
  route in use may be worse than an alternate by that much.
* `OgmMeshProofs`, every safety property of `OgmMesh`:
  * types, `HopBudget`, `RoutesTruthful`, `NextHopKnowsDestination`,
    `AlternatesWellFormed`, `DirectProximityHonest` and the action property
    `RoutesOnlyImprove`. A route is only as truthful as the datagram it was learned
    from, so `IInv` speaks about `net`: every datagram runs over a link, its hop count
    and ttl add up, its hop count is no less than the origin's distance, and its last
    hop is its sender, who knows the origin. Relaying adds one to the hop count and at
    most one to the distance (`DistAssumption`). Failover moves alternates into the
    table, so both have to be sound; and a node once known stays known.
  * `TableHoldsBest` until a sweep (a failover promotes an alternate without comparing
    it with the route that it replaces). A route is only replaced by a better one, and
    what was not better than the old route is not better than the new one, by
    transitivity (`BestInv`).
  * `EchoesAtMostTwice` while no hub restarts, which starts the counters again, and no
    datagram is repeated, which is counted twice. `EchoInv`: the echoes that a neighbour
    has under way and those counted already are together at most twice the number that
    it has relayed last.
  * `FloodReachesAll` while no hello is sent (`ogm_hello` shows why) and no hub
    restarts. `FloodInv` has three parts. Nobody is ahead of an origin's counter nor has
    relayed what it has not taken. The hops of a datagram are at most the number of hubs
    that have taken its OGM, as each was made by a hub that took it as new. And whoever
    has an origin's latest OGM has peers that have it too or to which it is under way:
    a hub that takes it and has a peer without it still has a hop to spend, because that
    peer, the hub itself and the origin are not among the hubs that have taken it. At
    rest, the hubs that have the OGM are closed under the links, and a hub nearest to
    the origin without it would have a neighbour that is nearer. That a least distance
    exists is `LeastNumber`, proved by the pigeonhole principle, as induction is out of
    the provers' reach.
* `BanGovernanceProofs`: types, `OwnVerdictKept` and the action property `NeverOlder`.
  No copy of a hub's verdict, in another table, on a link or being applied, is newer
  than the hub's own, and what a merge has read is still what is there unless it
  concerns the row that the monitor may have written since, which is then no older.
* `DtnEngineProofs`: types and `NothingLost`. A pass acts on what it read before;
  `PassesHonest` says why that is enough. Bundles are listed before the nodes are read,
  so a listed bundle that is still there was waiting when its destination was found
  online, and a new one has an id that no pass has listed; the bundle about to be
  deleted, if it is still there, had a route after that. A snapshot outlives no pass.
* `DaemonApiProofs`: types, `BansRespected`, `NoChannelLeaks`, `OncePerSession` and the
  refinement `Spec => ImplementsMailbox`. The invariant has three independent parts. A
  lookup under way either knows of a moment without a ban or the ban is in force now.
  An entry of topics is a poll of that session on that topic, so a publication copies
  one channel per session, and a post that is not published is nowhere. The inbox is
  increasing, everything answered is older than the inbox, everything a client has is
  older than its answer, and no two answers are the same message; this is what makes an
  answer that arrives a step of `Mailbox`.
* `EventStreamProofs`: types, `InOrder`, `NoGap` and `DefaultIsReplaced`. `StreamInv`
  follows an event through the places where it can be, `queue`, `wire`, `feed` and
  `pane`: each is increasing in the order of publication, and everything further down
  the path is older than everything further up. A page with an
  overview has from it or from its channel every counted change that the monitor has
  passed on, because the channel is registered before the counters are read. For the
  sessions: the row demands a change exactly while it holds the default password, and a
  login that has read otherwise, or a change about to lift restrictions, came after a
  password was chosen, which is never undone.
* `HubLifecycleProofs`: types, `DatabaseOutlivesEngines` and `FailedStartStops`.
  `ServicesInv` says, phase by phase, which services may be running and which are still
  in `todo`: what is not in `todo` while closing has been stopped, in every order that
  the ranks allow. Under the assumption `~Together` also `Openable` and
  `LatestWhileOpen`: a process that is migrating has seen the version that the file has,
  and nobody else is; each migration leads from one version's schema to the next.
  `schema_race` shows that the assumption is needed.
* `RegistrySyncProofs`: types, and `FreshIsOnline` under `InStep`, that clock readings
  are used within one unit of time or no positions are reported (see Bounds for the
  counterexample). `FreshInv`: a row, and what a merge has read of it, is no older than
  the hub's own last contact; a row that says stale, in a table or in a message, is at
  least StaleAfter old; and a position that is still to be stored is at most one unit
  of time younger than the last contact. So a stale copy never wins over a row that the
  hub itself has kept fresh.

Only model-checked is liveness: `QueueDrains`, `DepthSettles`, `BansConverge`,
`SilentGoStale`, `RowsConverge`, `RequestsEnd`, `ClientsReaped`, `Reconnects` and
`ShutdownReturns`, as the prover does not handle fairness. Every invariant and every
action property of the passing runs is stated by a theorem.

## Not modelled

* `core/identity`, `core/noise`: key handling and cryptography.
* `core/trust`, `core/lansegments`, `core/metrics`: counts, averages of coordinates in
  floating point and an append-only history that only the dashboard shows; nothing in
  the hub decides by them.
* `core/location`, `core/transport`, `core/simnet`: validation of coordinates,
  interfaces and a test transport.
* `core/wire`: generated protobuf code. What matters of it, that a Hello decodes as an
  Ogm, is in `OgmMesh`.
* Handlers and queries of the monitor that only read, manual positions and endorsements,
  rendering and HTTP plumbing; malformed requests, which change nothing.
* The Android app and the sample apps, which are the environment of the models.
* Sizes: a HubSyncMessage that outgrows a datagram is listed as a hazard.
* One hub's goroutines within a handler of the OGM engine (maybeUpsertRoute against
  failoverRoutes), also listed as a hazard.

## What comes next

The OGM engine of one hub statement by statement (maybeUpsertRoute against
failoverRoutes), with the order of its status events; and the safety half of what the
liveness properties rest on, such as what a merge can never undo in `RegistrySync`.
