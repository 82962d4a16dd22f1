----------------------------- MODULE DtnEngine -----------------------------
(***************************************************************************)
(* hub/internal/dtnengine over the dtq_queue table of core/dtn: one hub's  *)
(* store-and-forward queue.  processOnce runs on the engine's own loop and *)
(* on whichever goroutine reports a changed route; Enqueue runs on request *)
(* goroutines.  None of them excludes another, so every statement on the   *)
(* database is a step of its own (the database has a single connection).   *)
(* The clock is abstracted to the set of bundles whose time has run out.   *)
(***************************************************************************)
EXTENDS Integers, FiniteSets

CONSTANTS
    Bundles,     \* bundles ever enqueued
    Nodes,       \* destinations
    Self,        \* Config.SelfID
    Dst,         \* Dst[b]: the destination of bundle b
    Loop,        \* the goroutine of Engine.loop
    Callers,     \* goroutines of the OGM engine, which call OnRouteChanged
    Senders,     \* request goroutines, which call Enqueue
    Main,        \* the one of them that runs first and calls Start
    Heard,       \* nodes whose heartbeats, OGMs or gossip records come in
    Routable,    \* nodes the OGM engine finds routes to
    Mortal,      \* bound: bundles whose TTL may run out in the time modelled
    MaxCrashes   \* bound: restarts of the process

Threads == {Loop} \cup Callers \cup Senders

ASSUME DtnAssumption ==
    /\ Dst \in [Bundles -> Nodes]
    /\ IsFiniteSet(Bundles)
    /\ MaxCrashes \in Nat
    /\ Loop \notin Callers \cup Senders
    /\ Main \in Senders
    /\ Callers \cap Senders = {}
    /\ Heard \subseteq Nodes
    /\ Mortal \subseteq Bundles

\* handleOgm ignores OGMs whose origin is the hub: it has no route to itself.
ASSUME RoutableAssumption == Routable \subseteq Nodes \ {Self}

VARIABLES
    queue,      \* bundle_ids of the rows of dtq_queue, persistent
    expired,    \* bundles whose expires_at has passed
    online,     \* node_registry: nodes with status online, persistent
    routed,     \* routing_table: destinations with a route, persistent
    lastDepth,  \* Engine.lastDepth
    inbox,      \* bundles handed to LocalDeliverer
    pc,         \* where each goroutine is
    batch,      \* bundles a pass still has to look at
    snapshot,   \* the online map of a pass
    current,    \* the bundle a pass is handling, as a set
    depth,      \* what a goroutine read from Depth
    issued,     \* bundles enqueued so far
    crashes,
    sighted,    \* history: bundles whose destination was online while they waited
    deliverable \* history: those of them it had a route to after that, while they waited

database == <<queue, online, routed>>
\* Variables of a call, cleared when it ends.
locals == <<batch, snapshot, current, depth>>
vars == <<database, expired, lastDepth, inbox, pc, locals, issued, crashes,
          sighted, deliverable>>

Live == queue \ expired

TypeOK ==
    /\ queue \subseteq issued
    /\ issued \subseteq Bundles /\ expired \subseteq issued
    /\ online \subseteq Heard /\ routed \subseteq Routable
    /\ lastDepth \in Int
    /\ inbox \subseteq Bundles
    /\ pc \in [Threads -> {"idle", "pass", "nodes", "next", "delete", "depth",
                           "publish"}]
    /\ batch \in [Threads -> SUBSET Bundles]
    /\ snapshot \in [Threads -> SUBSET Nodes]
    /\ current \in [Threads -> SUBSET Bundles]
    /\ depth \in [Threads -> Nat]
    /\ crashes \in Nat
    /\ sighted \subseteq issued /\ deliverable \subseteq sighted

Init ==
    /\ queue = {} /\ expired = {}
    /\ online = {} /\ routed = {}
    /\ lastDepth = -1
    /\ inbox = {}
    /\ pc = [t \in Threads |-> IF t = Main THEN "depth" ELSE "idle"]
    /\ batch = [t \in Threads |-> {}]
    /\ snapshot = [t \in Threads |-> {}]
    /\ current = [t \in Threads |-> {}]
    /\ depth = [t \in Threads |-> 0]
    /\ issued = {}
    /\ crashes = 0
    /\ sighted = {} /\ deliverable = {}

Goto(t, label) == pc' = [pc EXCEPT ![t] = label]

\* What the world offered the waiting bundles before this step.  Nothing reads it.
Observe ==
    /\ sighted' = sighted \cup {b \in queue : Dst[b] \in online}
    /\ deliverable' = deliverable \cup {b \in queue \cap sighted : Dst[b] \in routed}

---------------------------------------------------------------------------
\* Store.Enqueue: the row, under a bundle_id of its own.
Insert(b) ==
    /\ b \notin issued
    /\ queue' = queue \cup {b}
    /\ issued' = issued \cup {b}

\* Engine.Enqueue: the row is inserted, then the depth is published.
Enqueue(t, b) == Insert(b) /\ Goto(t, "depth")

\* handleSend: the request of an app that has a session.
HandleSend(t, b) ==
    /\ pc[t] = "idle"
    /\ Enqueue(t, b)
    /\ Observe
    /\ UNCHANGED <<expired, online, routed, lastDepth, inbox, locals, crashes>>

\* The OGM engine writes a route and reports it.
RouteChanged(t, n) ==
    /\ pc[t] = "idle"
    /\ routed' = routed \cup {n}
    /\ Goto(t, "pass")
    /\ Observe
    /\ UNCHANGED <<queue, online, expired, lastDepth, inbox, locals, issued, crashes>>

---------------------------------------------------------------------------
\* processOnce

\* Fault: the loop's ticker never fires.
ListWithoutTick(t) ==
    /\ pc[t] = "pass"
    /\ queue' = queue \ expired
    /\ batch' = [batch EXCEPT ![t] = Live]
    /\ Goto(t, "nodes")
    /\ Observe
    /\ UNCHANGED <<online, routed, expired, lastDepth, inbox, snapshot, current, depth, issued, crashes>>

\* ExpireBefore and List, for a changed route or on the loop's tick.  One step:
\* no other statement looks at the rows that ExpireBefore deletes.  The order of
\* the rows is left open.
List(t) ==
    /\ pc[t] = "pass" \/ (t = Loop /\ pc[t] = "idle")
    /\ queue' = queue \ expired
    /\ batch' = [batch EXCEPT ![t] = Live]
    /\ Goto(t, "nodes")
    /\ Observe
    /\ UNCHANGED <<online, routed, expired, lastDepth, inbox, snapshot, current, depth, issued, crashes>>

OnlineDestinations(t) ==
    /\ pc[t] = "nodes"
    /\ snapshot' = [snapshot EXCEPT ![t] = online]
    /\ Goto(t, "next")
    /\ Observe
    /\ UNCHANGED <<database, expired, lastDepth, inbox, batch, current, depth, issued, crashes>>

\* Online when the pass began, and with a route now.
MayDequeue(t, b) == Dst[b] \in snapshot[t] /\ Dst[b] \in routed

\* Fault: the pass looks at the queue as it is now, against the nodes it read then.
ExamineQueued(t, b) ==
    /\ pc[t] = "next"
    /\ b \in queue
    /\ batch' = [batch EXCEPT ![t] = @ \ {b}]
    /\ \/ /\ MayDequeue(t, b)
          /\ current' = [current EXCEPT ![t] = {b}]
          /\ inbox' = IF Dst[b] = Self THEN inbox \cup {b} ELSE inbox
          /\ Goto(t, "delete")
       \/ /\ ~MayDequeue(t, b)
          /\ UNCHANGED <<current, inbox, pc>>
    /\ Observe
    /\ UNCHANGED <<queue, online, routed, expired, lastDepth, snapshot, depth, issued, crashes>>

\* The next bundle: it can go, to the LocalDeliverer if it is for this hub, or
\* its retry_count, which nothing in the hub reads, goes up.
Examine(t, b) ==
    /\ pc[t] = "next"
    /\ b \in batch[t]
    /\ batch' = [batch EXCEPT ![t] = @ \ {b}]
    /\ \/ /\ MayDequeue(t, b)
          /\ current' = [current EXCEPT ![t] = {b}]
          /\ inbox' = IF Dst[b] = Self THEN inbox \cup {b} ELSE inbox
          /\ Goto(t, "delete")
       \/ /\ ~MayDequeue(t, b)
          /\ UNCHANGED <<current, inbox, pc>>
    /\ Observe
    /\ UNCHANGED <<queue, online, routed, expired, lastDepth, snapshot, depth, issued, crashes>>

Delete(t) ==
    /\ pc[t] = "delete"
    /\ queue' = queue \ current[t]
    /\ current' = [current EXCEPT ![t] = {}]
    /\ Goto(t, "next")
    /\ Observe
    /\ UNCHANGED <<online, routed, expired, lastDepth, inbox, batch, snapshot, depth, issued, crashes>>

---------------------------------------------------------------------------
\* publishDepth

\* Fault: the bundle in hand is taken off, and there may be none.
ReadDepthOffByOne(t) ==
    /\ pc[t] = "depth" \/ (pc[t] = "next" /\ batch[t] = {})
    /\ depth' = [depth EXCEPT ![t] = Cardinality(Live) - 1]
    /\ snapshot' = [snapshot EXCEPT ![t] = {}]
    /\ Goto(t, "publish")
    /\ Observe
    /\ UNCHANGED <<database, expired, lastDepth, inbox, batch, current, issued, crashes>>

\* After Enqueue, after Start and at the end of a pass.
ReadDepth(t) ==
    /\ pc[t] = "depth" \/ (pc[t] = "next" /\ batch[t] = {})
    /\ depth' = [depth EXCEPT ![t] = Cardinality(Live)]
    /\ snapshot' = [snapshot EXCEPT ![t] = {}]
    /\ Goto(t, "publish")
    /\ Observe
    /\ UNCHANGED <<database, expired, lastDepth, inbox, batch, current, issued, crashes>>

\* Fault: the first depth is remembered for ever.
PublishDepthOnce(t) ==
    /\ pc[t] = "publish"
    /\ lastDepth' = IF lastDepth = -1 THEN depth[t] ELSE lastDepth
    /\ depth' = [depth EXCEPT ![t] = 0]
    /\ Goto(t, "idle")
    /\ Observe
    /\ UNCHANGED <<database, expired, inbox, batch, snapshot, current, issued, crashes>>

\* Under Engine.mu; the notification that may follow touches no state here.
PublishDepth(t) ==
    /\ pc[t] = "publish"
    /\ lastDepth' = depth[t]
    /\ depth' = [depth EXCEPT ![t] = 0]
    /\ Goto(t, "idle")
    /\ Observe
    /\ UNCHANGED <<database, expired, inbox, batch, snapshot, current, issued, crashes>>

---------------------------------------------------------------------------
\* The world around the engine

Expire(b) ==
    /\ b \in (Mortal \cap issued) \ expired
    /\ expired' = expired \cup {b}
    /\ Observe
    /\ UNCHANGED <<database, lastDepth, inbox, pc, locals, issued, crashes>>

\* node_registry: heartbeats, OGMs and gossip bring nodes up, sweeps down.
NodeUp(n) ==
    /\ n \notin online
    /\ online' = online \cup {n}
    /\ Observe
    /\ UNCHANGED <<queue, routed, expired, lastDepth, inbox, pc, locals, issued, crashes>>

NodeDown(n) ==
    /\ n \in online
    /\ online' = online \ {n}
    /\ Observe
    /\ UNCHANGED <<queue, routed, expired, lastDepth, inbox, pc, locals, issued, crashes>>

\* DeleteRoutesViaNextHop.
RouteLost(n) ==
    /\ n \in routed
    /\ routed' = routed \ {n}
    /\ Observe
    /\ UNCHANGED <<queue, online, expired, lastDepth, inbox, pc, locals, issued, crashes>>

\* The process dies; the next one finds the database and starts from New.
Crash ==
    /\ crashes < MaxCrashes
    /\ crashes' = crashes + 1
    /\ lastDepth' = -1
    /\ inbox' = {}
    /\ pc' = [t \in Threads |-> IF t = Main THEN "depth" ELSE "idle"]
    /\ batch' = [t \in Threads |-> {}]
    /\ snapshot' = [t \in Threads |-> {}]
    /\ current' = [t \in Threads |-> {}]
    /\ depth' = [t \in Threads |-> 0]
    /\ Observe
    /\ UNCHANGED <<database, expired, issued>>

\* What a goroutine does once it has begun; the loop begins by itself.
Step(t) ==
    \/ List(t) \/ OnlineDestinations(t)
    \/ \E b \in Bundles : Examine(t, b)
    \/ Delete(t) \/ ReadDepth(t) \/ PublishDepth(t)

Next ==
    \/ Crash
    \/ \E t \in Threads : Step(t)
    \/ \E t \in Senders, b \in Bundles : HandleSend(t, b)
    \/ \E t \in Callers, n \in Routable : RouteChanged(t, n)
    \/ \E b \in Bundles : Expire(b)
    \/ \E n \in Heard : NodeUp(n) \/ NodeDown(n)
    \/ \E n \in Routable : RouteLost(n)

\* The ticker keeps firing, and a goroutine that is running is scheduled.
Fairness == \A t \in Threads : WF_vars(Step(t))

Spec == Init /\ [][Next]_vars /\ Fairness

---------------------------------------------------------------------------
\* Properties

\* Nothing is dropped on the way: a bundle that has left the queue ran out of
\* time, or its own destination was online while it waited and then, while it still
\* waited, had a route.  A pass that overlaps enqueues, other passes, changes of the
\* registry or a crash never dequeues on what held before the bundle was there.
NothingLost == issued \ queue \subseteq expired \cup deliverable

\* The queue drains: a bundle whose destination stays online and keeps a route leaves
\* it, and so does one that has expired.  The loop gets to them however the other
\* goroutines interleave.
QueueDrains ==
    \A b \in Bundles :
        /\ <>[](Dst[b] \in online /\ Dst[b] \in routed /\ b \in issued) => <>[](b \notin queue)
        /\ b \in expired ~> b \notin queue

\* Once the queue no longer changes, lastDepth settles on its depth, in whatever
\* order concurrent publishDepth calls had read and stored it before.
DepthSettles == <>[](lastDepth = Cardinality(Live))

\* LocalDeliverer receives bundles addressed to SelfID while the registry has the
\* hub itself online (its peers gossip it back), unless they expire first or the
\* process dies, which empties the inbox.
LocalReceived ==
    \A b \in Bundles : Dst[b] = Self =>
        (<>[](Self \in online) =>
            (b \in queue ~> b \in inbox \/ b \in expired \/ crashes > 0))
=============================================================================
