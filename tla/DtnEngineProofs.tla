-------------------------- MODULE DtnEngineProofs --------------------------
(***************************************************************************)
(* Theorems about DtnEngine for every finite set of bundles, all sets of   *)
(* goroutines and nodes, and any number of crashes.                        *)
(***************************************************************************)
EXTENDS DtnEngine, FiniteSetTheorems, TLAPS

\* What a pass may rely on, although queue and registry have changed since it looked:
\* a bundle it listed was waiting when it read the nodes, so a destination it found
\* online was online for that bundle; the bundle in hand had a route after that.
PassesHonest ==
    \A t \in Threads :
        /\ batch[t] \cup current[t] \subseteq issued
        /\ pc[t] \notin {"next", "delete"} => snapshot[t] = {}
        /\ \A b \in batch[t] : Dst[b] \in snapshot[t] /\ b \in queue => b \in sighted
        /\ \A b \in current[t] : b \in queue => b \in deliverable

\* The inductive invariant.
IInv == TypeOK /\ PassesHonest /\ NothingLost

---------------------------------------------------------------------------
\* Depth counts finitely many rows.
LEMMA DepthType == TypeOK => Cardinality(Live) \in Nat
<1> SUFFICES ASSUME TypeOK PROVE Cardinality(Live) \in Nat
  OBVIOUS
<1>1. Live \subseteq Bundles
  BY DEF TypeOK, Live
<1>2. IsFiniteSet(Live)
  BY <1>1, DtnAssumption, FS_Subset
<1> QED
  BY <1>2, FS_CardinalityType

LEMMA InitInvariant == Init => IInv
<1> SUFFICES ASSUME Init PROVE IInv
  OBVIOUS
<1>1. TypeOK
  BY DEF Init, TypeOK
<1>2. PassesHonest /\ NothingLost
  BY DEF Init, PassesHonest, NothingLost
<1> QED
  BY <1>1, <1>2 DEF IInv

\* Types are kept by every step.
LEMMA TypeStep == TypeOK /\ [Next]_vars => TypeOK'
<1> SUFFICES ASSUME TypeOK, [Next]_vars PROVE TypeOK'
  OBVIOUS
<1> USE DtnAssumption DEF TypeOK, Goto, Observe, database, locals
<1>1. CASE UNCHANGED vars
  BY <1>1 DEF vars
<1>2. CASE Crash
  BY <1>2 DEF Crash
<1>3. ASSUME NEW t \in Threads, Step(t) PROVE TypeOK'
  <2>1. CASE List(t)
    BY <2>1 DEF List, Live
  <2>2. CASE OnlineDestinations(t)
    BY <2>2 DEF OnlineDestinations
  <2>3. CASE \E b \in Bundles : Examine(t, b)
    BY <2>3 DEF Examine
  <2>4. CASE Delete(t)
    BY <2>4 DEF Delete
  <2>5. CASE ReadDepth(t)
    BY <2>5, DepthType DEF ReadDepth
  <2>6. CASE PublishDepth(t)
    BY <2>6 DEF PublishDepth
  <2> QED
    BY <1>3, <2>1, <2>2, <2>3, <2>4, <2>5, <2>6 DEF Step
<1>4. ASSUME NEW t \in Senders, NEW b \in Bundles, HandleSend(t, b) PROVE TypeOK'
  BY <1>4 DEF HandleSend, Enqueue, Insert, Threads
<1>5. ASSUME NEW t \in Callers, NEW n \in Routable, RouteChanged(t, n) PROVE TypeOK'
  BY <1>5 DEF RouteChanged, Threads
<1>6. ASSUME NEW b \in Bundles, Expire(b) PROVE TypeOK'
  BY <1>6 DEF Expire
<1>7. ASSUME NEW n \in Heard, NodeUp(n) \/ NodeDown(n) PROVE TypeOK'
  BY <1>7 DEF NodeUp, NodeDown
<1>8. ASSUME NEW n \in Routable, RouteLost(n) PROVE TypeOK'
  BY <1>8 DEF RouteLost
<1> QED
  BY <1>1, <1>2, <1>3, <1>4, <1>5, <1>6, <1>7, <1>8 DEF Next

\* A bundle is dequeued only by an honest pass, or because it has expired.
LEMMA PassStep == IInv /\ [Next]_vars => PassesHonest' /\ NothingLost'
<1> SUFFICES ASSUME IInv, [Next]_vars PROVE PassesHonest' /\ NothingLost'
  OBVIOUS
<1> USE DtnAssumption DEF IInv, TypeOK, PassesHonest, NothingLost, Goto, Observe, database, locals
<1>1. CASE UNCHANGED vars
  BY <1>1 DEF vars
<1>2. CASE Crash
  BY <1>2 DEF Crash
<1>3. ASSUME NEW t \in Threads, Step(t) PROVE PassesHonest' /\ NothingLost'
  <2>1. CASE List(t)
    BY <2>1 DEF List, Live
  <2>2. CASE OnlineDestinations(t)
    BY <2>2 DEF OnlineDestinations
  <2>3. CASE \E b \in Bundles : Examine(t, b)
    BY <2>3 DEF Examine, MayDequeue
  <2>4. CASE Delete(t)
    BY <2>4 DEF Delete
  <2>5. CASE ReadDepth(t)
    BY <2>5 DEF ReadDepth
  <2>6. CASE PublishDepth(t)
    BY <2>6 DEF PublishDepth
  <2> QED
    BY <1>3, <2>1, <2>2, <2>3, <2>4, <2>5, <2>6 DEF Step
<1>4. ASSUME NEW t \in Senders, NEW b \in Bundles, HandleSend(t, b)
      PROVE  PassesHonest' /\ NothingLost'
  BY <1>4 DEF HandleSend, Enqueue, Insert
<1>5. ASSUME NEW t \in Callers, NEW n \in Routable, RouteChanged(t, n)
      PROVE  PassesHonest' /\ NothingLost'
  BY <1>5 DEF RouteChanged
<1>6. ASSUME NEW b \in Bundles, Expire(b) PROVE PassesHonest' /\ NothingLost'
  BY <1>6 DEF Expire
<1>7. ASSUME NEW n \in Heard, NodeUp(n) \/ NodeDown(n) PROVE PassesHonest' /\ NothingLost'
  BY <1>7 DEF NodeUp, NodeDown
<1>8. ASSUME NEW n \in Routable, RouteLost(n) PROVE PassesHonest' /\ NothingLost'
  BY <1>8 DEF RouteLost
<1> QED
  BY <1>1, <1>2, <1>3, <1>4, <1>5, <1>6, <1>7, <1>8 DEF Next

\* Every behaviour of the engine keeps the inductive invariant.
THEOREM Invariance == Spec => []IInv
<1>1. IInv /\ [Next]_vars => IInv'
  BY TypeStep, PassStep DEF IInv
<1> QED
  BY InitInvariant, <1>1, PTL DEF Spec

\* The queue, the goroutines' variables and lastDepth keep their types, with any
\* number of goroutines in processOnce and publishDepth and crashes anywhere.
THEOREM TypeCorrect == Spec => []TypeOK
<1>1. IInv => TypeOK
  BY DEF IInv
<1> QED
  BY <1>1, Invariance, PTL

\* deliverPending loses no bundle: what has left dtq_queue had expired, or had its
\* destination online and then routed while it waited, however passes race enqueues,
\* each other, the registry and crashes.
THEOREM NothingLostHolds == Spec => []NothingLost
<1>1. IInv => NothingLost
  BY DEF IInv
<1> QED
  BY <1>1, Invariance, PTL
=============================================================================
