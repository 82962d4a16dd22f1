------------------------- MODULE HubLifecycleProofs -------------------------
(***************************************************************************)
(* Theorems about a hub and its database file, for any optional services,  *)
(* any schema version that the file begins with and any number of starts   *)
(* and crashes.  Those on the schema ask that the hub and the monitor do   *)
(* not open the file at the same time; those on the services do not.       *)
(***************************************************************************)
EXTENDS HubLifecycle, FiniteSetTheorems, TLAPS

\* A process that is migrating has seen the version that the file has, one that is
\* done has found or left the latest, and nobody else opens the file meanwhile.
OpenedInTurn ==
    /\ \A p \in Procs :
        /\ opening[p] = "migrating" => upTo[p] = version
        /\ opening[p] = "open" => version = Latest
        /\ opening[p] # "failed"
    /\ \A p, q \in Procs :
        opening[p] \in {"started", "migrating"} /\ opening[q] \in {"started", "migrating"} => p = q

\* The inductive invariant.
IInv == StorageTypeOK /\ Openable /\ OpenedInTurn

---------------------------------------------------------------------------
\* A migration finds nothing that it creates and drops nothing that is there when it
\* runs on the schema of the version before it, and leads to the next one.
LEMMA MigrationLeadsOn ==
  ASSUME NEW v \in 0 .. Latest - 1
  PROVE  /\ Creates(v + 1) \cap SchemaOf(v) = {}
         /\ (SchemaOf(v) \ Drops(v + 1)) \cup Creates(v + 1) \cup Rebuilds(v + 1) = SchemaOf(v + 1)
<1> DEFINE parts(m) == Creates(m) \cup Rebuilds(m)
<1>1. SchemaOf(v + 1) = SchemaOf(v) \cup parts(v + 1)
  <2>1. 1 .. v + 1 = (1 .. v) \cup {v + 1}
    BY DEF Latest
  <2> QED
    BY <2>1 DEF SchemaOf
<1>2. parts(1) = {"base"} /\ parts(2) = {"pubkey"} /\ parts(3) = {"liveness"}
      /\ parts(4) = {"segments"} /\ parts(5) = {"hubpins", "segpins"} /\ parts(6) = {"handles"}
  BY DEF Creates, Rebuilds, Adds
<1>3. SchemaOf(v) \subseteq {"base", "pubkey", "liveness", "segments", "hubpins", "segpins"}
      /\ \A x \in SchemaOf(v) : \E m \in 1 .. v : x \in parts(m)
  <2>1. \A x \in SchemaOf(v) : \E m \in 1 .. v : x \in parts(m)
    BY DEF SchemaOf
  <2>2. \A m \in 1 .. v : m \in {1, 2, 3, 4, 5}
    BY DEF Latest
  <2> QED
    BY <1>2, <2>1, <2>2
<1> HIDE DEF parts
<1>4. v + 1 \in {1, 2, 3, 4, 5, 6} /\ \A m \in 1 .. v : m \in {1, 2, 3, 4, 5} /\ m < v + 1
  BY DEF Latest
<1>5. \A x \in parts(v + 1) : x \notin SchemaOf(v)
  BY <1>2, <1>3, <1>4
<1>6. Creates(v + 1) \subseteq parts(v + 1)
  BY DEF parts
<1>7. Drops(v + 1) \cap SchemaOf(v) = {}
  <2>1. CASE v + 1 = 2
    BY <1>3, <2>1 DEF Drops
  <2>2. CASE v + 1 = 3
    <3>1. "hubpins" \notin SchemaOf(v)
      BY <1>2, <1>3, <2>2
    <3> QED
      BY <2>2, <3>1 DEF Drops
  <2>3. CASE v + 1 \notin {2, 3}
    BY <2>3 DEF Drops
  <2> QED
    BY <2>1, <2>2, <2>3
<1> QED
  BY <1>1, <1>5, <1>6, <1>7 DEF parts

\* No version has more in its schema than the latest.
LEMMA SchemaGrows == ASSUME NEW v \in Versions PROVE SchemaOf(v) \subseteq SchemaOf(Latest)
<1>1. 1 .. v \subseteq 1 .. Latest
  BY DEF Versions, Latest
<1> QED
  BY <1>1 DEF SchemaOf

LEMMA InitInvariant == Init => IInv
<1> SUFFICES ASSUME Init PROVE IInv
  OBVIOUS
<1>1. version \in Versions
  BY StorageAssumption DEF Init, StorageInit
<1>2. StorageTypeOK
  BY <1>1, SchemaGrows DEF Init, StorageInit, StorageTypeOK, Versions, Latest
<1>3. Openable /\ OpenedInTurn
  BY DEF Init, StorageInit, Openable, OpenedInTurn
<1> QED
  BY <1>2, <1>3 DEF IInv

\* Opening the file, statement by statement.
LEMMA OpenStepKeeps ==
  ASSUME IInv, NEW p \in Procs, OpenStep(p)
  PROVE  IInv'
<1> USE DEF IInv, StorageTypeOK, Openable, OpenedInTurn
<1>1. CASE ReadVersion(p)
  BY <1>1 DEF ReadVersion
<1>2. CASE ApplyMigration(p)
  <2>1. version \in 0 .. Latest - 1 /\ upTo[p] = version /\ opening[p] = "migrating"
    BY <1>2 DEF ApplyMigration, Versions, Latest
  <2>2. /\ version' = version + 1
        /\ schema' = SchemaOf(version + 1)
        /\ upTo' = [upTo EXCEPT ![p] = version + 1]
        /\ UNCHANGED opening
    BY <1>2, <2>1, MigrationLeadsOn DEF ApplyMigration
  <2>3. version' \in Versions
    BY <2>1, <2>2 DEF Versions, Latest
  <2>4. StorageTypeOK' /\ Openable'
    BY <2>2, <2>3, SchemaGrows
  <2>5. \A q \in Procs : opening[q] # "open"
    BY <2>1 DEF Latest
  <2>6. OpenedInTurn'
    BY <2>1, <2>2, <2>5
  <2> QED
    BY <2>4, <2>6
<1>3. CASE EndOpen(p)
  BY <1>3 DEF EndOpen
<1> QED
  BY <1>1, <1>2, <1>3 DEF OpenStep

\* BeginOpen waits for its turn.
LEMMA BeginOpenKeeps ==
  ASSUME ~Together, IInv, NEW p \in Procs, BeginOpen(p)
  PROVE  IInv'
  BY DEF BeginOpen, IInv, StorageTypeOK, Openable, OpenedInTurn

\* A process lets go of the file at any moment.
LEMMA LetGoKeeps ==
  ASSUME IInv, NEW p \in Procs, LetGo(p), UNCHANGED <<version, schema>>
  PROVE  IInv'
  BY DEF LetGo, IInv, StorageTypeOK, Openable, OpenedInTurn, Versions, Latest

\* If the processes take turns, every step keeps the invariant.
LEMMA StepInvariant == ~Together /\ IInv /\ [Next]_vars => IInv'
<1> SUFFICES ASSUME ~Together, IInv, [Next]_vars PROVE IInv'
  OBVIOUS
<1>1. hub \in Procs /\ monitor \in Procs
  BY LifecycleAssumption
<1>2. CASE UNCHANGED storageVars
  BY <1>2 DEF storageVars, IInv, StorageTypeOK, Openable, OpenedInTurn
<1>3. CASE StartHub
  BY <1>1, <1>3, BeginOpenKeeps DEF StartHub
<1>4. CASE StartMonitor
  BY <1>1, <1>4, BeginOpenKeeps DEF StartMonitor
<1>5. CASE CloseDB
  BY <1>1, <1>5, LetGoKeeps DEF CloseDB
<1>6. CASE Exit \/ Crash
  BY <1>1, <1>6, LetGoKeeps DEF Exit, Crash, EndHub
<1>7. CASE StopMonitor
  BY <1>1, <1>7, LetGoKeeps DEF StopMonitor
<1>8. ASSUME NEW p \in Procs, Open(p) PROVE IInv'
  BY <1>8, OpenStepKeeps DEF Open
<1>9. CASE MainStep
  BY <1>2, <1>5, <1>6, <1>9 DEF MainStep, Opened, StartService, RegisterSelfHub, BeginClose, EndClose, Unwound
<1>10. CASE \/ Close \/ Poll \/ MonitorRuns \/ HandleInternetFallback
            \/ \E s \in Services \cup {Self} : BeginWork(s) \/ EndWork(s)
            \/ UNCHANGED vars
  BY <1>2, <1>10 DEF Close, Poll, MonitorRuns, HandleInternetFallback, BeginWork, EndWork, vars
<1> QED
  BY <1>3, <1>4, <1>6, <1>7, <1>8, <1>9, <1>10 DEF Next

\* A hub and a monitor that take turns to open their file keep the invariant.
THEOREM Invariance == ASSUME ~Together PROVE Spec => []IInv
<1>1. IInv /\ [Next]_vars => IInv'
  BY StepInvariant
<1> QED
  BY InitInvariant, <1>1, PTL DEF Spec

\* migrate leaves a file that the next Open can migrate, whatever version it had and
\* wherever a process died, if processes take turns to open it.
THEOREM OpenableHolds == ASSUME ~Together PROVE Spec => []Openable
<1>1. IInv => Openable
  BY DEF IInv
<1> QED
  BY <1>1, Invariance, PTL

\* Under the same condition nobody takes the latest schema away from a process that
\* has opened the file.
THEOREM LatestWhileOpenHolds == ASSUME ~Together PROVE Spec => []LatestWhileOpen
<1>1. IInv => LatestWhileOpen
  BY DEF IInv, Openable, OpenedInTurn, LatestWhileOpen
<1> QED
  BY <1>1, Invariance, PTL

---------------------------------------------------------------------------
\* Services

Up == {s \in Services : state[s] # "off"}

\* What the main goroutine relies on in each phase: Start begins with nothing up and
\* has not come yet to anything after what is up, so that its error paths know what
\* there is to close; Close has all that is up before it.
PhaseHonest ==
    /\ phase \in {"down", "opening"} => Up = {}
    /\ phase = "starting" =>
        /\ todo \cup Up \subseteq Configured
        /\ \A s \in Up, t \in todo : StartOrder[s] < StartOrder[t]
    /\ phase = "running" => Up \subseteq Configured
    /\ phase = "unwinding" => Up \subseteq todo \cup {"Heartbeat", "Discovery"}
    /\ phase = "closing" => Up \subseteq todo
    /\ phase = "closed" => Up = {}

\* An engine that uses the database is one that Close can wait for.
BusyHonest == busy \cap Engines \subseteq Up

\* The inductive invariant.
ServicesInv == TypeOK /\ IsFiniteSet(busy) /\ PhaseHonest /\ BusyHonest

\* Opening the file keeps its types, also when both processes do so.
LEMMA OpenStepTypes ==
  ASSUME StorageTypeOK, NEW p \in Procs, OpenStep(p)
  PROVE  StorageTypeOK'
<1> USE DEF StorageTypeOK
<1>1. CASE ReadVersion(p)
  BY <1>1 DEF ReadVersion
<1>2. CASE ApplyMigration(p)
  <2>1. PICK m : m = upTo[p] + 1
    OBVIOUS
  <2>2. m \in 1 .. Latest /\ m \in Versions
    BY <1>2, <2>1 DEF ApplyMigration, Versions, Latest
  <2>3. Creates(m) \cup Rebuilds(m) \subseteq SchemaOf(Latest)
    BY <2>2 DEF SchemaOf
  <2> QED
    BY <1>2, <2>1, <2>2, <2>3 DEF ApplyMigration
<1>3. CASE EndOpen(p)
  BY <1>3 DEF EndOpen
<1> QED
  BY <1>1, <1>2, <1>3 DEF OpenStep

\* What the other steps do to the file keeps its types.
LEMMA StorageTypes ==
  ASSUME StorageTypeOK, NEW p \in Procs,
         \/ BeginOpen(p)
         \/ LetGo(p) /\ UNCHANGED <<version, schema>>
         \/ UNCHANGED storageVars
  PROVE  StorageTypeOK'
  BY DEF StorageTypeOK, BeginOpen, LetGo, storageVars, Versions, Latest

LEMMA InitServices == Init => ServicesInv
<1> SUFFICES ASSUME Init PROVE ServicesInv
  OBVIOUS
<1>1. StorageTypeOK
  BY InitInvariant DEF IInv
<1>2. IsFiniteSet(busy) /\ Cardinality(busy) = 0
  BY FS_EmptySet DEF Init
<1>3. MaxBusy \in Nat /\ MaxStarts \in Nat /\ MaxToggles \in Nat
  BY LifecycleAssumption
<1>4. /\ state \in [Services -> {"off", "on", "closing"}]
      /\ busy \subseteq Services \cup {Self} /\ todo \subseteq Services
      /\ self \in BOOLEAN /\ flag \in BOOLEAN /\ reported \in BOOLEAN \cup {Unset}
  BY DEF Init
<1>5. Cardinality(busy) <= MaxBusy /\ starts \in 0 .. MaxStarts /\ toggles \in 0 .. MaxToggles
  BY <1>2, <1>3 DEF Init
<1>6. TypeOK
  BY <1>1, <1>4, <1>5 DEF Init, TypeOK
<1> QED
  BY <1>2, <1>6 DEF Init, ServicesInv, PhaseHonest, BusyHonest, Up

\* A service begins or ends a piece of work.
LEMMA WorkKeeps ==
  ASSUME ServicesInv, NEW s \in Services \cup {Self}, BeginWork(s) \/ EndWork(s)
  PROVE  ServicesInv'
<1> USE DEF ServicesInv
<1>1. UNCHANGED <<storageVars, phase, todo, state, self, reported, desk, flag, starts, toggles>>
  BY DEF BeginWork, EndWork
<1>2. Up' = Up /\ PhaseHonest'
  BY <1>1 DEF Up, PhaseHonest
<1>3. /\ IsFiniteSet(busy') /\ Cardinality(busy') <= MaxBusy
      /\ busy' \subseteq Services \cup {Self}
  <2>0. Cardinality(busy) \in Nat /\ MaxBusy \in Nat /\ Cardinality(busy) <= MaxBusy
    BY FS_CardinalityType, LifecycleAssumption DEF TypeOK
  <2>1. CASE BeginWork(s)
    <3>1. busy' = busy \cup {s} /\ s \notin busy /\ Cardinality(busy) < MaxBusy
      BY <2>1 DEF BeginWork
    <3> QED
      BY <2>0, <3>1, FS_AddElement DEF TypeOK
  <2>2. CASE EndWork(s)
    <3>1. busy' = busy \ {s} /\ s \in busy
      BY <2>2 DEF EndWork
    <3> QED
      BY <2>0, <3>1, FS_RemoveElement DEF TypeOK
  <2> QED
    BY <2>1, <2>2
<1>4. BusyHonest'
  <2>1. CASE BeginWork(s)
    <3>1. s \in Engines => s \in Up
      BY <2>1 DEF BeginWork, Up, Engines, Services, Self
    <3> QED
      BY <1>2, <2>1, <3>1 DEF BeginWork, BusyHonest
  <2>2. CASE EndWork(s)
    BY <1>2, <2>2 DEF EndWork, BusyHonest
  <2> QED
    BY <2>1, <2>2
<1>5. StorageTypeOK'
  BY <1>1 DEF TypeOK, StorageTypeOK, storageVars
<1> QED
  BY <1>1, <1>2, <1>3, <1>4, <1>5 DEF TypeOK

\* The main goroutine starts and closes services.
LEMMA MainKeeps ==
  ASSUME ServicesInv, NEW s \in Services, StartService(s) \/ BeginClose(s) \/ EndClose(s)
  PROVE  ServicesInv'
<1> USE DEF ServicesInv
<1>1. UNCHANGED <<storageVars, busy, self, desk, flag, starts, toggles>> /\ s \in todo
  BY DEF StartService, BeginClose, EndClose, IsNext
<1>2. StorageTypeOK'
  BY <1>1 DEF TypeOK, StorageTypeOK, storageVars
<1>3. state \in [Services -> {"off", "on", "closing"}] /\ todo \subseteq Services
  BY DEF TypeOK
<1>4. CASE StartService(s) /\ phase' = "starting"
  <2>1. state' = [state EXCEPT ![s] = "on"] /\ todo' = todo \ {s} /\ phase = "starting"
        /\ UNCHANGED reported
    BY <1>4 DEF StartService
  <2>2. Up' = Up \cup {s}
    BY <1>3, <2>1 DEF Up
  <2>3. \A t \in todo \ {s} : StartOrder[s] < StartOrder[t]
    <3>1. \A t \in todo : StartOrder[s] <= StartOrder[t]
      BY <1>4, <2>1 DEF StartService, IsNext
    <3>2. ASSUME NEW t \in Services, t # s PROVE StartOrder[s] # StartOrder[t]
      BY <3>2 DEF StartOrder, Services, Servers, Engines
    <3>3. \A t \in Services : StartOrder[t] \in Int
      BY DEF StartOrder, Services, Servers, Engines
    <3> QED
      BY <1>3, <3>1, <3>2, <3>3
  <2>4. PhaseHonest'
    BY <1>1, <1>4, <2>1, <2>2, <2>3 DEF PhaseHonest
  <2>5. BusyHonest'
    BY <1>1, <2>2 DEF BusyHonest
  <2>6. TypeOK'
    BY <1>1, <1>2, <1>4, <2>1 DEF TypeOK
  <2> QED
    BY <1>1, <2>4, <2>5, <2>6
<1>5. CASE StartService(s) /\ phase' # "starting"
  <2>1. /\ phase = "starting" /\ phase' = "unwinding"
        /\ s \in Fallible /\ todo' = Unwind(s) /\ UNCHANGED <<state, reported>>
    BY <1>5 DEF StartService
  <2>2. Up' = Up
    BY <2>1 DEF Up
  <2>3. \A t \in Up : t \in Configured /\ StartOrder[t] < StartOrder[s]
    BY <1>1, <2>1 DEF PhaseHonest
  <2>4. ASSUME NEW t \in Up PROVE t \in Unwind(s) \cup {"Heartbeat", "Discovery"}
    <3>1. t \in Services /\ t \in Configured /\ StartOrder[t] < StartOrder[s]
      BY <2>3 DEF Up
    <3>2. CASE s = "OGM"
      BY <3>1, <3>2 DEF Unwind, StartOrder, Services, Servers, Engines
    <3>3. CASE s = "Sync"
      BY <3>1, <3>3 DEF Unwind, StartOrder, Services, Servers, Engines
    <3>4. CASE s = "Discovery"
      BY <3>1, <3>4 DEF Unwind, StartOrder, Services, Servers, Engines
    <3>5. CASE s = "Heartbeat"
      BY <3>1, <3>5 DEF Unwind, StartOrder, Services, Servers, Engines
    <3>6. CASE s = "Daemon"
      BY <3>1, <3>6 DEF Unwind, StartOrder, Services, Servers, Engines
    <3>7. CASE s = "API"
      BY <3>1, <3>7 DEF Unwind, StartOrder, Services, Servers, Engines
    <3> QED
      BY <2>1, <3>2, <3>3, <3>4, <3>5, <3>6, <3>7 DEF Fallible, Services, Servers, Engines
  <2>5. PhaseHonest'
    BY <2>1, <2>2, <2>4 DEF PhaseHonest
  <2>6. BusyHonest'
    BY <1>1, <2>2 DEF BusyHonest
  <2>7. TypeOK'
    BY <1>1, <1>2, <2>1 DEF TypeOK, Unwind, Configured
  <2> QED
    BY <1>1, <2>5, <2>6, <2>7
<1>6. CASE BeginClose(s)
  <2>1. /\ state' = [state EXCEPT ![s] = "closing"] /\ state[s] = "on"
        /\ UNCHANGED <<phase, todo, reported>>
    BY <1>6 DEF BeginClose
  <2>2. Up' = Up
    BY <1>3, <2>1 DEF Up
  <2> QED
    BY <1>1, <1>2, <2>1, <2>2 DEF PhaseHonest, BusyHonest, TypeOK
<1>7. CASE EndClose(s)
  <2>1. /\ state' = [state EXCEPT ![s] = "off"] /\ todo' = todo \ {s}
        /\ phase \in {"unwinding", "closing"} /\ UNCHANGED phase
        /\ s \in Servers \/ s \notin busy
        /\ reported' \in {Unset, reported}
    BY <1>7 DEF EndClose
  <2>2. Up' = Up \ {s}
    BY <1>3, <2>1 DEF Up
  <2>3. PhaseHonest'
    BY <2>1, <2>2 DEF PhaseHonest
  <2>4. BusyHonest'
    BY <1>1, <2>1, <2>2 DEF BusyHonest, Servers, Engines
  <2>5. TypeOK'
    BY <1>1, <1>2, <2>1 DEF TypeOK
  <2> QED
    BY <1>1, <2>3, <2>4, <2>5
<1> QED
  BY <1>4, <1>5, <1>6, <1>7

\* Every step keeps the invariant, also if the processes open the file together.
LEMMA ServicesStep == ServicesInv /\ [Next]_vars => ServicesInv'
<1> SUFFICES ASSUME ServicesInv, [Next]_vars PROVE ServicesInv'
  OBVIOUS
<1> USE DEF ServicesInv
<1>0. hub \in Procs /\ monitor \in Procs
  BY LifecycleAssumption
<1>1. CASE UNCHANGED vars
  BY <1>1 DEF vars, hubVars, storageVars, TypeOK, StorageTypeOK, PhaseHonest, BusyHonest, Up
<1>2. CASE UNCHANGED hubVars /\ StorageTypeOK'
           /\ desk' \in {"down", "opening", "running"} /\ flag' \in BOOLEAN
           /\ starts' \in 0 .. MaxStarts /\ toggles' \in 0 .. MaxToggles
  BY <1>2 DEF hubVars, TypeOK, PhaseHonest, BusyHonest, Up
<1>3. CASE StartHub
  <2>1. StorageTypeOK'
    BY <1>0, <1>3, StorageTypes DEF StartHub, TypeOK
  <2>2. starts' \in 0 .. MaxStarts
    BY <1>3, LifecycleAssumption DEF StartHub, TypeOK
  <2> QED
    BY <1>3, <2>1, <2>2 DEF StartHub, TypeOK, PhaseHonest, BusyHonest, Up
<1>4. CASE Opened
  <2>1. StorageTypeOK'
    BY <1>0, <1>4, StorageTypes DEF Opened, TypeOK
  <2> QED
    BY <1>4, <2>1 DEF Opened, TypeOK, PhaseHonest, BusyHonest, Up, Configured
<1>5. CASE RegisterSelfHub
  <2>1. StorageTypeOK'
    BY <1>0, <1>5, StorageTypes DEF RegisterSelfHub, TypeOK
  <2> QED
    BY <1>5, <2>1 DEF RegisterSelfHub, TypeOK, PhaseHonest, BusyHonest, Up
<1>6. CASE Close
  <2>1. StorageTypeOK'
    BY <1>0, <1>6, StorageTypes DEF Close, TypeOK
  <2> QED
    BY <1>6, <2>1 DEF Close, TypeOK, PhaseHonest, BusyHonest, Up, Configured
<1>7. CASE Unwound
  <2>1. StorageTypeOK'
    BY <1>0, <1>7, StorageTypes DEF Unwound, TypeOK
  <2> QED
    BY <1>7, <2>1 DEF Unwound, TypeOK, PhaseHonest, BusyHonest, Up
<1>8. CASE CloseDB
  <2>1. StorageTypeOK'
    BY <1>0, <1>8, StorageTypes DEF CloseDB, TypeOK
  <2> QED
    BY <1>8, <2>1 DEF CloseDB, TypeOK, PhaseHonest, BusyHonest, Up
<1>9. CASE Exit \/ Crash
  <2>1. EndHub
    BY <1>9 DEF Exit, Crash
  <2>2. StorageTypeOK'
    BY <1>0, <2>1, StorageTypes DEF EndHub, TypeOK
  <2>3. IsFiniteSet(busy') /\ Cardinality(busy') <= MaxBusy
    BY <2>1, FS_EmptySet, LifecycleAssumption DEF EndHub
  <2>4. Up' = {}
    BY <2>1 DEF EndHub, Up
  <2> QED
    BY <2>1, <2>2, <2>3, <2>4 DEF EndHub, TypeOK, PhaseHonest, BusyHonest
<1>10. CASE Poll
  <2>1. StorageTypeOK'
    BY <1>0, <1>10, StorageTypes DEF Poll, TypeOK
  <2> QED
    BY <1>10, <2>1 DEF Poll, TypeOK, PhaseHonest, BusyHonest, Up
<1>11. CASE StartMonitor
  <2>1. StorageTypeOK'
    BY <1>0, <1>11, StorageTypes DEF StartMonitor, TypeOK
  <2>2. starts' \in 0 .. MaxStarts
    BY <1>11, LifecycleAssumption DEF StartMonitor, TypeOK
  <2> QED
    BY <1>2, <1>11, <2>1, <2>2 DEF StartMonitor, TypeOK
<1>12. CASE MonitorRuns
  <2>1. StorageTypeOK'
    BY <1>0, <1>12, StorageTypes DEF MonitorRuns, TypeOK
  <2> QED
    BY <1>2, <1>12, <2>1 DEF MonitorRuns, TypeOK
<1>13. CASE HandleInternetFallback
  <2>1. StorageTypeOK'
    BY <1>0, <1>13, StorageTypes DEF HandleInternetFallback, TypeOK
  <2>2. toggles' \in 0 .. MaxToggles
    BY <1>13, LifecycleAssumption DEF HandleInternetFallback, TypeOK
  <2> QED
    BY <1>2, <1>13, <2>1, <2>2 DEF HandleInternetFallback, SetInternetFallbackEnabled, TypeOK
<1>14. CASE StopMonitor
  <2>1. StorageTypeOK'
    BY <1>0, <1>14, StorageTypes DEF StopMonitor, TypeOK
  <2> QED
    BY <1>2, <1>14, <2>1 DEF StopMonitor, TypeOK
<1>15. ASSUME NEW p \in Procs, Open(p) PROVE ServicesInv'
  <2>1. StorageTypeOK'
    BY <1>15, OpenStepTypes DEF Open, TypeOK
  <2> QED
    BY <1>2, <1>15, <2>1 DEF Open, TypeOK
<1>16. CASE MainStep
  BY <1>4, <1>5, <1>7, <1>8, <1>9, <1>16, MainKeeps DEF MainStep
<1> QED
  BY <1>1, <1>3, <1>6, <1>9, <1>10, <1>11, <1>12, <1>13, <1>14, <1>15, <1>16, WorkKeeps DEF Next

\* What the hub's main goroutine relies on in every phase.
THEOREM ServicesInvariance == Spec => []ServicesInv
<1>1. ServicesInv /\ [Next]_vars => ServicesInv'
  BY ServicesStep
<1> QED
  BY InitServices, <1>1, PTL DEF Spec

\* Every state of hub, monitor and file is well formed, also if the two processes
\* open the file together.
THEOREM TypeCorrect == Spec => []TypeOK
<1>1. ServicesInv => TypeOK
  BY DEF ServicesInv
<1> QED
  BY <1>1, ServicesInvariance, PTL

\* Hub.Close closes the database when no goroutine of an engine is left.
THEOREM DatabaseOutlivesEnginesHolds == Spec => []DatabaseOutlivesEngines
<1>1. ServicesInv => DatabaseOutlivesEngines
  BY DEF ServicesInv, PhaseHonest, BusyHonest, Up, DatabaseOutlivesEngines, Services
<1> QED
  BY <1>1, ServicesInvariance, PTL

\* The error paths of Hub.Start stop all that is up but Heartbeat and Discovery.
THEOREM FailedStartStopsHolds == Spec => FailedStartStops
<1>1. ServicesInv /\ [Next]_vars =>
        [Unwound => {s \in Services : state[s] # "off"} \subseteq {"Heartbeat", "Discovery"}
                    /\ busy \cap Engines \subseteq {"Discovery"}]_vars
  BY DEF ServicesInv, PhaseHonest, BusyHonest, Up, Unwound, Engines
<1> QED
  BY <1>1, ServicesInvariance, PTL DEF Spec, FailedStartStops
=============================================================================
