---------------------------- MODULE HubLifecycle ----------------------------
(***************************************************************************)
(* hub/internal/hubapp and hub/main.go: a hub opens its database, starts   *)
(* its services in order, runs, and closes them in another order, with the *)
(* database last.  Beside it the monitor (monitor/internal/monitorapp)     *)
(* opens the same file and sets the internet-fallback flag, which the      *)
(* fallback engine polls.  Processes may die at any moment.                *)
(*                                                                         *)
(* busy are the services one of whose goroutines is using the database.    *)
(* An engine's Close waits for its goroutines; that of an HTTP server      *)
(* waits for its handlers too, but only for five seconds.                  *)
(***************************************************************************)
EXTENDS Storage

CONSTANTS
    hub, monitor,  \* the two processes
    Enabled,       \* optional services that are configured
    MaxStarts,     \* bound: starts of the hub and of the monitor
    MaxBusy,       \* bound: services that use the database at the same time
    MaxToggles,    \* bound: changes of the flag
    Unset

Servers == {"API", "Daemon", "Heartbeat"}
Engines == {"Discovery", "DTN", "Fallback", "Sync", "OGM"}
Services == Servers \cup Engines
Optional == {"Daemon", "Heartbeat", "Discovery"}

\* The goroutine of selfHubLivenessLoop, for which nobody waits.
Self == "Self"

\* The order of Hub.Start, whose error paths go through it backwards, and of Hub.Close.
StartOrder ==
    [API |-> 1, Daemon |-> 2, Heartbeat |-> 3, Discovery |-> 4,
     DTN |-> 5, Fallback |-> 6, Sync |-> 7, OGM |-> 8]
CloseOrder ==
    [Fallback |-> 1, DTN |-> 2, Daemon |-> 3, Heartbeat |-> 4,
     Discovery |-> 5, Sync |-> 6, OGM |-> 7, API |-> 8]

Configured == Services \ (Optional \ Enabled)

\* The services whose Start may fail: the others open no socket.
Fallible == Services \ {"DTN", "Fallback"}

ASSUME LifecycleAssumption ==
    /\ Procs = {hub, monitor} /\ hub # monitor
    /\ Enabled \subseteq Optional
    /\ "Discovery" \in Enabled => "Heartbeat" \in Enabled
    /\ {MaxStarts, MaxBusy, MaxToggles} \subseteq Nat
    /\ Unset \notin BOOLEAN

VARIABLES
    phase,     \* where the hub's main goroutine is
    todo,      \* the services it has still to start or to close
    state,     \* state[s]: off, on, or closing
    busy,      \* services, and perhaps Self, that are using the database
    self,      \* whether selfHubLivenessLoop runs
    desk,      \* where the monitor is
    flag,      \* internet_fallback_enabled, persistent
    reported,  \* Engine.last, or Unset
    starts, toggles

hubVars == <<phase, todo, state, busy, self, reported>>
vars == <<storageVars, hubVars, desk, flag, starts, toggles>>

TypeOK ==
    /\ StorageTypeOK
    /\ phase \in {"down", "opening", "starting", "running", "unwinding", "failed", "closing", "closed"}
    /\ todo \subseteq Services
    /\ state \in [Services -> {"off", "on", "closing"}]
    /\ busy \subseteq Services \cup {Self} /\ Cardinality(busy) <= MaxBusy
    /\ self \in BOOLEAN
    /\ desk \in {"down", "opening", "running"}
    /\ flag \in BOOLEAN /\ reported \in BOOLEAN \cup {Unset}
    /\ starts \in 0 .. MaxStarts /\ toggles \in 0 .. MaxToggles

Init ==
    /\ StorageInit
    /\ phase = "down" /\ todo = {}
    /\ state = [s \in Services |-> "off"]
    /\ busy = {} /\ self = FALSE
    /\ desk = "down"
    /\ flag = FALSE /\ reported = Unset
    /\ starts = 0 /\ toggles = 0

---------------------------------------------------------------------------
\* Start

StartHub ==
    /\ phase = "down"
    /\ starts < MaxStarts
    /\ BeginOpen(hub)
    /\ starts' = starts + 1
    /\ phase' = "opening"
    /\ UNCHANGED <<todo, state, busy, self, reported, desk, flag, toggles>>

\* New has its database and Start begins, or New has failed.
Opened ==
    /\ phase = "opening"
    /\ \/ opening[hub] = "open" /\ phase' = "starting"
          /\ todo' = Configured
       \/ opening[hub] = "failed" /\ phase' = "failed" /\ UNCHANGED todo
    /\ UNCHANGED <<storageVars, state, busy, self, reported, desk, flag, starts, toggles>>

\* Service s is the next to start or to close.
IsNext(s) ==
    LET Place(t) == CASE phase = "starting"  -> StartOrder[t]
                      [] phase = "unwinding" -> 0 - StartOrder[t]
                      [] OTHER               -> CloseOrder[t]
    IN  s \in todo /\ \A t \in todo : Place(s) <= Place(t)

\* Fault: the engines that have no socket go on.
UnwindSockets(s) ==
    Configured \cap (CASE s = "OGM"       -> {"Sync", "Daemon", "API"}
                       [] s = "Sync"      -> {"Daemon", "API"}
                       [] s = "Discovery" -> {"Heartbeat", "Daemon", "API"}
                       [] s = "Heartbeat" -> {"Daemon", "API"}
                       [] s = "Daemon"    -> {"API"}
                       [] OTHER           -> {})

\* What Start closes when service s has failed: not Heartbeat and Discovery if it is
\* one of the last two.
Unwind(s) ==
    Configured \cap (CASE s = "OGM"       -> {"Sync", "Fallback", "DTN", "Daemon", "API"}
                       [] s = "Sync"      -> {"Fallback", "DTN", "Daemon", "API"}
                       [] s = "Discovery" -> {"Heartbeat", "Daemon", "API"}
                       [] s = "Heartbeat" -> {"Daemon", "API"}
                       [] s = "Daemon"    -> {"API"}
                       [] OTHER           -> {})

StartService(s) ==
    /\ phase = "starting" /\ IsNext(s)
    /\ \/ /\ state' = [state EXCEPT ![s] = "on"]
          /\ todo' = todo \ {s}
          /\ UNCHANGED phase
       \/ /\ s \in Fallible
          /\ todo' = Unwind(s)
          /\ phase' = "unwinding"
          /\ UNCHANGED state
    /\ UNCHANGED <<storageVars, busy, self, reported, desk, flag, starts, toggles>>

\* registerSelfHub; then the liveness loop begins and proposals are signed.  If one
\* of the two fails, Start returns with everything running.
RegisterSelfHub ==
    /\ phase = "starting" /\ todo = {}
    /\ \/ phase' = "running" /\ self' = TRUE
       \/ phase' = "failed" /\ self' \in BOOLEAN
    /\ UNCHANGED <<storageVars, todo, state, busy, reported, desk, flag, starts, toggles>>

---------------------------------------------------------------------------
\* The services at work; for Fallback see Poll.  A loop that has been told to stop may
\* still take its ticker first, and Discovery goes on handling beacons until none comes for two seconds.
BeginWork(s) ==
    /\ s # "Fallback"
    /\ s \notin busy /\ Cardinality(busy) < MaxBusy
    /\ IF s = Self THEN self ELSE state[s] = "on" \/ (s \in Engines /\ state[s] = "closing")
    /\ busy' = busy \cup {s}
    /\ UNCHANGED <<storageVars, phase, todo, state, self, reported, desk, flag, starts, toggles>>

EndWork(s) ==
    /\ s \in busy
    /\ busy' = busy \ {s}
    /\ UNCHANGED <<storageVars, phase, todo, state, self, reported, desk, flag, starts, toggles>>

\* The fallback engine reports the flag if it differs from the last value, or at once
\* after the start.
Poll ==
    /\ state["Fallback"] \in {"on", "closing"}
    /\ reported # flag
    /\ reported' = flag
    /\ UNCHANGED <<storageVars, phase, todo, state, busy, self, desk, flag, starts, toggles>>

---------------------------------------------------------------------------
\* Close

\* Fault: OGM is left to the end of the process.
CloseWithoutOgm ==
    /\ phase = "running"
    /\ phase' = "closing"
    /\ self' = FALSE
    /\ todo' = Configured \ {"OGM"}
    /\ UNCHANGED <<storageVars, state, busy, reported, desk, flag, starts, toggles>>

\* A signal: the liveness loop is cancelled, and not waited for.
Close ==
    /\ phase = "running"
    /\ phase' = "closing"
    /\ self' = FALSE
    /\ todo' = Configured
    /\ UNCHANGED <<storageVars, state, busy, reported, desk, flag, starts, toggles>>

BeginClose(s) ==
    /\ phase \in {"unwinding", "closing"} /\ IsNext(s)
    /\ state[s] = "on"
    /\ state' = [state EXCEPT ![s] = "closing"]
    /\ UNCHANGED <<storageVars, phase, todo, busy, self, reported, desk, flag, starts, toggles>>

\* Fault: readers have no deadline and see the end after a packet only.
EndCloseAfterPacket(s) ==
    /\ phase \in {"unwinding", "closing"} /\ IsNext(s)
    /\ state[s] = "closing"
    /\ s \in Servers \cup {"DTN", "Fallback"} \/ s \in busy
    /\ state' = [state EXCEPT ![s] = "off"]
    /\ reported' = IF s = "Fallback" THEN Unset ELSE reported
    /\ todo' = todo \ {s}
    /\ UNCHANGED <<storageVars, phase, busy, self, desk, flag, starts, toggles>>

\* The goroutines are done, or the five seconds for handlers are over.
EndClose(s) ==
    /\ phase \in {"unwinding", "closing"} /\ IsNext(s)
    /\ state[s] = "closing"
    /\ s \in Servers \/ s \notin busy
    /\ state' = [state EXCEPT ![s] = "off"]
    /\ reported' = IF s = "Fallback" THEN Unset ELSE reported
    /\ todo' = todo \ {s}
    /\ UNCHANGED <<storageVars, phase, busy, self, desk, flag, starts, toggles>>

Unwound ==
    /\ phase = "unwinding" /\ todo = {}
    /\ phase' = "failed"
    /\ UNCHANGED <<storageVars, todo, state, busy, self, reported, desk, flag, starts, toggles>>

CloseDB ==
    /\ phase = "closing" /\ todo = {}
    /\ phase' = "closed"
    /\ LetGo(hub)
    /\ UNCHANGED <<version, schema, todo, state, busy, self, reported, desk, flag, starts, toggles>>

\* The process ends: main returns or gives up, or it dies.
EndHub ==
    /\ phase # "down"
    /\ phase' = "down" /\ todo' = {}
    /\ state' = [s \in Services |-> "off"]
    /\ busy' = {} /\ self' = FALSE /\ reported' = Unset
    /\ LetGo(hub)
    /\ UNCHANGED <<version, schema, desk, flag, starts, toggles>>

Exit == phase \in {"failed", "closed"} /\ EndHub
Crash == phase \notin {"failed", "closed"} /\ EndHub

---------------------------------------------------------------------------
\* The monitor

StartMonitor ==
    /\ desk = "down"
    /\ starts < MaxStarts
    /\ BeginOpen(monitor)
    /\ starts' = starts + 1
    /\ desk' = "opening"
    /\ UNCHANGED <<hubVars, flag, toggles>>

MonitorRuns ==
    /\ desk = "opening" /\ opening[monitor] = "open"
    /\ desk' = "running"
    /\ UNCHANGED <<storageVars, hubVars, flag, starts, toggles>>

SetInternetFallbackEnabled(on) == flag' = on

HandleInternetFallback ==
    /\ desk = "running"
    /\ toggles < MaxToggles
    /\ toggles' = toggles + 1
    /\ SetInternetFallbackEnabled(~flag)
    /\ UNCHANGED <<storageVars, hubVars, desk, starts>>

\* It is closed, cannot open the file or listen, or dies.
StopMonitor ==
    /\ desk # "down"
    /\ desk' = "down"
    /\ LetGo(monitor)
    /\ UNCHANGED <<version, schema, hubVars, flag, starts, toggles>>

---------------------------------------------------------------------------
Open(p) == OpenStep(p) /\ UNCHANGED <<hubVars, desk, flag, starts, toggles>>
MainStep ==
    \/ Opened \/ RegisterSelfHub \/ Unwound \/ CloseDB \/ Exit
    \/ \E s \in Services : StartService(s) \/ BeginClose(s) \/ EndClose(s)

Next ==
    \/ StartHub \/ MainStep \/ Close \/ Crash
    \/ \E s \in Services \cup {Self} : BeginWork(s) \/ EndWork(s)
    \/ Poll
    \/ StartMonitor \/ MonitorRuns \/ HandleInternetFallback \/ StopMonitor
    \/ \E p \in Procs : Open(p)

\* Goroutines run and statements return.  The loop of an engine that is being closed
\* sees the end of its context between two pieces of work, when it next selects or
\* finds its socket closed.  Not so Discovery: its reader looks only after a read that
\* has failed, and nothing ensures that one fails.
Fairness ==
    /\ WF_vars(MainStep)
    /\ SF_vars(\E s \in Services \ {"Discovery"} : EndClose(s))
    /\ WF_vars(Poll)
    /\ \A s \in Services \cup {Self} : WF_vars(EndWork(s))
    /\ \A p \in Procs : WF_vars(Open(p))

Spec == Init /\ [][Next]_vars /\ Fairness

---------------------------------------------------------------------------
\* Properties

\* The database outlives the engines: once Close has let go of it, none of their
\* goroutines runs.  Handlers that outlast their five seconds, and the liveness loop,
\* may still be at it and get an error.
DatabaseOutlivesEngines ==
    phase = "closed" => \A s \in Engines : state[s] = "off" /\ s \notin busy

\* When a service fails to start, no engine goes on but Discovery, which Start leaves
\* running together with Heartbeat if Sync or OGM is the one that failed.  (If the hub
\* cannot register itself in the database, everything goes on.)
FailedStartStops ==
    [][Unwound => {s \in Services : state[s] # "off"} \subseteq {"Heartbeat", "Discovery"}
                  /\ busy \cap Engines \subseteq {"Discovery"}]_vars

\* The beacons on the LAN leave a gap of two seconds again and again.
LanFallsSilent == SF_vars(EndClose("Discovery"))

\* Shutdown returns: every start that fails and every close ends, with handlers,
\* engines and the other process at work, or hangs in the close of Discovery and
\* nowhere else.  It does not hang there if the LAN falls silent.
ShutdownReturns ==
    /\ phase \in {"unwinding", "closing"} ~> phase = "down" \/ state["Discovery"] = "closing"
    /\ LanFallsSilent => (phase \in {"unwinding", "closing"} ~> phase = "down")
=============================================================================
