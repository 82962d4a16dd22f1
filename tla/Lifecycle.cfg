\* A hub and a monitor that open the file one after the other.
SPECIFICATION Spec
CHECK_DEADLOCK FALSE
CONSTANTS
    hub = hub
    monitor = monitor
    Procs = {hub, monitor}
    Together = FALSE
    First = {0, 1, 2, 3, 4, 5, 6}
    Enabled = {"Daemon", "Heartbeat", "Discovery"}
    MaxStarts = 3
    MaxBusy = 2
    MaxToggles = 2
    Unset = Unset
INVARIANTS
    TypeOK
    Openable
    LatestWhileOpen
    DatabaseOutlivesEngines
PROPERTIES
    FailedStartStops
    ShutdownReturns
