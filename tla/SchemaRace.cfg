\* A hub and a monitor that open the file at the same time.
SPECIFICATION Spec
CHECK_DEADLOCK FALSE
CONSTANTS
    hub = hub
    monitor = monitor
    Procs = {hub, monitor}
    Together = TRUE
    First = {0}
    Enabled = {"Daemon", "Heartbeat", "Discovery"}
    MaxStarts = 2
    MaxBusy = 2
    MaxToggles = 2
    Unset = Unset
INVARIANTS
    Openable
