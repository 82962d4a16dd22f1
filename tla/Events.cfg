\* One page and channels of one place, so that each of them overflows.
SPECIFICATION Spec
CHECK_DEADLOCK FALSE
CONSTANTS
    Logins = {l1, l2}
    Changes = {q1}
    Default = d
    Chosen = {v}
    Wrong = w
    NoRow = NoRow
    MaxFailures = 2
    MaxEvents = 2
    Alerts = {1}
    Counted = {2}
    Slots = {1, 2}
    Tabs = {b}
    HubBuffer = 1
    WireBuffer = 1
    FeedBuffer = 1
    TabBuffer = 1
    MaxAlerts = 1
    MaxRestarts = 1
    MaxVisits = 1
    Apart = TRUE
INVARIANTS
    TypeOK
    InOrder
    NoGap
    DefaultIsReplaced
PROPERTIES
    ClientsReaped
    Reconnects
