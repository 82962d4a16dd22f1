\* Two hubs that gossip to each other and both hear one node; one of them is in the
\* hub registry of both, has a relay and registers two apps, the other bans one.
SPECIFICATION Spec
CHECK_DEADLOCK FALSE
CONSTANTS
    a = a
    b = b
    n = n
    r = r
    q = q
    s = s
    Hubs = {a, b}
    Nodes = {n}
    Backbone = {a}
    Relays = {r}
    Apps = {q, s}
    Peers <- Pair
    Hears <- BothHear
    Located = {a}
    Home <- HomeAtA
    Curators = {a}
    Blocked <- BlockedAtB
    StaleAfter = 1
    Lag = 1
    LastContact = 2
    MaxTime = 4
    MaxTables = 1
    NoMsg = NoMsg
INVARIANTS
    TypeOK
    FreshIsOnline
PROPERTIES
    SilentGoStale
    RowsConverge
