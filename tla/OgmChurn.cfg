\* Hellos, duplicates, a stale sweep, probes and a restart: a source, a relay and
\* a listener, with peers configured by host name.
CONSTANTS
    a = a
    b = b
    c = c
    d = d
    None = None
    Hubs = {a, b, c}
    Links <- SourceLinks
    LiteralPeers = {}
    Dist <- SourceDist
    TTL = 2
    HelloEpoch = 100
    MaxSeq <- OneEach
    MaxHellos = 1
    MaxSweeps = 1
    MaxRestarts = 1
    MaxDups = 1
SPECIFICATION Spec
INVARIANTS
    TypeOK
    RoutesTruthful
    NextHopKnowsDestination
    AlternatesWellFormed
PROPERTIES
    RoutesOnlyImprove
CHECK_DEADLOCK FALSE
