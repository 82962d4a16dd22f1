\* One hello round on a line of three hubs.
CONSTANTS
    a = a
    b = b
    c = c
    d = d
    None = None
    Hubs = {a, b, c}
    Links <- LineLinks
    LiteralPeers <- LineLinks
    Dist <- LineDist
    TTL = 2
    HelloEpoch = 100
    MaxSeq <- OneEach
    MaxHellos = 1
    MaxSweeps = 0
    MaxRestarts = 0
    MaxDups = 0
SPECIFICATION Spec
INVARIANTS
    FloodReachesAll
CHECK_DEADLOCK FALSE
