\* Flooding and route selection before the first hello tick, over one, two and three hops.
CONSTANTS
    a = a
    b = b
    c = c
    d = d
    None = None
    Hubs = {a, b, c, d}
    Links <- KiteLinks
    LiteralPeers <- KiteLinks
    Dist <- KiteDist
    TTL = 2
    HelloEpoch = 100
    MaxSeq <- TwoFromAOneFromB
    MaxHellos = 0
    MaxSweeps = 0
    MaxRestarts = 0
    MaxDups = 0
SPECIFICATION Spec
INVARIANTS
    HopBudget
    DirectProximityHonest
    FloodReachesAll
    EchoesAtMostTwice
    TableHoldsBest
CHECK_DEADLOCK FALSE
