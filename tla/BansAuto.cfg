\* Two hubs that propose bans on two apps.
SPECIFICATION Spec
CONSTANTS
    a = a
    b = b
    c = c
    x = x
    y = y
    Hubs = {a, b}
    Apps = {x, y}
    Peers <- Pair
    Proposers = {a, b}
    Decisions <- PairDecisions
    Clock <- PairClock
    NoRow = NoRow
    NoVerdict = NoVerdict
    NoMsg = NoMsg
    Ban = Ban
INVARIANT
    NeverAutoEnforced
