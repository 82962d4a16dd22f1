\* Three hubs that gossip around a ring; two propose, one decides and may change its
\* mind.
SPECIFICATION Spec
CONSTANTS
    a = a
    b = b
    c = c
    x = x
    y = y
    Hubs = {a, b, c}
    Apps = {x}
    Peers <- Ring
    Proposers = {b, c}
    Decisions <- RingDecisions
    Clock <- RingClock
    NoRow = NoRow
    NoVerdict = NoVerdict
    NoMsg = NoMsg
    Ban = Ban
INVARIANTS
    TypeOK
    OwnVerdictKept
PROPERTIES
    NeverOlder
    BansConverge
