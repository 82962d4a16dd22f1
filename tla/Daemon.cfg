\* Two apps, one of which polls twice and may be banned, and a restart of the hub.
SPECIFICATION Spec
CHECK_DEADLOCK FALSE
CONSTANTS
    c1 = c1
    c2 = c2
    p1 = p1
    p2 = p2
    m1 = m1
    m2 = m2
    d1 = d1
    t = t
    Clients = {c1, c2}
    Mail = {x, y, z}
    Empty = {z}
    Posts = {m1, m2}
    Polls = {p1, p2}
    Lookups = {d1}
    Topics = {t}
    TopicOf <- OneTopic
    Caller <- Callers
    Subject <- AskForOne
    Buffer = 1
    Bannable = {c1}
    MaxVerdicts = 1
    MaxCrashes = 1
    MaxServices = 1
    None = None
INVARIANTS
    TypeOK
    NoChannelLeaks
    OncePerSession
    BansRespected
PROPERTIES
    ImplementsMailbox
    RequestsEnd
