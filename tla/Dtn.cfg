\* The loop, one OGM goroutine and one sender on a queue of two bundles, with a
\* crash anywhere.
CONSTANTS
    b1 = b1
    b2 = b2
    self = self
    n = n
    Bundles = {b1, b2}
    Nodes = {self, n}
    Self = self
    Dst <- OneAwayOneHome
    Loop = loop
    Callers = {receive}
    Senders = {sender}
    Heard = {n}
    Routable = {n}
    Main = sender
    Mortal = {b2}
    MaxCrashes = 1
SPECIFICATION Spec
INVARIANTS
    TypeOK
    NothingLost
PROPERTIES
    QueueDrains
    DepthSettles
