\* A bundle addressed to the hub itself.
CONSTANTS
    b1 = b1
    b2 = b2
    self = self
    n = n
    Bundles = {b2}
    Nodes = {self, n}
    Self = self
    Dst <- OneAwayOneHome
    Loop = loop
    Callers = {receive}
    Senders = {sender}
    Heard = {n, self}
    Routable = {n}
    Main = sender
    Mortal = {b2}
    MaxCrashes = 0
SPECIFICATION Spec
PROPERTIES
    LocalReceived
