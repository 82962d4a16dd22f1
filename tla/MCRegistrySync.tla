--------------------------- MODULE MCRegistrySync ---------------------------
(* An instance of RegistrySync: hubs that gossip to each other.            *)
EXTENDS RegistrySync

CONSTANTS a, b, n, r, q, s

Pair == [h \in {a, b} |-> {a, b} \ {h}]
BothHear == [h \in {a, b} |-> Seen \ {h}]
HomeAtA == [app \in Apps |-> a]
BlockedAtB == [h \in {a, b} |-> IF h = b THEN {s} ELSE {}]
=============================================================================
