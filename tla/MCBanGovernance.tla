-------------------------- MODULE MCBanGovernance --------------------------
(* Instances of BanGovernance for TLC: two hubs, and three in a ring.      *)
EXTENDS BanGovernance

CONSTANTS a, b, c, x, y

Pair == [h \in {a, b} |-> {a, b} \ {h}]
PairClock == [h \in {a, b} |-> {1, 2}]
PairDecisions == [h \in {a, b} |-> IF h = a THEN [agree : BOOLEAN, at : {1, 2}] ELSE {}]

Ring == [h \in {a, b, c} |-> IF h = a THEN {b} ELSE IF h = b THEN {c} ELSE {a}]
RingClock == [h \in {a, b, c} |-> CASE h = a -> {1, 3} [] h = b -> {1} [] h = c -> {2}]
\* The admin of a agrees and later thinks better of it, or rejects from the start.
RingDecisions ==
    [h \in {a, b, c} |->
        IF h = a THEN {[agree |-> TRUE, at |-> 1], [agree |-> FALSE, at |-> 3]} ELSE {}]
=============================================================================
