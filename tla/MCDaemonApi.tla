---------------------------- MODULE MCDaemonApi ----------------------------
(* An instance of DaemonApi: two apps, of which one polls twice.           *)
EXTENDS DaemonApi

CONSTANTS c1, c2, p1, p2, m1, m2, d1, t

OneTopic == [x \in Posts \cup Polls |-> t]
Callers == [p \in Polls |-> c1]
AskForOne == [d \in Lookups |-> c1]
=============================================================================
