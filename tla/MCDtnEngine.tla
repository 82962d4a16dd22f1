---------------------------- MODULE MCDtnEngine ----------------------------
(***************************************************************************)
(* Instances of DtnEngine: bundles for another node and for the hub        *)
(* itself.                                                                 *)
(***************************************************************************)
EXTENDS DtnEngine

CONSTANTS b1, b2, self, n

OneAwayOneHome == [b \in Bundles |-> IF b = b1 THEN n ELSE self]
=============================================================================
