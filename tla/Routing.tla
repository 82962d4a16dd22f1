------------------------------ MODULE Routing ------------------------------
(***************************************************************************)
(* core/routing: the route metric.  A transmit quality is a float64 in     *)
(* [0, 1] in the code; here it is a fixed-point integer in 0..Scale, fine  *)
(* enough that the quotients EQ/RQ of small counters stay distinct and     *)
(* that the comparison tolerance of Better (0.001) is a whole number.      *)
(***************************************************************************)
EXTENDS Integers

Scale == 10000

Tolerance == Scale \div 1000

\* EQ/RQ clamped to [0, 1]; 0 when nothing was received.
ComputeTQ(eq, rq) ==
    IF rq = 0 THEN 0
    ELSE IF eq >= rq THEN Scale ELSE (eq * Scale) \div rq

\* The degradation of a link's TQ over one relayed hop: via * link, clamped.
PathTQ(linkTQ, viaTQ) ==
    LET v == (linkTQ * viaTQ) \div Scale
    IN  IF v > Scale THEN Scale ELSE v

\* Lower is better: ten points a hop, a twentieth of a point a millisecond,
\* and up to forty points for a poor transmit quality.
Cost(r) ==
    10 * Scale * r.hopCount + (Scale \div 20) * r.latencyMs + 40 * (Scale - r.tq)

\* Whether candidate is strictly preferable to current, a route that exists.
Better(candidate, current) ==
    LET c1 == Cost(candidate)
        c2 == Cost(current)
    IN  \/ c1 < c2 - Tolerance
        \/ /\ c1 >= c2 - Tolerance
           /\ c1 <= c2 + Tolerance
           /\ \/ candidate.tq > current.tq
              \/ /\ candidate.tq = current.tq
                 /\ candidate.hopCount < current.hopCount
=============================================================================
