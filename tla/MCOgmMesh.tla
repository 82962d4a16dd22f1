----------------------------- MODULE MCOgmMesh -----------------------------
(***************************************************************************)
(* Topologies on which TLC checks OgmMesh.  Dist is the hop distance in    *)
(* each of them, a bound no path reaches where there is no path.           *)
(***************************************************************************)
EXTENDS OgmMesh

CONSTANTS a, b, c, d

Both(pairs) == pairs \cup {<<l[2], l[1]>> : l \in pairs}

\* The length of a shortest path, by rounds of relaxation.
Distances(hubs, links) ==
    LET Far == Cardinality(hubs)
        reach[n \in 0..Far] ==
            IF n = 0 THEN {<<h, h>> : h \in hubs}
            ELSE reach[n - 1] \cup
                 {x \in hubs \X hubs :
                    \E y \in hubs : <<x[1], y>> \in reach[n - 1] /\ <<y, x[2]>> \in links}
    IN  [o \in hubs |-> [h \in hubs |->
            IF <<o, h>> \in reach[Far]
            THEN CHOOSE n \in 0..Far : /\ <<o, h>> \in reach[n]
                                       /\ \A m \in 0..(n - 1) : <<o, h>> \notin reach[m]
            ELSE Far]]

LineLinks == Both({<<a, b>>, <<b, c>>})
LineDist == Distances(Hubs, LineLinks)

\* a announces itself to b and c, b relays to c, and c only listens.
SourceLinks == {<<a, b>>, <<a, c>>, <<b, c>>}
SourceDist == Distances(Hubs, SourceLinks)

\* b hears a directly and through c, and echoes of its own OGMs from c; d hears
\* a only through c.
KiteLinks == {<<a, b>>, <<b, a>>, <<a, c>>, <<c, b>>, <<c, d>>}
KiteDist == Distances(Hubs, KiteLinks)

\* How many OGMs the hubs originate.
OneEach == [h \in Hubs |-> 1]
TwoFromAOneFromB == [h \in Hubs |-> CASE h = a -> 2 [] h = b -> 1 [] OTHER -> 0]
=============================================================================
