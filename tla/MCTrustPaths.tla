--------------------------- MODULE MCTrustPaths ---------------------------
(***************************************************************************)
(* Two families of snapshots for TrustPaths.  In the first the dependency  *)
(* graph varies: every graph of three services, each of them trusting both *)
(* anchors, the old one only, or retired.  In the second one service and   *)
(* one dependent on it meet chains whose validity, state and anchor vary.  *)
(***************************************************************************)
EXTENDS TrustPaths

Old == 1
New == 2

Chain(anchor, leaf, from, to, state, valid) ==
    [anchor |-> anchor, leaf |-> leaf, from |-> from, to |-> to,
     state |-> state, valid |-> valid]

Service(chain, trust, deps, state) ==
    [chain |-> chain, trust |-> trust, deps |-> deps, state |-> state]

\* The overlap lasts from 4 to 8, a minute is 2.
Snapshot(candidates, time, chains, services) ==
    [old |-> Old, new |-> New, anchors |-> {Old, New}, start |-> 4, end |-> 8,
     candidates |-> candidates, simulationTime |-> time,
     chains |-> chains, services |-> services]

BothChains == << Chain(Old, "leaf", 0, 20, "validated", TRUE),
                 Chain(New, "leaf", 0, 20, "validated", TRUE) >>

Kinds == { <<{Old, New}, "active">>, <<{Old}, "active">>, <<{Old, New}, "inactive">> }

\* validateReferences lets no service depend on itself.
LoopFree == {g \in [1 .. 3 -> SUBSET (1 .. 3)] : \A n \in 1 .. 3 : n \notin g[n]}

GraphFamily ==
    { Snapshot({1, 2}, 6, BothChains,
               [n \in 1 .. 3 |-> Service(1, kind[n][1], g[n], kind[n][2])]) :
        g \in LoopFree, kind \in [1 .. 3 -> Kinds] }

\* Chain 1 of the old anchor ends, chain 2 of the new one begins; a service
\* may be configured with a chain beyond those the snapshot froze.
TimeFamily ==
    { Snapshot(candidates, time,
               << Chain(Old, "leaf", 0, to, "imported", TRUE),
                  Chain(New, leaf, from, 20, state, valid) >>,
               << Service(chain, trust, {}, "active"),
                  Service(1, {Old, New}, {1}, "active") >>) :
        candidates \in {{}, {2}, {1, 2}}, time \in {5, 11}, to \in {5, 8, 9, 20},
        from \in {0, 4, 5, 10}, leaf \in {"leaf", "other"},
        state \in {"validated", "deprecated"}, valid \in {TRUE, FALSE},
        chain \in {1, 2, 3}, trust \in {{Old}, {Old, New}} }

\* What Create asks to be validated and is refused: an overlap that ends as it
\* starts, and a candidate beyond the chains that were frozen.
RefusedFamily ==
    LET good == Snapshot({1, 2}, 6, BothChains, << Service(1, {Old, New}, {}, "active") >>)
    IN  {[good EXCEPT !.end = good.start], [good EXCEPT !.candidates = {1, 3}]}

MCSnapshots == GraphFamily \union TimeFamily \union RefusedFamily
=============================================================================
