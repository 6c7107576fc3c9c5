-------------------------- MODULE DependencyGraphs --------------------------
(***************************************************************************)
(* What the two depth-first searches of the program decide about a         *)
(* dependency graph: servicesContainCycle before a service is stored,      *)
(* detectCycle before a snapshot is simulated.  A graph is a function from *)
(* its nodes to the sets of nodes they depend on.                          *)
(***************************************************************************)

\* A finite graph has no cycle when every non-empty set of its nodes has one
\* that depends on no other of the set: where the search would end.
Acyclic(graph) ==
    \A S \in SUBSET DOMAIN graph :
        S # {} => \E n \in S : graph[n] \intersect S = {}
=============================================================================
