------------------------- MODULE MCScenarioFreeze -------------------------
(***************************************************************************)
(* Three chains and a page of two: the third to expire falls off it.  At   *)
(* the start the chains are as they were imported.                         *)
(***************************************************************************)
EXTENDS ScenarioFreeze

CONSTANTS legacy, next, late, edge, billing

MCRank == [c \in ChainIds |-> CASE c = legacy -> 1 [] c = next -> 2 [] c = late -> 3]

MCInit == FreezeInit /\ \A c \in ChainIds : chains[c] \in {"validated", Absent}

MCSpec == MCInit /\ [][FreezeNext]_vars
=============================================================================
