-------------------------- MODULE MCCycleSearch --------------------------
(***************************************************************************)
(* Every graph over up to three known services that name each other,       *)
(* themselves and one unknown service.                                     *)
(***************************************************************************)
EXTENDS CycleSearch, TLC

CONSTANTS a, b, c, ghost

\* The graphs of three known services, and those of two with the unknown one.
MCGraphs ==
    LET Known == {a, b, c}
    IN  [Known -> SUBSET Known] \union [{a, b} -> SUBSET {a, b, ghost}]

=============================================================================
