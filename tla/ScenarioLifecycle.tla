------------------------- MODULE ScenarioLifecycle -------------------------
(***************************************************************************)
(* What the rollover-scenario component promises, with no requests, no    *)
(* transactions and no races: a scenario is one atomic record that is      *)
(* drafted, simulated, readied, executed and then verified or rolled       *)
(* back, each time by a user entitled to do it.  The valid moves are those *)
(* of constants/scenario_state.go, the entitlements those of               *)
(* constants/roles.go and of the service's ownership rule.                 *)
(* RolloverScenarios, the handlers over the database, implements this.     *)
(***************************************************************************)
EXTENDS DomainConstants

CONSTANTS
    Ids,        \* primary keys of scenarios
    Users,      \* accounts
    RoleOf,     \* the role of each account
    Inputs,     \* frozen inputs (snapshot, algorithm version, simulation time)
    NoScenario, \* the value of an id that is not in use
    NoUser      \* the verified_by of a scenario nobody verified

\* requireScenarioOwnership: the creator, an administrator or a PKI operator.
Manages(u, creator) == RoleOf[u] \in {"admin", "pki_operator"} \/ u = creator

----------------------------------------------------------------------------
VARIABLE scenario    \* id -> NoScenario or the record a reader of the API sees

Scenario == [state : ScenarioStates, creator : Users, input : Inputs,
             verifier : Users \union {NoUser}]

\* A scenario is absent or a record of the declared shape.
TypeOK == scenario \in [Ids -> Scenario \union {NoScenario}]

\* The seed may have stored scenarios that were simulated and never verified.
Init == scenario \in [Ids -> {NoScenario} \union
            [state : {"simulated"}, creator : Users, input : Inputs,
             verifier : {NoUser}]]

Stored(id) == scenario[id] # NoScenario

Create(id, u, i) ==
    /\ ~ Stored(id)
    /\ HasPermission(RoleOf[u], "scenario.write")
    /\ \A other \in Ids : Stored(other) => scenario[other].input # i
    /\ scenario' = [scenario EXCEPT ![id] =
            [state |-> "draft", creator |-> u, input |-> i, verifier |-> NoUser]]

Simulate(id, u) ==
    /\ Stored(id)
    /\ HasPermission(RoleOf[u], "scenario.run")
    /\ Manages(u, scenario[id].creator)
    /\ scenario[id].state = "draft"
    /\ scenario' = [scenario EXCEPT ![id].state = "simulated"]

\* Every move but the first (a simulation) and the verification.
Move(id, u, to) ==
    /\ Stored(id)
    /\ HasPermission(RoleOf[u], "scenario.write")
    /\ Manages(u, scenario[id].creator)
    /\ to \notin {"simulated", "verified"}
    /\ CanTransitionScenario(scenario[id].state, to)
    /\ scenario' = [scenario EXCEPT ![id].state = to]

\* The four-eyes rule: a verifier is a reviewer other than the creator.
Verify(id, u) ==
    /\ Stored(id)
    /\ HasPermission(RoleOf[u], "scenario.verify")
    /\ u # scenario[id].creator
    /\ CanTransitionScenario(scenario[id].state, "verified")
    /\ scenario' = [scenario EXCEPT ![id] =
            [state |-> "verified", creator |-> @.creator, input |-> @.input,
             verifier |-> u]]

Next == \E id \in Ids, u \in Users :
            \/ \E i \in Inputs : Create(id, u, i)
            \/ Simulate(id, u)
            \/ \E to \in ScenarioStates : Move(id, u, to)
            \/ Verify(id, u)

Spec == Init /\ [][Next]_scenario
=============================================================================
