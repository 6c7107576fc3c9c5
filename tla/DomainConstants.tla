-------------------------- MODULE DomainConstants --------------------------
(***************************************************************************)
(* The shared vocabulary of internal/constants: roles and what each may    *)
(* do, and the legal moves of scenarios and of certificate chains.         *)
(***************************************************************************)

Roles == {"admin", "pki_operator", "service_owner", "security_reviewer", "auditor"}

Permissions == {"read", "anchor.write", "chain.write", "dependency.write",
                "scenario.write", "scenario.run", "scenario.verify", "audit.read"}

\* The permission table: role -> what HasPermission grants it.
Granted ==
    [role \in Roles |->
        CASE role = "admin"         -> Permissions
          [] role = "pki_operator"  -> Permissions \ {"scenario.verify", "audit.read"}
          [] role = "service_owner" -> {"read", "dependency.write", "scenario.write",
                                        "scenario.run"}
          [] role = "security_reviewer" -> {"read", "scenario.verify", "audit.read"}
          [] role = "auditor"       -> {"read", "audit.read"}]

HasPermission(role, permission) == permission \in Granted[role]

ScenarioStates == {"draft", "simulated", "ready", "executing", "verified", "rollback"}

CanTransitionScenario(from, to) ==
    <<from, to>> \in { <<"draft", "simulated">>,
                       <<"simulated", "ready">>, <<"simulated", "draft">>,
                       <<"ready", "executing">>, <<"ready", "draft">>,
                       <<"executing", "verified">>, <<"executing", "rollback">> }

ChainStates == {"imported", "validated", "deprecated", "revoked"}

CanTransitionChain(from, to) ==
    <<from, to>> \in { <<"imported", "validated">>, <<"imported", "revoked">>,
                       <<"validated", "deprecated">>, <<"validated", "revoked">>,
                       <<"deprecated", "revoked">> }
=============================================================================
