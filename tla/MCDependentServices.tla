----------------------- MODULE MCDependentServices -----------------------
(***************************************************************************)
(* A small instance of DependentServices: one service owner and one        *)
(* operator, two teams, and two services, the second stored or not yet.    *)
(***************************************************************************)
EXTENDS DependentServices, TLC

CONSTANTS w1, w2, owner, operator, teamA, teamB, gateway, billing,
          chain1, chain9

MCRoleOf == (owner :> "service_owner") @@ (operator :> "pki_operator")
MCTeamOf == (owner :> teamA) @@ (operator :> teamB)

Body(team, chain, edges) == [team |-> team, chain |-> chain, edges |-> edges]

\* Either dependency, none, the other team, and a chain that does not exist.
MCPayloads ==
    {Body(teamA, chain1, edges) : edges \in {{}, {gateway}, {billing}}}
        \union {Body(teamB, chain1, {}), Body(teamA, chain9, {})}

SeedRow(edges) == [team |-> teamA, chain |-> chain1, edges |-> edges,
                   state |-> "active"]

\* Both services, no longer dependent on each other, or the first alone.
Seeded ==
    {[c \in Codes |-> IF c \in present THEN SeedRow({}) ELSE NoService] :
        present \in {{gateway}, {gateway, billing}}}

MCSymmetry == Permutations({w1, w2})
=============================================================================
