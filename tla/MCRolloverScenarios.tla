----------------------- MODULE MCRolloverScenarios -----------------------
(***************************************************************************)
(* A small instance of RolloverScenarios: an owner who creates, an         *)
(* administrator who may also verify, a reviewer who only verifies.        *)
(***************************************************************************)
EXTENDS RolloverInvariant, TLC

CONSTANTS w1, w2, owner, admin, reviewer, s1, s2, s3, in1, in2, in3,
          k1, k2, res1, res2

MCRoleOf == (owner :> "service_owner") @@ (admin :> "admin")
            @@ (reviewer :> "security_reviewer")

\* Two of three inputs have the same result.
MCEvaluate == [i \in Inputs |-> IF i = in1 THEN res1 ELSE res2]

\* One scenario of the administrator's was simulated by the seed.
SeedRow == [state |-> "simulated", creator |-> admin, input |-> in1,
            result |-> res1, key |-> k1, verifier |-> NoUser, replayed |-> FALSE]

Seeded == {[id \in Ids |-> IF id = s1 THEN SeedRow ELSE NoScenario]}

MCSymmetry == Permutations({w1, w2})
=============================================================================
