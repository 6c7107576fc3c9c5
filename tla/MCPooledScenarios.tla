------------------------- MODULE MCPooledScenarios -------------------------
(***************************************************************************)
(* The instance of MCRolloverScenarios over a pool of one connection and   *)
(* over one that never runs out.  It starts as the server does, or late:   *)
(* two simulations passed their checks long ago, and each asks for the key *)
(* that the other's draft has been given since.                            *)
(***************************************************************************)
EXTENDS MCRolloverScenarios, PooledScenarios

CONSTANT k3

\* An owner, and an administrator who may also verify.
PooledRoleOf == [u \in Users |-> MCRoleOf[u]]

\* A draft that was simulated under a key and reopened.
Reopened(i, k) == SimulatedRow(DraftRow(admin, i), MCEvaluate[i], k)

Redrafted(i, k) == [Reopened(i, k) EXCEPT !.state = "draft"]

Step(id, action, before, after) ==
    [user |-> admin, id |-> id, action |-> action, before |-> before, after |-> after]

\* The requests before: s1, seeded with k1, is reopened, and w1 checks its
\* simulation under k2; s2 is created, and w2 checks its simulation under k3;
\* both then wait, while a third goroutine simulates and reopens s1 under k3
\* and s2 under k2, answers, and serves nobody any more.
LateAudit ==
    << Step(s1, "transition", SeedRow, Redrafted(in1, k1)),
       Step(s2, "create", NoScenario, DraftRow(admin, in2)),
       Step(s1, "simulate", Redrafted(in1, k1), Reopened(in1, k3)),
       Step(s1, "transition", Reopened(in1, k3), Redrafted(in1, k3)),
       Step(s2, "simulate", DraftRow(admin, in2), Reopened(in2, k2)),
       Step(s2, "transition", Reopened(in2, k2), Redrafted(in2, k2)) >>

LateRequest(id, k, seen) ==
    [Idle EXCEPT !.stage = "checked", !.op = "simulate", !.user = admin,
                 !.id = id, !.key = k, !.seen = seen]

LateInit ==
    /\ rows = (s1 :> Redrafted(in1, k3)) @@ (s2 :> Redrafted(in2, k2))
    /\ audit = LateAudit
    /\ req = [w \in Workers |->
                CASE w = w1 -> LateRequest(s1, k2, Redrafted(in1, k1))
                  [] w = w2 -> LateRequest(s2, k3, DraftRow(admin, in2))
                  [] OTHER  -> Idle]
    /\ poolSize \in PoolSizes /\ conns = {}

MCSpec == (PooledInit \/ LateInit) /\ [][PooledNext]_pooledVars /\ Fairness
=============================================================================
