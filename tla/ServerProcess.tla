--------------------------- MODULE ServerProcess ---------------------------
(***************************************************************************)
(* cmd/server: a process comes up (StartupSeed), serves requests through   *)
(* rate limiters it keeps in memory (RateLimiter), and goes down: drained  *)
(* on a signal, or at once.  The database outlives it, the limiters do     *)
(* not; two servers share the one and nothing of the other.                *)
(***************************************************************************)
EXTENDS StartupSeed, RateLimiter

\* Every process has limiters and goroutines of its own: a key, and a call,
\* is a pair of its server and what tells it from others there.
ASSUME OwnMemory == \A x \in Keys \union Calls : x[1] \in Servers

vars == <<startVars, limiterVars>>

Init == StartInit /\ LimiterInit

\* The memory of a process ends with it, requests in flight included.
Forget(s) ==
    /\ buckets' = [k \in DOMAIN buckets |-> IF k[1] = s THEN NoBucket ELSE buckets[k]]
    /\ call' = [c \in DOMAIN call |-> IF c[1] = s THEN NoCall ELSE call[c]]
    /\ log' = [k \in DOMAIN log |-> IF k[1] = s THEN <<>> ELSE log[k]]
    /\ UNCHANGED now

\* The listener is open: a request enters the limiter.
Accept(g, k) ==
    /\ g[1] = k[1] /\ At(g[1], "serving")
    /\ ReadClock(g, k)
    /\ UNCHANGED startVars

\* A goroutine goes on, also while the server drains.
Pass(g) == Count(g) /\ UNCHANGED startVars

Boot(s) == ComeUp(s) /\ UNCHANGED limiterVars

Kill(s) == Stop(s) /\ Forget(s)

\* SIGTERM: no request is accepted any more.
Signal(s) ==
    /\ At(s, "serving")
    /\ faults < MaxFaults
    /\ faults' = faults + 1
    /\ server' = [server EXCEPT ![s].stage = "draining"]
    /\ UNCHANGED <<users, copies, limiterVars>>

\* server.Shutdown returns: no request is left, or ShutdownTimeout is over.
Shutdown(s) ==
    /\ At(s, "draining")
    /\ Exit(s) /\ Forget(s)
    /\ UNCHANGED <<users, copies, faults>>

TimePasses == Tick /\ UNCHANGED startVars

\* The bounds on time and faults are reached: the modelled part is over.
BoundsReached ==
    /\ now = MaxTime /\ faults = MaxFaults
    /\ \A s \in Servers : At(s, "serving")
    /\ \A g \in Calls : call[g] = NoCall
    /\ UNCHANGED vars

Next ==
    \/ \E s \in Servers : Boot(s) \/ Kill(s) \/ Signal(s) \/ Shutdown(s)
    \/ \E g \in Calls : Pass(g) \/ \E k \in Keys : Accept(g, k)
    \/ TimePasses
    \/ BoundsReached

\* The supervisor starts a process that ended, one that comes up goes on,
\* and Shutdown returns at its timeout at the latest.
Fairness ==
    \A s \in Servers : WF_vars(Boot(s)) /\ WF_vars(Shutdown(s))

Spec == Init /\ [][Next]_vars /\ Fairness

----------------------------------------------------------------------------
(* Properties *)

\* When servers are stopped finitely often, every one of them ends up serving:
\* a start that fails because another server was faster is repeated and finds
\* what the other one made.
EveryServerServes == \A s \in Servers : <>[] At(s, "serving")
=============================================================================
