---------------------------- MODULE DirectTrust ----------------------------
(***************************************************************************)
(* One instant of the offline simulation, as far as it takes no search:    *)
(* which snapshots are accepted, which instants of the overlap window are  *)
(* looked at, which anchors count at an instant, and whether a service     *)
(* finds an acceptable chain on its own.  TrustPaths is the simulation.    *)
(***************************************************************************)
EXTENDS DependencyGraphs, Integers, FiniteSetsExt

CONSTANTS
    Minute,    \* time.Minute, in the unit of the snapshots' times
    ZeroTime   \* the zero value of time.Time: a time that was not given

ASSUME MinuteAssumption == Minute \in Nat

\* The shape of a frozen snapshot: ids are numbers, times as well.
WellFormed(s) ==
    /\ {"old", "new", "anchors", "start", "end", "candidates", "simulationTime",
        "chains", "services"} \subseteq DOMAIN s
    /\ s.start \in Int /\ s.end \in Int /\ s.simulationTime \in Int
    /\ DOMAIN s.chains \subseteq Nat
    /\ \A id \in DOMAIN s.chains : s.chains[id].from \in Int /\ s.chains[id].to \in Int
    /\ DOMAIN s.services \subseteq Nat
    /\ \A id \in DOMAIN s.services : s.services[id].deps \subseteq Nat

Graph(s) == [id \in DOMAIN s.services |-> s.services[id].deps]

\* ValidateSnapshot; CycleSearch is the search it makes.
Valid(s) ==
    /\ 0 \notin {s.old, s.new} /\ s.old # s.new
    /\ s.start < s.end
    /\ s.simulationTime # ZeroTime
    /\ {s.old, s.new} \subseteq s.anchors
    /\ s.candidates \subseteq DOMAIN s.chains
    /\ Acyclic(Graph(s))

\* Mutant: the time after the overlap is forgotten.
InstantsTillOverlap(s) ==
    {s.start - Minute, s.start, s.start + (s.end - s.start) \div 2,
     s.end, s.simulationTime}

\* criticalTimes: the times a simulation looks at.
CriticalInstants(s) ==
    {s.start - Minute, s.start, s.start + (s.end - s.start) \div 2,
     s.end, s.end + Minute, s.simulationTime}

\* activeAnchors: the old, then both with the ends included, then the new.
ActiveAnchors(s, at) ==
    (IF at <= s.end THEN {s.old} ELSE {}) \union (IF at >= s.start THEN {s.new} ELSE {})

----------------------------------------------------------------------------
(* One service on its own *)

\* The checks of one chain in evaluateDirect, for a service at a time.
Accepted(s, service, at, chain) ==
    /\ chain.state \notin {"revoked", "deprecated"}
    /\ chain.from <= at /\ at < chain.to
    /\ chain.valid
    /\ chain.anchor \in ActiveAnchors(s, at)
    /\ chain.anchor \in service.trust

\* The chains tried, in the order of their ids: the configured one and the
\* candidates for the same leaf.
Options(s, service) ==
    {id \in ({service.chain} \union s.candidates) \intersect DOMAIN s.chains :
        s.chains[id].leaf = s.chains[service.chain].leaf}

Unreachable == [reachable |-> FALSE, chain |-> 0]

\* Mutant: the first chain decides.
EvaluateFirst(s, service, at) ==
    LET Tried == IF service.chain \in DOMAIN s.chains THEN Options(s, service) ELSE {}
    IN  IF Tried # {} /\ Accepted(s, service, at, s.chains[Min(Tried)])
        THEN [reachable |-> TRUE, chain |-> Min(Tried)]
        ELSE Unreachable

\* evaluateDirect: the first acceptable chain is selected.
EvaluateDirect(s, service, at) ==
    LET Tried == IF service.chain \in DOMAIN s.chains THEN Options(s, service) ELSE {}
        Found == {id \in Tried : Accepted(s, service, at, s.chains[id])}
    IN  IF Found = {} THEN Unreachable
        ELSE [reachable |-> TRUE, chain |-> Min(Found)]

Active(s) == {id \in DOMAIN s.services : s.services[id].state = "active"}

\* A service that is absent or retired, or finds no chain of its own.
Fails(s, id, at) ==
    id \notin Active(s) \/ ~ EvaluateDirect(s, s.services[id], at).reachable

----------------------------------------------------------------------------
(* What reachability means *)

\* Without a search: a set of active services that holds the service and all
\* its members depend on, each acceptable on its own.
Supported(s, id, at) ==
    \E S \in SUBSET Active(s) :
        /\ id \in S
        /\ \A m \in S : ~ Fails(s, m, at) /\ s.services[m].deps \subseteq S

Window(s) == s.start - Minute .. s.end + Minute

ReachableAt(s, at) == \A id \in Active(s) : Supported(s, id, at)

\* The snapshot as it would be with every frozen chain a candidate.
AllCandidates(s) == [s EXCEPT !.candidates = DOMAIN s.chains]

\* No chain begins or ends while the window lasts.
ChainsOutlastWindow(s) ==
    \A id \in DOMAIN s.chains :
        {s.chains[id].from, s.chains[id].to}
            \intersect (Window(s) \ {s.start - Minute}) = {}
=============================================================================
