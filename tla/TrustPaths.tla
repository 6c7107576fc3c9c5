---------------------------- MODULE TrustPaths ----------------------------
(***************************************************************************)
(* The offline simulation: algorithm.Simulate over one frozen snapshot.    *)
(* At each critical time of the overlap window it evaluates every active   *)
(* service twice: on its own, is some certificate chain acceptable, and    *)
(* along its dependencies, is everything it relies on reachable.  The      *)
(* second is a depth-first search, here one call or return at a time.      *)
(* Ids are numbers, because the code tries chains and dependencies in      *)
(* their order; texts are reduced to what they say.                        *)
(***************************************************************************)
EXTENDS DirectTrust, Sequences

CONSTANT Snapshots   \* the frozen inputs that are simulated

ASSUME SnapshotsAssumption == \A s \in Snapshots : WellFormed(s)

VARIABLES
    snapshot,    \* the frozen input
    points,      \* the critical times not evaluated yet
    evidence,    \* the timepoints evaluated, in order; the last one may be partial
    stack,       \* the calls of resolveService that are open, the outermost first
    broken,      \* the path an unreachable call returns, or empty
    outcome      \* what Simulate has to say so far

vars == <<snapshot, points, evidence, stack, broken, outcome>>

Frame == [id : Nat, left : SUBSET Nat]   \* left: dependencies not resolved yet
Item == [reachable : BOOLEAN, chain : Nat, path : Seq(Nat)]
Timepoint(s) == [at : Int, services : [Active(s) -> Item]]

\* Evidence, open calls and the path returned always have their types.
TypeOK ==
    /\ snapshot \in Snapshots
    /\ points \subseteq CriticalInstants(snapshot)
    /\ evidence \in Seq(Timepoint(snapshot))
    /\ stack \in Seq(Frame)
    /\ broken \in Seq(Nat)
    /\ outcome \in {"none", "invalid", "evaluating", "all reachable", "failures"}

Init ==
    /\ snapshot \in Snapshots
    /\ points = {}
    /\ evidence = <<>>
    /\ stack = <<>> /\ broken = <<>>
    /\ outcome = "none"

First(x, S) == x \in S /\ \A y \in S : x <= y

At == evidence[Len(evidence)].at

\* A service not resolved yet: the path of one that is has the service on it.
Pending == [reachable |-> FALSE, chain |-> 0, path |-> <<>>]

ResolvedAt(i) == {id \in Active(snapshot) : evidence[i].services[id].path # <<>>}

Resolved == ResolvedAt(Len(evidence))

\* Between two calls of resolveService by Simulate.
BetweenCalls == outcome = "evaluating" /\ stack = <<>> /\ broken = <<>>

PointDone == evidence # <<>> => Resolved = Active(snapshot)

----------------------------------------------------------------------------
(* A service with all it depends on *)

\* Mutant: a retired dependency is skipped.
ActiveDependencies(id) == snapshot.services[id].deps \intersect Active(snapshot)

Dependencies(id) == snapshot.services[id].deps

\* currentPath of the innermost of the open calls; its members are visiting.
Path(open) == [k \in 1 .. Len(open) |-> open[k].id]

\* The service does not fail on its own, and is not visiting.
Enters(id, open) ==
    ~ Fails(snapshot, id, At) /\ \A k \in 1 .. Len(open) : open[k].id # id

\* resolveService(id), called from the open ones.
Call(id, open) ==
    \/ /\ Enters(id, open)
       /\ stack' = Append(open, [id |-> id, left |-> Dependencies(id)])
       /\ UNCHANGED broken
    \/ /\ ~ Enters(id, open)
       /\ stack' = open
       /\ broken' = Append(Path(open), id)

Top == stack[Len(stack)]

Popped == SubSeq(stack, 1, Len(stack) - 1)

\* Simulate appends what resolveService returned for one service.
Record(id, reachable, path) ==
    LET item == [reachable |-> reachable, path |-> path,
                 chain |-> EvaluateDirect(snapshot, snapshot.services[id], At).chain]
    IN  evidence' = [evidence EXCEPT ![Len(evidence)].services[id] = item]

\* The loop over the dependencies calls for the next one.
ResolveDependency(id) ==
    /\ broken = <<>> /\ stack # <<>>
    /\ First(id, Top.left)
    /\ Call(id, [stack EXCEPT ![Len(stack)].left = @ \ {id}])
    /\ UNCHANGED <<snapshot, points, evidence, outcome>>

\* Every dependency is reachable: so is the service.
ReturnReachable ==
    /\ broken = <<>> /\ stack # <<>>
    /\ Top.left = {}
    /\ stack' = Popped
    /\ \/ Len(stack) = 1 /\ Record(Top.id, TRUE, Path(stack))
       \/ Len(stack) > 1 /\ UNCHANGED evidence
    /\ UNCHANGED <<snapshot, points, broken, outcome>>

\* Mutant: the path of the caller is reported, without the dependency.
PathOfCaller(path, dependencyPath) == path

\* The path reported with an unreachable service: its first broken dependency's.
PathOf(path, dependencyPath) == dependencyPath

\* The first unreachable dependency decides.
ReturnBroken ==
    /\ broken # <<>>
    /\ \/ /\ stack # <<>>
          /\ stack' = Popped
          /\ broken' = PathOf(Path(stack), broken)
          /\ UNCHANGED evidence
       \/ /\ stack = <<>>
          /\ Record(broken[1], FALSE, broken)
          /\ broken' = <<>>
          /\ UNCHANGED stack
    /\ UNCHANGED <<snapshot, points, outcome>>

----------------------------------------------------------------------------
(* The simulation *)

Reject ==
    /\ outcome = "none" /\ ~ Valid(snapshot)
    /\ outcome' = "invalid"
    /\ UNCHANGED <<snapshot, points, evidence, stack, broken>>

Start ==
    /\ outcome = "none" /\ Valid(snapshot)
    /\ points' = CriticalInstants(snapshot)
    /\ outcome' = "evaluating"
    /\ UNCHANGED <<snapshot, evidence, stack, broken>>

\* The next of the critical times, which criticalTimes has sorted.
BeginPoint(at) ==
    /\ BetweenCalls /\ PointDone
    /\ First(at, points)
    /\ points' = points \ {at}
    /\ evidence' = Append(evidence,
                       [at |-> at, services |-> [id \in Active(snapshot) |-> Pending]])
    /\ UNCHANGED <<snapshot, stack, broken, outcome>>

\* The next of the active services.
ResolveService(id) ==
    /\ BetweenCalls /\ ~ PointDone
    /\ First(id, Active(snapshot) \ Resolved)
    /\ Call(id, <<>>)
    /\ UNCHANGED <<snapshot, points, evidence, outcome>>

\* The affected services: every unreachable one at every time.
Affected == {item \in (DOMAIN evidence) \X Active(snapshot) :
                ~ evidence[item[1]].services[item[2]].reachable}

\* explain: its first sentence is what matters here.
Explain ==
    /\ BetweenCalls /\ PointDone /\ points = {}
    /\ outcome' = IF Affected = {} THEN "all reachable" ELSE "failures"
    /\ UNCHANGED <<snapshot, points, evidence, stack, broken>>

Next ==
    \/ Reject \/ Start \/ Explain
    \/ \E at \in points : BeginPoint(at)
    \/ \E id \in Active(snapshot) : ResolveService(id)
    \/ stack # <<>> /\ \E id \in Top.left : ResolveDependency(id)
    \/ ReturnReachable \/ ReturnBroken

Spec == Init /\ [][Next]_vars

----------------------------------------------------------------------------
(* Properties *)

\* The depth-first resolution finds a service reachable exactly when it has
\* a support: shared dependencies, retired ones and the order of the ids make
\* no difference.
ReachabilityIsSupport ==
    \A i \in DOMAIN evidence : \A id \in ResolvedAt(i) :
        evidence[i].services[id].reachable
            <=> Supported(snapshot, id, evidence[i].at)

Unsupported(s, id, at) == {d \in s.services[id].deps : ~ Supported(s, d, at)}

\* A path that begins at a service, goes on from each to the first of its
\* dependencies that has no support, and ends at the first service on it that
\* fails on its own.
LeadsToCause(s, path, id, at) ==
    /\ path # <<>> /\ path[1] = id
    /\ \A k \in 1 .. Len(path) - 1 :
          ~ Fails(s, path[k], at) /\ First(path[k + 1], Unsupported(s, path[k], at))
    /\ Fails(s, path[Len(path)], at)

\* The path reported with an affected service leads to the cause, though a
\* dependency is found to have no support only when its call returns.
BrokenPathsLeadToCause ==
    \A i \in DOMAIN evidence : \A id \in ResolvedAt(i) :
        ~ evidence[i].services[id].reachable =>
            LeadsToCause(snapshot, evidence[i].services[id].path, id, evidence[i].at)

\* More candidate chains never make a reachable service unreachable, nor let
\* a later chain be selected, though they are tried before it is known that
\* another one is acceptable.
CandidatesOnlyHelp ==
    \A i \in DOMAIN evidence : \A id \in ResolvedAt(i) :
        LET more == EvaluateDirect(AllCandidates(snapshot), snapshot.services[id],
                                   evidence[i].at)
        IN  evidence[i].services[id].reachable =>
                more.reachable /\ more.chain <= evidence[i].services[id].chain

ReachableThroughout == \A at \in Window(snapshot) : ReachableAt(snapshot, at)

\* The critical times are enough, as far as the anchors go: when no chain
\* begins or ends within the window, services reachable at the critical times
\* are reachable at every time from a minute before the overlap until a
\* minute after it.
CriticalTimesSuffice ==
    /\ outcome = "all reachable"
    /\ ChainsOutlastWindow(snapshot)
    => ReachableThroughout

----------------------------------------------------------------------------
(* What the code says and does not do *)

\* "All active service trust paths remain reachable before, during, and after
\* the proposed overlap window."
ExplanationHolds == outcome = "all reachable" => ReachableThroughout

----------------------------------------------------------------------------
(* The inductive invariant *)

\* Nothing is evaluated before the snapshot was accepted, no call is open but
\* within a timepoint, and the timepoints come in order.
Phases ==
    /\ outcome \in {"none", "invalid"} => evidence = <<>>
    /\ outcome \notin {"none", "invalid"} =>
          /\ Valid(snapshot)
          /\ CriticalInstants(snapshot) =
                points \union {evidence[i].at : i \in DOMAIN evidence}
    /\ stack # <<>> \/ broken # <<>> => outcome = "evaluating" /\ evidence # <<>>
    /\ \A i \in DOMAIN evidence :
          /\ \A j \in DOMAIN evidence : i < j => evidence[i].at < evidence[j].at
          /\ \A at \in points : evidence[i].at < at

\* Every timepoint but the last one has all active services.
Complete ==
    /\ \A i \in 1 .. Len(evidence) - 1 :
          ResolvedAt(i) = Active(snapshot)
    /\ outcome \in {"all reachable", "failures"} =>
          /\ PointDone /\ points = {}
          /\ outcome = "all reachable" <=>
                \A i \in DOMAIN evidence : \A id \in Active(snapshot) :
                    evidence[i].services[id].reachable

\* The dependency that an open call waits for, or that has just returned.
Called(k) ==
    IF k < Len(stack) THEN {stack[k + 1].id}
    ELSE IF broken # <<>> THEN {broken[k + 1]} ELSE {}

\* A service whose dependencies are resolved does not fail on its own.  The one
\* called is before all that are left, and the others done are supported.
Waits(s, at, call, called) ==
    LET deps == s.services[call.id].deps
    IN  /\ ~ Fails(s, call.id, at)
        /\ call.left \union called \subseteq deps
        /\ \A c \in called, d \in call.left : c < d
        /\ \A d \in deps \ call.left : Supported(s, d, at) \/ d \in called

StackHolds == \A k \in 1 .. Len(stack) : Waits(snapshot, At, stack[k], Called(k))

\* A path on its way up runs along the open calls.  It leads to its cause from
\* the call that returned it, which is not supported.
BrokenHolds ==
    broken # <<>> =>
        /\ broken[1] \in Active(snapshot)
        /\ Len(stack) < Len(broken)
        /\ \A k \in 1 .. Len(stack) : broken[k] = stack[k].id
        /\ ~ Supported(snapshot, broken[Len(stack) + 1], At)
        /\ \A k \in Len(stack) + 1 .. Len(broken) - 1 :
              /\ ~ Fails(snapshot, broken[k], At)
              /\ First(broken[k + 1], Unsupported(snapshot, broken[k], At))
        /\ Fails(snapshot, broken[Len(broken)], At)

\* What is recorded was selected and is true.
Selected ==
    \A i \in DOMAIN evidence : \A id \in ResolvedAt(i) :
        LET item   == evidence[i].services[id]
            direct == EvaluateDirect(snapshot, snapshot.services[id], evidence[i].at)
        IN  /\ item.chain = direct.chain
            /\ item.reachable => direct.reachable /\ item.path = <<id>>

IInv ==
    /\ TypeOK /\ Phases /\ Complete
    /\ StackHolds /\ BrokenHolds
    /\ Selected /\ ReachabilityIsSupport /\ BrokenPathsLeadToCause
=============================================================================
