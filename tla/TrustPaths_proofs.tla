------------------------- MODULE TrustPaths_proofs -------------------------
(***************************************************************************)
(* The simulation, for every snapshot and whatever its size: the search    *)
(* finds a service reachable exactly when it has a support, every path it  *)
(* reports leads to its cause, more candidate chains take nothing away,    *)
(* and the instants looked at stand for the whole window as far as the     *)
(* anchors go.  The calls open follow dependencies, of which an accepted   *)
(* snapshot has no cycle: so a service never meets itself, and the         *)
(* dependencies behind an open call are supported.                         *)
(***************************************************************************)
EXTENDS TrustPaths, WellFoundedInduction, TLAPS

(* One service on its own *)

\* A set of numbers has a least one, which is the one Min chooses.
LEMMA LeastElement ==
    ASSUME NEW T \in SUBSET Nat, T # {}
    PROVE  Min(T) \in T /\ \A x \in T : Min(T) <= x
<1>1. PICK x \in T : \A y \in T : <<y, x>> \notin OpToRel(<, Nat)
  BY WFMin, NatLessThanWellFounded, Zenon
<1>2. \A y \in T : ~ (y < x)
  BY <1>1, Zenon DEF OpToRel
<1>3. \A y \in T : x <= y
  BY <1>2
<1> QED BY <1>3 DEF Min

\* The chains evaluateDirect could select.
Acceptable(s, service, at) ==
    {id \in DOMAIN s.chains :
        /\ service.chain \in DOMAIN s.chains
        /\ id \in Options(s, service)
        /\ Accepted(s, service, at, s.chains[id])}

\* A service finds a chain when there is one to find, and then the first.
LEMMA DirectSelects ==
    ASSUME NEW s, WellFormed(s), NEW service, NEW at
    PROVE  LET direct == EvaluateDirect(s, service, at)
           IN  /\ direct.reachable \in BOOLEAN /\ direct.chain \in Nat
               /\ direct.reachable <=> Acceptable(s, service, at) # {}
               /\ direct.reachable =>
                     /\ direct.chain \in Acceptable(s, service, at)
                     /\ \A id \in Acceptable(s, service, at) : direct.chain <= id
<1> DEFINE Tried == IF service.chain \in DOMAIN s.chains THEN Options(s, service) ELSE {}
           Found == {id \in Tried : Accepted(s, service, at, s.chains[id])}
           direct == EvaluateDirect(s, service, at)
<1>1. direct = IF Found = {} THEN Unreachable
                             ELSE [reachable |-> TRUE, chain |-> Min(Found)]
  BY DEF EvaluateDirect
<1>2. Found = Acceptable(s, service, at)
  BY DEF Acceptable, Options
<1>3. Found \in SUBSET Nat
  BY <1>2 DEF Acceptable, WellFormed
<1>4. CASE Found = {}
  <2>1. direct.reachable = FALSE /\ direct.chain = 0
    BY <1>1, <1>4 DEF Unreachable
  <2> HIDE DEF Found, direct
  <2>2. direct.reachable \in BOOLEAN /\ ~ direct.reachable
    BY <2>1, Zenon
  <2>3. direct.chain \in Nat /\ Acceptable(s, service, at) = {}
    BY <1>2, <1>4, <2>1
  <2> QED BY <2>2, <2>3, Zenon DEF direct
<1>5. CASE Found # {}
  <2>1. direct.reachable = TRUE /\ direct.chain = Min(Found)
    BY <1>1, <1>5
  <2>2. Min(Found) \in Found /\ \A x \in Found : Min(Found) <= x
    BY <1>3, <1>5, LeastElement
  <2> HIDE DEF Found, direct
  <2>3. /\ direct.reachable \in BOOLEAN /\ direct.chain \in Nat
        /\ direct.reachable <=> Found # {}
        /\ direct.chain \in Found /\ \A x \in Found : direct.chain <= x
    BY <1>3, <1>5, <2>1, <2>2
  <2> QED BY <1>2, <2>3, Zenon DEF direct
<1> QED BY <1>4, <1>5

\* Once a service finds a chain, it finds one whatever else is a candidate,
\* and no later one.
LEMMA CandidatesKeepChain ==
    ASSUME NEW s, WellFormed(s), NEW service, NEW at,
           EvaluateDirect(s, service, at).reachable
    PROVE  LET more == EvaluateDirect(AllCandidates(s), service, at)
           IN  /\ more.reachable
               /\ more.chain <= EvaluateDirect(s, service, at).chain
<1> DEFINE all == AllCandidates(s)
<1>1. /\ all.services = s.services /\ all.chains = s.chains
      /\ all.candidates = DOMAIN s.chains
      /\ all.old = s.old /\ all.new = s.new
      /\ all.start = s.start /\ all.end = s.end
      /\ all.simulationTime = s.simulationTime
      /\ DOMAIN all = DOMAIN s
  BY DEF AllCandidates, WellFormed
<1> HIDE DEF all
<1>2. WellFormed(all)
  BY <1>1 DEF WellFormed
<1>3. ActiveAnchors(all, at) = ActiveAnchors(s, at)
  BY <1>1 DEF ActiveAnchors
<1>4. Acceptable(s, service, at) \subseteq Acceptable(all, service, at)
  BY <1>1, <1>3 DEF Acceptable, Options, Accepted
<1>5. /\ EvaluateDirect(s, service, at).chain \in Acceptable(s, service, at)
      /\ Acceptable(s, service, at) # {}
  BY DirectSelects
<1>6. /\ EvaluateDirect(all, service, at).reachable
      /\ \A id \in Acceptable(all, service, at) :
            EvaluateDirect(all, service, at).chain <= id
  BY <1>2, <1>4, <1>5, DirectSelects
<1> QED BY <1>4, <1>5, <1>6 DEF all

----------------------------------------------------------------------------
(* The instants of the window *)

\* A chain that neither begins nor ends within the window is accepted at one
\* of its instants as at another under the same anchors.
LEMMA SameAnchorsSameChain ==
    ASSUME NEW s, WellFormed(s), ChainsOutlastWindow(s),
           NEW service, NEW id \in DOMAIN s.chains,
           NEW at \in Window(s), NEW instant \in Window(s),
           ActiveAnchors(s, at) = ActiveAnchors(s, instant),
           Accepted(s, service, instant, s.chains[id])
    PROVE  Accepted(s, service, at, s.chains[id])
<1> DEFINE from == s.chains[id].from
           to   == s.chains[id].to
<1>1. /\ from \in Int /\ to \in Int /\ s.start \in Int /\ s.end \in Int
      /\ Minute \in Nat
  BY MinuteAssumption DEF WellFormed
<1>2. /\ from \notin Window(s) \ {s.start - Minute}
      /\ to \notin Window(s) \ {s.start - Minute}
  BY DEF ChainsOutlastWindow
<1>3. from <= instant /\ instant < to
  BY DEF Accepted
<1>4. from <= at /\ at < to
  BY <1>1, <1>2, <1>3 DEF Window
<1> QED BY <1>4 DEF Accepted

\* Three of the instants show every set of anchors the window knows: the old
\* one before the overlap, both while it lasts, the new one after it.
LEMMA InstantsShowAnchors ==
    ASSUME NEW s, WellFormed(s), Valid(s), NEW at \in Window(s)
    PROVE  \E instant \in CriticalInstants(s) \intersect Window(s) :
               ActiveAnchors(s, at) = ActiveAnchors(s, instant)
<1>1. /\ s.start \in Int /\ s.end \in Int /\ s.start < s.end /\ Minute \in Nat
      /\ at \in Int /\ s.start - Minute <= at /\ at <= s.end + Minute
  BY MinuteAssumption DEF WellFormed, Valid, Window
<1>2. CASE at < s.start
  <2> DEFINE before == s.start - Minute
  <2>1. before \in CriticalInstants(s) \intersect Window(s)
    BY <1>1 DEF CriticalInstants, Window
  <2>2. before <= s.end /\ ~ before >= s.start /\ at <= s.end /\ ~ at >= s.start
    BY <1>1, <1>2
  <2> QED BY <2>1, <2>2 DEF ActiveAnchors
<1>3. CASE s.start <= at /\ at <= s.end
  <2>1. s.start \in CriticalInstants(s) \intersect Window(s)
    BY <1>1 DEF CriticalInstants, Window
  <2>2. s.start <= s.end /\ s.start >= s.start /\ at <= s.end /\ at >= s.start
    BY <1>1, <1>3
  <2> QED BY <2>1, <2>2 DEF ActiveAnchors
<1>4. CASE s.end < at
  <2> DEFINE after == s.end + Minute
  <2>1. after \in CriticalInstants(s) \intersect Window(s)
    BY <1>1 DEF CriticalInstants, Window
  <2>2. ~ after <= s.end /\ after >= s.start /\ ~ at <= s.end /\ at >= s.start
    BY <1>1, <1>4
  <2> QED BY <2>1, <2>2 DEF ActiveAnchors
<1> QED BY <1>1, <1>2, <1>3, <1>4

\* The instants criticalTimes picks are enough as far as the anchors go: in a
\* snapshot ValidateSnapshot accepts, of which no chain begins or ends within
\* the window, services reachable at those instants are reachable at every
\* time from a minute before the overlap until a minute after it.
THEOREM InstantsSuffice ==
    ASSUME NEW s, WellFormed(s), Valid(s), ChainsOutlastWindow(s),
           \A instant \in CriticalInstants(s) : ReachableAt(s, instant)
    PROVE  \A at \in Window(s) : ReachableAt(s, at)
<1> TAKE at \in Window(s)
<1>1. PICK instant \in CriticalInstants(s) \intersect Window(s) :
        ActiveAnchors(s, at) = ActiveAnchors(s, instant)
  BY InstantsShowAnchors
<1>2. ASSUME NEW id, ~ Fails(s, id, instant)
      PROVE  ~ Fails(s, id, at)
  <2> DEFINE service == s.services[id]
  <2>1. PICK c \in Acceptable(s, service, instant) : TRUE
    BY <1>2, DirectSelects DEF Fails
  <2>2. c \in DOMAIN s.chains /\ Accepted(s, service, instant, s.chains[c])
    BY DEF Acceptable
  <2>3. Accepted(s, service, at, s.chains[c])
    BY <1>1, <2>2, SameAnchorsSameChain
  <2>4. Acceptable(s, service, at) # {}
    BY <2>3 DEF Acceptable
  <2> QED BY <1>2, <2>4, DirectSelects DEF Fails
<1>3. \A id : Supported(s, id, instant) => Supported(s, id, at)
  BY <1>2 DEF Supported
<1>4. ReachableAt(s, instant)
  OBVIOUS
<1> QED BY <1>3, <1>4 DEF ReachableAt

----------------------------------------------------------------------------
(* What a service depends on *)

\* A service has a support exactly when it does not fail on its own and all it
\* depends on has one.
LEMMA SupportUnfolds ==
    ASSUME NEW s, NEW id, NEW at
    PROVE  Supported(s, id, at) <=>
             /\ ~ Fails(s, id, at)
             /\ \A d \in s.services[id].deps : Supported(s, d, at)
<1>1. ASSUME Supported(s, id, at)
      PROVE  ~ Fails(s, id, at) /\ \A d \in s.services[id].deps : Supported(s, d, at)
  BY <1>1 DEF Supported
<1>2. ASSUME ~ Fails(s, id, at), \A d \in s.services[id].deps : Supported(s, d, at)
      PROVE  Supported(s, id, at)
  <2> DEFINE S == {id} \union {m \in Active(s) : Supported(s, m, at)}
  <2>1. S \in SUBSET Active(s) /\ id \in S
    BY <1>2 DEF Fails
  <2>2. \A m : Supported(s, m, at) => m \in S
    BY DEF Supported
  <2>3. ASSUME NEW m \in S
        PROVE  ~ Fails(s, m, at) /\ s.services[m].deps \subseteq S
    <3>1. CASE m = id
      BY <1>2, <2>2, <3>1
    <3>2. CASE Supported(s, m, at)
      <4>1. ~ Fails(s, m, at) /\ \A d \in s.services[m].deps : Supported(s, d, at)
        BY <3>2 DEF Supported
      <4> QED BY <2>2, <4>1
    <3> QED BY <3>1, <3>2
  <2> HIDE DEF S
  <2> QED BY <2>1, <2>3 DEF Supported
<1> QED BY <1>1, <1>2

----------------------------------------------------------------------------
(* The evidence *)

\* What is said of a service at an instant is true.
ItemHolds(s, id, at, item) ==
    LET direct == EvaluateDirect(s, s.services[id], at)
    IN  /\ item.chain = direct.chain
        /\ item.reachable => direct.reachable /\ item.path = <<id>>
        /\ item.reachable <=> Supported(s, id, at)
        /\ ~ item.reachable => LeadsToCause(s, item.path, id, at)

EvidenceHolds ==
    \A i \in DOMAIN evidence : \A id \in ResolvedAt(i) :
        ItemHolds(snapshot, id, evidence[i].at, evidence[i].services[id])

LEMMA EvidenceParts ==
    /\ EvidenceHolds <=> Selected /\ ReachabilityIsSupport /\ BrokenPathsLeadToCause
    /\ EvidenceHolds' <=> Selected' /\ ReachabilityIsSupport' /\ BrokenPathsLeadToCause'
BY DEF EvidenceHolds, ItemHolds, Selected, ReachabilityIsSupport, BrokenPathsLeadToCause

\* The types behind a state of the simulation.
LEMMA Typed ==
    ASSUME TypeOK
    PROVE  /\ WellFormed(snapshot)
           /\ Active(snapshot) \subseteq DOMAIN snapshot.services
           /\ Active(snapshot) \subseteq Nat
           /\ \A id \in Active(snapshot) : Dependencies(id) \subseteq Nat
           /\ Len(evidence) \in Nat /\ DOMAIN evidence = 1 .. Len(evidence)
           /\ evidence # <<>> <=> Len(evidence) >= 1
           /\ \A i \in 1 .. Len(evidence) : evidence[i] \in Timepoint(snapshot)
           /\ Len(stack) \in Nat /\ DOMAIN stack = 1 .. Len(stack)
           /\ stack # <<>> <=> Len(stack) >= 1
           /\ \A k \in 1 .. Len(stack) : stack[k] \in Frame
           /\ Len(broken) \in Nat /\ DOMAIN broken = 1 .. Len(broken)
           /\ broken # <<>> <=> Len(broken) >= 1
           /\ \A k \in 1 .. Len(broken) : broken[k] \in Nat
<1>1. WellFormed(snapshot)
  BY SnapshotsAssumption DEF TypeOK
<1>2. Active(snapshot) \subseteq DOMAIN snapshot.services
  BY DEF Active
<1>3. /\ Active(snapshot) \subseteq Nat
      /\ \A id \in Active(snapshot) : Dependencies(id) \subseteq Nat
  BY <1>1, <1>2 DEF WellFormed, Dependencies
<1>4. evidence \in Seq(Timepoint(snapshot)) /\ stack \in Seq(Frame) /\ broken \in Seq(Nat)
  BY DEF TypeOK
<1>5. \A i \in 1 .. Len(evidence) : evidence[i] \in Timepoint(snapshot)
  <2> HIDE DEF Timepoint
  <2> QED BY <1>4
<1> QED BY <1>1, <1>2, <1>3, <1>4, <1>5

\* Simulate appends what resolveService returned, which is true.
LEMMA RecordKeeps ==
    ASSUME IInv, evidence # <<>>, outcome = "evaluating",
           NEW id \in Active(snapshot), NEW reachable \in BOOLEAN,
           NEW path \in Seq(Nat), path # <<>>,
           reachable <=> Supported(snapshot, id, At),
           IF reachable THEN path = <<id>> ELSE LeadsToCause(snapshot, path, id, At),
           Record(id, reachable, path), UNCHANGED <<snapshot, points, outcome>>
    PROVE  /\ evidence' \in Seq(Timepoint(snapshot))
           /\ At' = At /\ Phases' /\ Complete' /\ EvidenceHolds'
<1> DEFINE n == Len(evidence)
           item == [reachable |-> reachable, path |-> path,
                    chain |-> EvaluateDirect(snapshot, snapshot.services[id], At).chain]
<1>1. evidence' = [evidence EXCEPT ![n].services[id] = item]
  BY DEF Record
<1>2. /\ n \in Nat /\ n >= 1 /\ DOMAIN evidence = 1 .. n
      /\ \A i \in 1 .. n : evidence[i] \in Timepoint(snapshot)
      /\ WellFormed(snapshot)
  BY Typed DEF IInv
<1>3. /\ item \in Item /\ item.path # <<>> /\ item.path = path
      /\ item.chain = EvaluateDirect(snapshot, snapshot.services[id], At).chain
      /\ item.reachable = reachable
  BY <1>2, DirectSelects DEF Item
<1>4. ASSUME NEW i \in 1 .. n
      PROVE  /\ evidence'[i] \in Timepoint(snapshot)
             /\ evidence'[i].at = evidence[i].at
             /\ \A m \in Active(snapshot) :
                   evidence'[i].services[m] =
                       IF i = n /\ m = id THEN item ELSE evidence[i].services[m]
  <2> HIDE DEF item
  <2>1. CASE i = n
    <3> DEFINE services == [evidence[i].services EXCEPT ![id] = item]
    <3>1. evidence'[i] = [evidence[i] EXCEPT !.services = services]
      BY <1>1, <1>2, <2>1
    <3>2. evidence[i].services \in [Active(snapshot) -> Item]
      BY <1>2 DEF Timepoint
    <3>3. /\ services \in [Active(snapshot) -> Item]
          /\ \A m \in Active(snapshot) :
                services[m] = IF m = id THEN item ELSE evidence[i].services[m]
      BY <1>3, <3>2
    <3> HIDE DEF services
    <3>4. /\ evidence'[i] \in Timepoint(snapshot) /\ evidence'[i].at = evidence[i].at
          /\ evidence'[i].services = services
      BY <1>2, <3>1, <3>3 DEF Timepoint
    <3> QED BY <2>1, <3>3, <3>4
  <2>2. CASE i # n
    <3>1. evidence'[i] = evidence[i]
      BY <1>1, <1>2, <2>2
    <3> QED BY <1>2, <2>2, <3>1
  <2> QED BY <2>1, <2>2
<1>5. evidence' \in Seq(Timepoint(snapshot)) /\ Len(evidence') = n /\ DOMAIN evidence' = 1 .. n
  <2>1. evidence' \in [1 .. n -> Timepoint(snapshot)]
    BY <1>1, <1>2, <1>4
  <2> HIDE DEF n
  <2> QED BY <1>2, <2>1
<1> HIDE DEF item
<1>6. evidence' # <<>> /\ At' = At
  <2>1. n \in 1 .. n
    BY <1>2
  <2>2. evidence'[n].at = evidence[n].at
    BY <1>4, <2>1
  <2> QED BY <1>2, <1>5, <2>2 DEF At
<1>7. Phases'
  <2>1. \A i \in 1 .. n : evidence'[i].at = evidence[i].at
    BY <1>4
  <2> HIDE DEF n
  <2> QED BY <1>2, <1>5, <1>6, <2>1 DEF IInv, Phases
<1>8. \A i \in 1 .. n :
        /\ ResolvedAt(i)' = ResolvedAt(i) \union (IF i = n THEN {id} ELSE {})
        /\ i # n => ResolvedAt(i)' = ResolvedAt(i)
  <2>1. ASSUME NEW i \in 1 .. n
        PROVE  ResolvedAt(i)' = {m \in Active(snapshot) : evidence'[i].services[m].path # <<>>}
    BY DEF ResolvedAt
  <2> HIDE DEF n
  <2> QED BY <1>3, <1>4, <2>1 DEF ResolvedAt
<1>9. Complete'
  <2>1. \A i \in 1 .. n - 1 : ResolvedAt(i) = Active(snapshot)
    BY DEF IInv, Complete
  <2>2. \A i \in 1 .. Len(evidence') - 1 : i \in 1 .. n - 1 /\ i \in 1 .. n /\ i # n
    <3> HIDE DEF n
    <3> QED BY <1>2, <1>5
  <2>3. \A i \in 1 .. Len(evidence') - 1 : ResolvedAt(i)' = Active(snapshot)
    BY <1>8, <2>1, <2>2
  <2>4. outcome' \notin {"all reachable", "failures"}
    OBVIOUS
  <2> QED BY <2>3, <2>4 DEF Complete
<1>10. EvidenceHolds'
  <2>1. EvidenceHolds
    BY EvidenceParts DEF IInv
  <2>2. ItemHolds(snapshot, id, At, item)
    <3>1. reachable => EvaluateDirect(snapshot, snapshot.services[id], At).reachable
      BY SupportUnfolds DEF Fails
    <3>2. /\ item.reachable <=> Supported(snapshot, id, At)
          /\ item.reachable => item.path = <<id>>
          /\ ~ item.reachable => LeadsToCause(snapshot, item.path, id, At)
          /\ item.reachable => EvaluateDirect(snapshot, snapshot.services[id], At).reachable
      BY <1>3, <3>1, Zenon
    <3> QED BY <1>3, <3>2, Zenon DEF ItemHolds
  <2> HIDE DEF item
  <2>3. ASSUME NEW i \in 1 .. n, NEW m \in ResolvedAt(i)'
        PROVE  ItemHolds(snapshot, m, evidence'[i].at, evidence'[i].services[m])
    <3>1. m \in Active(snapshot)
      BY <2>3 DEF ResolvedAt
    <3>2. CASE i = n /\ m = id
      BY <1>2, <1>4, <2>2, <3>1, <3>2 DEF At
    <3>3. CASE ~ (i = n /\ m = id)
      <4>1. m \in ResolvedAt(i)
        BY <1>8, <2>3, <3>3
      <4> QED BY <1>2, <1>4, <2>1, <3>1, <3>3, <4>1 DEF EvidenceHolds
    <3> QED BY <3>2, <3>3
  <2> QED BY <1>5, <2>3 DEF EvidenceHolds
<1> QED BY <1>5, <1>6, <1>7, <1>9, <1>10

----------------------------------------------------------------------------
(* The calls *)

\* The open calls when one of them, or Simulate, calls resolveService(id).
Calls(open, id) ==
    /\ open \in Seq(Frame)
    /\ open = <<>> => id \in Active(snapshot)
    /\ \A k \in 1 .. Len(open) :
          LET next == IF k < Len(open) THEN open[k + 1].id ELSE id
          IN  Waits(snapshot, At, open[k], {next})

\* In a snapshot that was accepted no service is met while it is visiting.
LEMMA NeverVisiting ==
    ASSUME Valid(snapshot), NEW open, NEW id, Calls(open, id),
           NEW k \in 1 .. Len(open), open[k].id = id
    PROVE  FALSE
<1> DEFINE S == {open[i].id : i \in k .. Len(open)}
<1>1. Len(open) \in Nat
  BY DEF Calls
<1>2. ASSUME NEW i \in k .. Len(open)
      PROVE  /\ open[i].id \in DOMAIN snapshot.services
             /\ snapshot.services[open[i].id].deps \intersect S # {}
  <2>1. i \in 1 .. Len(open)
    BY <1>1
  <2>2. ~ Fails(snapshot, open[i].id, At)
    BY <2>1 DEF Calls, Waits
  <2>3. PICK next \in S : next \in Dependencies(open[i].id)
    <3>1. CASE i < Len(open)
      <4>1. i + 1 \in k .. Len(open) /\ open[i + 1].id \in Dependencies(open[i].id)
        BY <1>1, <2>1, <3>1 DEF Calls, Waits, Dependencies
      <4> QED BY <4>1
    <3>2. CASE ~ i < Len(open)
      <4>1. id \in Dependencies(open[i].id)
        BY <2>1, <3>2 DEF Calls, Waits, Dependencies
      <4>2. k \in k .. Len(open)
        BY <1>1
      <4> QED BY <4>1, <4>2
    <3> QED BY <3>1, <3>2
  <2> QED BY <2>2, <2>3 DEF Fails, Active, Dependencies
<1>3. S \in SUBSET DOMAIN Graph(snapshot) /\ id \in S
  <2>1. k \in k .. Len(open)
    BY <1>1
  <2> QED BY <1>2, <2>1 DEF Graph
<1>4. \A m \in S : Graph(snapshot)[m] \intersect S # {}
  BY <1>2 DEF Graph
<1> HIDE DEF S
<1> QED BY <1>3, <1>4 DEF Valid, Acyclic

\* A call opens, or returns the path to a service that fails on its own.
LEMMA CallKeeps ==
    ASSUME TypeOK, Valid(snapshot), broken = <<>>, NEW id \in Nat,
           NEW open, Calls(open, id), Call(id, open), UNCHANGED <<snapshot, evidence>>
    PROVE  /\ stack' \in Seq(Frame) /\ broken' \in Seq(Nat)
           /\ StackHolds' /\ BrokenHolds'
<1> DEFINE n == Len(open)
<1>1. /\ n \in Nat /\ open \in Seq(Frame) /\ WellFormed(snapshot)
      /\ \A k \in 1 .. n : open[k] \in Frame
      /\ \A m \in Active(snapshot) : Dependencies(m) \subseteq Nat
  BY Typed DEF Calls
<1>2. At' = At
  BY DEF At
<1>3. \A k \in 1 .. n :
        LET next == IF k < n THEN open[k + 1].id ELSE id
        IN  Waits(snapshot, At, open[k], {next})
  BY DEF Calls
<1>4. CASE Enters(id, open) /\ stack' = Append(open, [id |-> id, left |-> Dependencies(id)])
           /\ UNCHANGED broken
  <2> DEFINE frame == [id |-> id, left |-> Dependencies(id)]
  <2>1. ~ Fails(snapshot, id, At)
    BY <1>4 DEF Enters
  <2>2. frame \in Frame /\ Waits(snapshot, At, frame, {})
    BY <1>1, <2>1 DEF Fails, Frame, Waits, Dependencies
  <2>3. /\ stack' \in Seq(Frame) /\ Len(stack') = n + 1
        /\ stack'[n + 1] = frame /\ frame.id = id
        /\ \A k \in 1 .. n : stack'[k] = open[k]
    BY <1>1, <1>4, <2>2
  <2>4. broken' = <<>>
    BY <1>4
  <2> HIDE DEF n, frame
  <2>5. ASSUME NEW k \in 1 .. n + 1
        PROVE  Waits(snapshot, At, stack'[k], Called(k)')
    <3>1. CASE k = n + 1
      <4>1. Called(k)' = {}
        BY <1>1, <2>3, <2>4, <3>1 DEF Called
      <4> QED BY <2>2, <2>3, <3>1, <4>1
    <3>2. CASE k \in 1 .. n
      <4> DEFINE next == IF k < n THEN open[k + 1].id ELSE id
      <4>1. Waits(snapshot, At, open[k], {next})
        BY <1>3, <3>2
      <4>2. stack'[k + 1].id = next
        BY <1>1, <2>3, <3>2
      <4>3. Called(k)' = {stack'[k + 1].id}
        BY <1>1, <2>3, <3>2 DEF Called
      <4> QED BY <2>3, <3>2, <4>1, <4>2, <4>3
    <3> QED BY <1>1, <3>1, <3>2
  <2>6. StackHolds'
    BY <1>2, <2>3, <2>5 DEF StackHolds
  <2> QED BY <2>3, <2>4, <2>6 DEF BrokenHolds
<1>5. CASE ~ Enters(id, open) /\ stack' = open /\ broken' = Append(Path(open), id)
  <2>1. Fails(snapshot, id, At)
    BY <1>5, NeverVisiting DEF Enters
  <2>2. /\ Path(open) \in Seq(Nat) /\ Len(Path(open)) = n
        /\ \A k \in 1 .. n : Path(open)[k] = open[k].id
    <3>1. Path(open) \in [1 .. n -> Nat] /\ \A k \in 1 .. n : Path(open)[k] = open[k].id
      BY <1>1 DEF Path, Frame
    <3> HIDE DEF n
    <3> QED BY <1>1, <3>1
  <2>3. /\ broken' \in Seq(Nat) /\ Len(broken') = n + 1 /\ broken' # <<>>
        /\ broken'[n + 1] = id
        /\ \A k \in 1 .. n : broken'[k] = open[k].id
    BY <1>1, <1>5, <2>2
  <2>4. stack' = open /\ Len(stack') = n
    BY <1>5
  <2>5. open = <<>> <=> n = 0
    BY <1>1
  <2>6. n = 0 => id \in Active(snapshot)
    BY <2>5 DEF Calls
  <2> HIDE DEF n
  <2>7. broken'[1] \in Active(snapshot)
    <3>1. CASE n = 0
      BY <2>3, <2>6, <3>1
    <3>2. CASE n # 0
      <4>1. 1 \in 1 .. n
        BY <1>1, <3>2
      <4>2. ~ Fails(snapshot, open[1].id, At)
        BY <1>3, <4>1 DEF Waits
      <4> QED BY <2>3, <4>1, <4>2 DEF Fails
    <3> QED BY <3>1, <3>2
  <2>8. ~ Supported(snapshot, id, At)
    BY <2>1, SupportUnfolds
  <2>9. BrokenHolds'
    BY <1>1, <1>2, <2>1, <2>3, <2>4, <2>7, <2>8 DEF BrokenHolds
  <2>10. ASSUME NEW k \in 1 .. n
         PROVE  Waits(snapshot, At, stack'[k], Called(k)')
    <3> DEFINE next == IF k < n THEN open[k + 1].id ELSE id
    <3>1. Waits(snapshot, At, open[k], {next})
      BY <1>3
    <3>2. Called(k)' = {next}
      <4>1. k = n \/ k < n
        BY <1>1
      <4> QED BY <1>1, <2>3, <2>4, <4>1 DEF Called
    <3> QED BY <2>4, <3>1, <3>2
  <2>11. StackHolds'
    BY <1>2, <2>4, <2>10 DEF StackHolds
  <2> QED BY <1>1, <2>3, <2>4, <2>9, <2>11
<1> QED BY <1>4, <1>5 DEF Call

----------------------------------------------------------------------------
(* The steps *)

\* While the evidence stays as it is, so does what is true of it.
LEMMA EvidenceKept ==
    ASSUME IInv, UNCHANGED <<snapshot, evidence>>
    PROVE  /\ Selected' /\ ReachabilityIsSupport' /\ BrokenPathsLeadToCause'
           /\ evidence' \in Seq(Timepoint(snapshot)') /\ At' = At
           /\ PointDone' = PointDone
           /\ UNCHANGED <<points, outcome>> => Complete'
<1>1. \A i : ResolvedAt(i)' = ResolvedAt(i)
  BY DEF ResolvedAt
<1>2. EvidenceHolds'
  <2>1. EvidenceHolds
    BY EvidenceParts DEF IInv
  <2> QED BY <1>1, <2>1 DEF EvidenceHolds
<1>3. At' = At /\ PointDone' = PointDone
  BY <1>1 DEF At, PointDone, Resolved
<1>4. UNCHANGED <<points, outcome>> => Complete'
  BY <1>1, <1>3 DEF Complete, IInv
<1> QED BY <1>2, <1>3, <1>4, EvidenceParts DEF IInv, TypeOK

\* Before anything is evaluated, and after it, no call is open.
LEMMA NoCallKeeps ==
    ASSUME IInv, UNCHANGED <<snapshot, stack, broken>>,
           stack = <<>>, broken = <<>>
    PROVE  StackHolds' /\ BrokenHolds'
BY DEF StackHolds, BrokenHolds

LEMMA RejectKeeps == IInv /\ Reject => IInv'
<1> SUFFICES ASSUME IInv, Reject PROVE IInv'
  OBVIOUS
<1>1. stack = <<>> /\ broken = <<>>
  BY DEF IInv, Phases, Reject
<1>2. TypeOK' /\ Phases'
  BY DEF IInv, TypeOK, Phases, Reject
<1>3. Complete'
  BY <1>1, EvidenceKept DEF IInv, Phases, Complete, Reject, ResolvedAt
<1> QED BY <1>1, <1>2, <1>3, EvidenceKept, NoCallKeeps DEF IInv, Reject

LEMMA StartKeeps == IInv /\ Start => IInv'
<1> SUFFICES ASSUME IInv, Start PROVE IInv'
  OBVIOUS
<1>1. stack = <<>> /\ broken = <<>> /\ evidence = <<>>
  BY DEF IInv, Phases, Start
<1>2. TypeOK'
  BY DEF IInv, TypeOK, Start
<1>3. Phases'
  BY <1>1 DEF Phases, Start
<1>4. Complete'
  BY <1>1 DEF Complete, Start
<1> QED BY <1>1, <1>2, <1>3, <1>4, EvidenceKept, NoCallKeeps DEF IInv, Start

\* The next critical time has nothing evaluated yet.
LEMMA BeginPointKeeps ==
    ASSUME IInv, NEW at \in points, BeginPoint(at)
    PROVE  IInv'
<1> DEFINE n == Len(evidence)
           services == [id \in Active(snapshot) |-> Pending]
           point == [at |-> at, services |-> services]
<1>1. /\ n \in Nat /\ DOMAIN evidence = 1 .. n /\ evidence \in Seq(Timepoint(snapshot))
      /\ \A i \in 1 .. n : evidence[i] \in Timepoint(snapshot)
      /\ WellFormed(snapshot)
      /\ outcome = "evaluating" /\ stack = <<>> /\ broken = <<>>
  BY Typed DEF IInv, TypeOK, BeginPoint, BetweenCalls
<1>2. at \in Int
  BY <1>1, MinuteAssumption DEF IInv, TypeOK, CriticalInstants, WellFormed
<1>3. point \in Timepoint(snapshot)
  BY <1>2 DEF Timepoint, Pending, Item
<1>4. evidence' = Append(evidence, point) /\ snapshot' = snapshot
  BY DEF BeginPoint
<1> HIDE DEF point, services, n
<1>5. /\ evidence' \in Seq(Timepoint(snapshot)) /\ Len(evidence') = n + 1
      /\ DOMAIN evidence' = 1 .. n + 1
      /\ evidence'[n + 1] = point
      /\ \A i \in 1 .. n : evidence'[i] = evidence[i]
  <2> HIDE DEF Timepoint
  <2> QED BY <1>1, <1>3, <1>4 DEF n
<1>6. /\ \A i \in 1 .. n : ResolvedAt(i)' = ResolvedAt(i)
      /\ \A i \in 1 .. n + 1 : i = n + 1 => ResolvedAt(i)' = {}
  <2>1. point.at = at /\ \A id \in Active(snapshot) : point.services[id].path = <<>>
    BY DEF point, services, Pending
  <2>2. \A i \in 1 .. n + 1 :
          ResolvedAt(i)' = {id \in Active(snapshot) : evidence'[i].services[id].path # <<>>}
    BY <1>4 DEF ResolvedAt
  <2>3. \A i \in 1 .. n : i \in 1 .. n + 1
    BY <1>1
  <2> QED BY <1>5, <2>1, <2>2, <2>3 DEF ResolvedAt
<1>7. TypeOK'
  BY <1>5 DEF IInv, TypeOK, BeginPoint
<1>8. Phases'
  <2>1. /\ Valid(snapshot)
        /\ CriticalInstants(snapshot) = points \union {evidence[i].at : i \in 1 .. n}
    BY <1>1 DEF IInv, Phases
  <2>2. {evidence'[i].at : i \in 1 .. n + 1} = {evidence[i].at : i \in 1 .. n} \union {at}
    <3>1. point.at = at
      BY DEF point
    <3>2. \A i \in 1 .. n + 1 : i \in 1 .. n \/ i = n + 1
      BY <1>1
    <3>3. \A i \in 1 .. n : i \in 1 .. n + 1
      BY <1>1
    <3>4. n + 1 \in 1 .. n + 1
      BY <1>1
    <3> QED BY <1>5, <3>1, <3>2, <3>3, <3>4
  <2>3. points' \union {evidence'[i].at : i \in DOMAIN evidence'} = CriticalInstants(snapshot)
    BY <1>5, <2>1, <2>2 DEF BeginPoint
  <2>4. /\ \A i \in 1 .. n : \A j \in 1 .. n : i < j => evidence[i].at < evidence[j].at
        /\ \A i \in 1 .. n : \A later \in points : evidence[i].at < later
    BY <1>1 DEF IInv, Phases
  <2>5. \A later \in points' : later \in points /\ at < later
    <3>1. points \subseteq Int
      BY <1>1, MinuteAssumption DEF IInv, TypeOK, CriticalInstants, WellFormed
    <3> QED BY <3>1 DEF BeginPoint, First
  <2>6. ASSUME NEW i \in 1 .. n + 1
        PROVE  /\ \A j \in 1 .. n + 1 : i < j => evidence'[i].at < evidence'[j].at
               /\ \A later \in points' : evidence'[i].at < later
    <3>1. point.at = at
      BY DEF point
    <3>2. CASE i = n + 1
      BY <1>1, <1>5, <2>5, <3>1, <3>2
    <3>3. CASE i \in 1 .. n
      <4>1. \A j \in 1 .. n + 1 : j \in 1 .. n \/ j = n + 1
        BY <1>1
      <4> QED BY <1>5, <2>4, <2>5, <3>1, <3>3, <4>1
    <3> QED BY <1>1, <3>2, <3>3
  <2>7. evidence' # <<>>
    BY <1>1, <1>5
  <2>8. snapshot' = snapshot /\ outcome' = outcome
    BY DEF BeginPoint
  <2> QED BY <1>1, <1>5, <2>1, <2>3, <2>6, <2>7, <2>8 DEF Phases
<1>9. Complete'
  <2>1. \A i \in 1 .. n - 1 : ResolvedAt(i) = Active(snapshot)
    BY DEF IInv, Complete, n
  <2>2. n >= 1 => ResolvedAt(n) = Active(snapshot)
    BY <1>1 DEF BeginPoint, PointDone, Resolved, n
  <2>3. \A i \in 1 .. n : ResolvedAt(i)' = Active(snapshot)
    BY <1>1, <1>6, <2>1, <2>2
  <2>4. Len(evidence') - 1 = n
    BY <1>1, <1>5
  <2> QED BY <1>1, <2>3, <2>4 DEF Complete, BeginPoint
<1>10. EvidenceHolds'
  <2>1. EvidenceHolds
    BY EvidenceParts DEF IInv
  <2>2. \A i \in 1 .. n + 1 : i \in 1 .. n \/ i = n + 1
    BY <1>1
  <2>3. ASSUME NEW i \in 1 .. n, NEW id \in ResolvedAt(i)
        PROVE  ItemHolds(snapshot, id, evidence'[i].at, evidence'[i].services[id])
    BY <1>1, <1>5, <2>1 DEF EvidenceHolds
  <2> QED BY <1>4, <1>5, <1>6, <2>2, <2>3 DEF EvidenceHolds
<1> QED BY <1>1, <1>7, <1>8, <1>9, <1>10, EvidenceParts, NoCallKeeps DEF IInv, BeginPoint

\* explain speaks of a simulation in which everything was resolved.
LEMMA ExplainKeeps == IInv /\ Explain => IInv'
<1> SUFFICES ASSUME IInv, Explain PROVE IInv'
  OBVIOUS
<1>1. stack = <<>> /\ broken = <<>> /\ outcome = "evaluating"
  BY DEF Explain, BetweenCalls
<1>2. outcome' \in {"all reachable", "failures"}
  BY DEF Explain
<1>3. TypeOK'
  BY <1>2 DEF IInv, TypeOK, Explain
<1>4. Phases'
  BY <1>1, <1>2 DEF IInv, Phases, Explain
<1>5. Complete'
  <2>1. \A i \in 1 .. Len(evidence') - 1 : ResolvedAt(i)' = Active(snapshot)'
    BY DEF IInv, Complete, Explain, ResolvedAt
  <2>2. PointDone' /\ points' = {}
    BY EvidenceKept DEF Explain
  <2>3. Affected = {} <=> \A i \in DOMAIN evidence : \A id \in Active(snapshot) :
                              evidence[i].services[id].reachable
    <3>1. ASSUME Affected = {}, NEW i \in DOMAIN evidence, NEW id \in Active(snapshot)
          PROVE  evidence[i].services[id].reachable
      <4>1. <<i, id>> \notin Affected
        BY <3>1
      <4> QED BY <4>1 DEF Affected
    <3>2. ASSUME \A i \in DOMAIN evidence : \A id \in Active(snapshot) :
                     evidence[i].services[id].reachable
          PROVE  Affected = {}
      BY <3>2 DEF Affected
    <3> QED BY <3>1, <3>2
  <2>4. outcome' = "all reachable" <=> Affected = {}
    BY DEF Explain
  <2> QED BY <2>1, <2>2, <2>3, <2>4 DEF Complete, Explain
<1> QED BY <1>1, <1>3, <1>4, <1>5, EvidenceKept, NoCallKeeps DEF IInv, Explain

\* Simulate resolves the next of the active services.
LEMMA ResolveServiceKeeps ==
    ASSUME IInv, NEW id \in Active(snapshot), ResolveService(id)
    PROVE  IInv'
<1>1. /\ outcome = "evaluating" /\ stack = <<>> /\ broken = <<>> /\ evidence # <<>>
      /\ UNCHANGED <<snapshot, points, evidence, outcome>>
  BY DEF ResolveService, BetweenCalls, PointDone
<1>2. TypeOK /\ Valid(snapshot) /\ id \in Nat
  BY <1>1, Typed DEF IInv, Phases
<1>3. Calls(<<>>, id) /\ Call(id, <<>>)
  BY DEF Calls, ResolveService
<1>4. stack' \in Seq(Frame) /\ broken' \in Seq(Nat) /\ StackHolds' /\ BrokenHolds'
  BY <1>1, <1>2, <1>3, CallKeeps
<1>5. TypeOK'
  BY <1>1, <1>4 DEF IInv, TypeOK
<1>6. Phases'
  BY <1>1 DEF IInv, Phases
<1> QED BY <1>1, <1>4, <1>5, <1>6, EvidenceKept DEF IInv

\* A call that is open, and has the call of a dependency before it.
LEMMA ResolveDependencyKeeps ==
    ASSUME IInv, stack # <<>>, NEW id \in Top.left, ResolveDependency(id)
    PROVE  IInv'
<1> DEFINE n == Len(stack)
           frame == [stack[n] EXCEPT !.left = @ \ {id}]
           open == [stack EXCEPT ![n].left = @ \ {id}]
<1>1. /\ outcome = "evaluating" /\ broken = <<>> /\ evidence # <<>>
      /\ UNCHANGED <<snapshot, points, evidence, outcome>>
  BY DEF ResolveDependency, IInv, Phases
<1>2. TypeOK /\ Valid(snapshot)
  BY <1>1 DEF IInv, Phases
<1>3. /\ n \in Nat /\ n >= 1 /\ DOMAIN stack = 1 .. n
      /\ \A k \in 1 .. n : stack[k] \in Frame
      /\ stack[n] \in Frame /\ id \in stack[n].left
  BY <1>2, Typed DEF Top
<1>4. frame \in Frame /\ frame.id = stack[n].id /\ frame.left = stack[n].left \ {id}
  BY <1>3 DEF Frame
<1>5. /\ DOMAIN open = 1 .. n
      /\ \A k \in 1 .. n : open[k] = IF k = n THEN frame ELSE stack[k]
  BY <1>3
<1>6. open \in Seq(Frame) /\ Len(open) = n
  <2>1. open \in [1 .. n -> Frame]
    BY <1>3, <1>4, <1>5
  <2> HIDE DEF n, open
  <2> QED BY <1>3, <2>1
<1> HIDE DEF n, frame, open
<1>7. Calls(open, id)
  <2>1. ASSUME NEW k \in 1 .. n
        PROVE  LET next == IF k < n THEN open[k + 1].id ELSE id
               IN  Waits(snapshot, At, open[k], {next})
    <3>1. Waits(snapshot, At, stack[k], Called(k))
      BY DEF IInv, StackHolds, n
    <3>2. CASE k < n
      <4>1. k + 1 \in 1 .. n /\ k # n
        BY <1>3, <3>2
      <4>2. open[k] = stack[k] /\ open[k + 1].id = stack[k + 1].id
        BY <1>4, <1>5, <4>1
      <4>3. Called(k) = {stack[k + 1].id}
        BY <3>2 DEF Called, n
      <4> QED BY <3>1, <3>2, <4>2, <4>3
    <3>3. CASE ~ k < n
      <4>1. k = n
        BY <1>3, <3>3
      <4>2. open[k].id = stack[k].id /\ open[k].left = stack[k].left \ {id}
        BY <1>4, <1>5, <4>1
      <4>3. Called(k) = {}
        BY <1>1, <3>3 DEF Called, n
      <4>4. id \in stack[k].left /\ \A d \in stack[k].left \ {id} : id < d
        <5>1. stack[k].left \subseteq Nat /\ First(id, stack[k].left)
          BY <1>3, <4>1 DEF Frame, ResolveDependency, Top, n
        <5> QED BY <5>1 DEF First
      <4>5. Waits(snapshot, At, open[k], {id})
        BY <3>1, <4>2, <4>3, <4>4 DEF Waits
      <4> QED BY <3>3, <4>5
    <3> QED BY <3>2, <3>3
  <2>2. open # <<>>
    BY <1>3, <1>6
  <2> QED BY <1>6, <2>1, <2>2, Zenon DEF Calls
<1>8. Call(id, open) /\ id \in Nat
  BY <1>3 DEF ResolveDependency, open, n, Frame
<1>9. stack' \in Seq(Frame) /\ broken' \in Seq(Nat) /\ StackHolds' /\ BrokenHolds'
  BY <1>1, <1>2, <1>7, <1>8, CallKeeps
<1>10. TypeOK'
  BY <1>1, <1>9 DEF IInv, TypeOK
<1>11. Phases'
  BY <1>1 DEF IInv, Phases
<1> QED BY <1>1, <1>9, <1>10, <1>11, EvidenceKept DEF IInv

\* What is left on the stack when the innermost call returns.
LEMMA PoppedTyped ==
    ASSUME TypeOK, stack # <<>>
    PROVE  /\ Popped \in Seq(Frame) /\ Len(Popped) = Len(stack) - 1
           /\ \A k \in 1 .. Len(stack) - 1 : Popped[k] = stack[k]
<1>1. stack \in Seq(Frame) /\ Len(stack) \in Nat /\ Len(stack) >= 1
  BY Typed DEF TypeOK
<1>2. \A s \in Seq(Frame) : \A k \in Nat : k < Len(s) =>
         /\ SubSeq(s, 1, k) \in Seq(Frame) /\ Len(SubSeq(s, 1, k)) = k
         /\ \A i \in 1 .. k : SubSeq(s, 1, k)[i] = s[i]
  OBVIOUS
<1>3. Len(stack) - 1 \in Nat /\ Len(stack) - 1 < Len(stack)
  BY <1>1
<1> QED BY <1>1, <1>2, <1>3 DEF Popped

\* A call whose dependencies are all reachable returns.
LEMMA ReturnReachableKeeps == IInv /\ ReturnReachable => IInv'
<1> SUFFICES ASSUME IInv, ReturnReachable PROVE IInv'
  OBVIOUS
<1> DEFINE n == Len(stack)
<1>1. /\ outcome = "evaluating" /\ broken = <<>> /\ stack # <<>> /\ evidence # <<>>
      /\ Top.left = {} /\ stack' = Popped
      /\ UNCHANGED <<snapshot, points, broken, outcome>>
  BY DEF ReturnReachable, IInv, Phases
<1>2. TypeOK /\ n \in Nat /\ n >= 1 /\ stack[n] \in Frame /\ stack[n] = Top
  BY <1>1, Typed DEF IInv, Top
<1>3. /\ stack' \in Seq(Frame) /\ Len(stack') = n - 1
      /\ \A k \in 1 .. n - 1 : stack'[k] = stack[k]
  BY <1>1, <1>2, PoppedTyped
<1>4. Top.id \in Active(snapshot) /\ Supported(snapshot, Top.id, At)
  <2>1. n \in 1 .. n /\ Called(n) = {}
    BY <1>1, <1>2 DEF Called
  <2>2. Waits(snapshot, At, Top, {})
    BY <1>2, <2>1 DEF IInv, StackHolds
  <2> QED BY <1>1, <2>2, SupportUnfolds DEF Fails, Waits
<1>5. BrokenHolds'
  BY <1>1 DEF BrokenHolds
<1>6. ASSUME At' = At
      PROVE  StackHolds'
  <2>1. ASSUME NEW k \in 1 .. n - 1
        PROVE  Waits(snapshot, At, stack'[k], Called(k)')
    <3>1. k \in 1 .. n /\ k < n
      BY <1>2
    <3>2. Waits(snapshot, At, stack[k], {stack[k + 1].id})
      BY <1>1, <3>1 DEF IInv, StackHolds, Called
    <3>3. CASE k < n - 1
      <4>1. k + 1 \in 1 .. n - 1
        BY <1>2, <3>3
      <4>2. Called(k)' = {stack[k + 1].id}
        BY <1>3, <3>3, <4>1 DEF Called
      <4> QED BY <1>3, <3>2, <4>2
    <3>4. CASE ~ k < n - 1
      <4>1. k + 1 = n
        BY <1>2, <3>1, <3>4
      <4>2. Waits(snapshot, At, stack[k], {Top.id})
        BY <1>2, <3>2, <4>1
      <4>3. Called(k)' = {}
        BY <1>1, <1>3, <3>4 DEF Called
      <4> QED BY <1>3, <1>4, <4>2, <4>3 DEF Waits
    <3> QED BY <3>3, <3>4
  <2> HIDE DEF n
  <2> QED BY <1>1, <1>3, <1>6, <2>1 DEF StackHolds
<1>7. CASE n = 1 /\ Record(Top.id, TRUE, Path(stack))
  <2>1. Path(stack) \in Seq(Nat) /\ Path(stack) # <<>> /\ Path(stack) = <<Top.id>>
    <3>1. Path(stack) = [k \in 1 .. 1 |-> stack[k].id] /\ stack[1].id \in Nat
      BY <1>2, <1>7 DEF Path, Frame
    <3>2. Path(stack) = <<stack[1].id>>
      BY <3>1
    <3> QED BY <1>2, <1>7, <3>1, <3>2
  <2>2. /\ evidence' \in Seq(Timepoint(snapshot)) /\ At' = At
        /\ Phases' /\ Complete' /\ EvidenceHolds'
    BY <1>1, <1>4, <1>7, <2>1, RecordKeeps, Zenon
  <2>3. TypeOK'
    BY <1>1, <1>3, <2>2 DEF IInv, TypeOK
  <2> QED BY <1>5, <1>6, <2>2, <2>3, EvidenceParts DEF IInv
<1>8. CASE n > 1 /\ UNCHANGED evidence
  <2>1. TypeOK'
    BY <1>1, <1>3, <1>8 DEF IInv, TypeOK
  <2>2. Phases'
    BY <1>1, <1>8 DEF IInv, Phases
  <2> QED BY <1>1, <1>5, <1>6, <1>8, <2>1, <2>2, EvidenceKept DEF IInv
<1> QED BY <1>7, <1>8 DEF ReturnReachable

\* The path of a broken dependency is handed up, or recorded.
LEMMA ReturnBrokenKeeps == IInv /\ ReturnBroken => IInv'
<1> SUFFICES ASSUME IInv, ReturnBroken PROVE IInv'
  OBVIOUS
<1>1. /\ outcome = "evaluating" /\ broken # <<>> /\ evidence # <<>>
      /\ UNCHANGED <<snapshot, points, outcome>>
  BY DEF ReturnBroken, IInv, Phases
<1>2. /\ TypeOK /\ WellFormed(snapshot) /\ broken \in Seq(Nat)
      /\ Len(stack) \in Nat /\ Len(broken) \in Nat
      /\ stack # <<>> <=> Len(stack) >= 1
  BY Typed DEF IInv, TypeOK
<1>3. /\ broken[1] \in Active(snapshot)
      /\ Len(stack) < Len(broken)
      /\ \A k \in 1 .. Len(stack) : broken[k] = stack[k].id
      /\ ~ Supported(snapshot, broken[Len(stack) + 1], At)
      /\ \A k \in Len(stack) + 1 .. Len(broken) - 1 :
            /\ ~ Fails(snapshot, broken[k], At)
            /\ First(broken[k + 1], Unsupported(snapshot, broken[k], At))
      /\ Fails(snapshot, broken[Len(broken)], At)
  BY <1>1 DEF IInv, BrokenHolds
<1>4. CASE stack # <<>> /\ stack' = Popped /\ broken' = broken /\ UNCHANGED evidence
  <2> DEFINE n == Len(stack)
  <2>1. /\ stack' \in Seq(Frame) /\ Len(stack') = n - 1
        /\ \A k \in 1 .. n - 1 : stack'[k] = stack[k]
    BY <1>2, <1>4, PoppedTyped
  <2>2. n \in 1 .. n /\ n >= 1 /\ Called(n) = {broken[n + 1]} /\ broken[n] = stack[n].id
    BY <1>1, <1>2, <1>3, <1>4 DEF Called
  <2>3. /\ Waits(snapshot, At, stack[n], {broken[n + 1]})
        /\ stack[n] \in Frame /\ broken[n + 1] \in Nat
    <3>1. Waits(snapshot, At, stack[n], Called(n))
      BY <2>2 DEF IInv, StackHolds
    <3>2. n + 1 \in 1 .. Len(broken)
      BY <1>2, <1>3
    <3> QED BY <1>2, <2>2, <3>1, <3>2, Typed
  <2>4. /\ ~ Fails(snapshot, broken[n], At) /\ ~ Supported(snapshot, broken[n], At)
        /\ First(broken[n + 1], Unsupported(snapshot, broken[n], At))
    <3>1. /\ ~ Fails(snapshot, broken[n], At)
          /\ broken[n + 1] \in Unsupported(snapshot, broken[n], At)
      BY <1>3, <2>2, <2>3 DEF Waits, Unsupported
    <3>2. ASSUME NEW d \in Unsupported(snapshot, broken[n], At)
          PROVE  broken[n + 1] <= d
      <4>1. d \in stack[n].left \/ d = broken[n + 1]
        BY <2>2, <2>3 DEF Waits, Unsupported
      <4>2. CASE d \in stack[n].left
        BY <2>3, <4>2 DEF Waits, Frame
      <4> QED BY <2>3, <4>1, <4>2
    <3> QED BY <3>1, <3>2, SupportUnfolds DEF First, Unsupported
  <2>5. At' = At
    BY <1>4 DEF At
  <2>6. BrokenHolds'
    <3>1. Len(stack') + 1 = n /\ Len(stack') < Len(broken)
      BY <1>2, <1>3, <2>1
    <3>2. \A k \in 1 .. n - 1 : broken[k] = stack[k].id
      <4>1. \A k \in 1 .. n : broken[k] = stack[k].id
        BY <1>3
      <4>2. n \in Nat
        BY <1>2
      <4> HIDE DEF n
      <4> QED BY <4>1, <4>2
    <3>3. \A k \in n .. Len(broken) - 1 : k = n \/ k \in n + 1 .. Len(broken) - 1
      BY <1>2
    <3>4. \A k \in n .. Len(broken) - 1 :
            /\ ~ Fails(snapshot, broken[k], At)
            /\ First(broken[k + 1], Unsupported(snapshot, broken[k], At))
      BY <1>3, <2>4, <3>3
    <3> QED BY <1>1, <1>3, <1>4, <2>1, <2>4, <2>5, <3>1, <3>2, <3>4 DEF BrokenHolds
  <2>7. StackHolds'
    <3>1. ASSUME NEW k \in 1 .. n - 1
          PROVE  Waits(snapshot, At, stack'[k], Called(k)')
      <4>1. k \in 1 .. n /\ k < n
        BY <1>2
      <4>2. Waits(snapshot, At, stack[k], {stack[k + 1].id})
        BY <1>1, <4>1 DEF IInv, StackHolds, Called
      <4>3. CASE k < n - 1
        <5>1. k + 1 \in 1 .. n - 1
          BY <1>2, <4>3
        <5>2. Called(k)' = {stack[k + 1].id}
          BY <2>1, <4>3, <5>1 DEF Called
        <5> QED BY <2>1, <4>2, <5>2
      <4>4. CASE ~ k < n - 1
        <5>1. k + 1 = n
          BY <1>2, <4>1, <4>4
        <5>2. Called(k)' = {broken[k + 1]}
          BY <1>1, <1>4, <2>1, <4>4 DEF Called
        <5> QED BY <2>1, <2>2, <4>2, <5>1, <5>2
      <4> QED BY <4>3, <4>4
    <3> HIDE DEF n
    <3> QED BY <1>1, <2>1, <2>5, <3>1 DEF StackHolds
  <2>8. TypeOK'
    BY <1>1, <1>2, <1>4, <2>1 DEF IInv, TypeOK
  <2>9. Phases'
    BY <1>1, <1>4 DEF IInv, Phases
  <2> QED BY <1>1, <1>4, <2>6, <2>7, <2>8, <2>9, EvidenceKept DEF IInv
<1>5. CASE stack = <<>> /\ Record(broken[1], FALSE, broken) /\ broken' = <<>>
           /\ UNCHANGED stack
  <2>1. ~ Supported(snapshot, broken[1], At) /\ Len(stack) = 0
    BY <1>2, <1>3, <1>5
  <2>2. LeadsToCause(snapshot, broken, broken[1], At)
    BY <1>1, <1>3, <2>1 DEF LeadsToCause
  <2>3. /\ evidence' \in Seq(Timepoint(snapshot)) /\ At' = At
        /\ Phases' /\ Complete' /\ EvidenceHolds'
    BY <1>1, <1>2, <1>3, <1>5, <2>1, <2>2, RecordKeeps, Zenon
  <2>4. TypeOK'
    BY <1>1, <1>2, <1>5, <2>3 DEF IInv, TypeOK
  <2>5. StackHolds' /\ BrokenHolds'
    BY <1>2, <1>5, <2>1 DEF StackHolds, BrokenHolds
  <2> QED BY <2>3, <2>4, <2>5, EvidenceParts DEF IInv
<1> QED BY <1>4, <1>5 DEF ReturnBroken, PathOf

----------------------------------------------------------------------------
(* The theorems *)

\* Every step of the simulation keeps the invariant.
THEOREM Inductive == Spec => []IInv
<1>1. Init => IInv
  <2> SUFFICES ASSUME Init PROVE IInv
    OBVIOUS
  <2>1. TypeOK /\ Phases /\ Complete
    BY DEF Init, TypeOK, Phases, Complete
  <2>2. StackHolds /\ BrokenHolds
    BY DEF Init, StackHolds, BrokenHolds
  <2>3. EvidenceHolds
    BY DEF Init, EvidenceHolds
  <2> QED BY <2>1, <2>2, <2>3, EvidenceParts DEF IInv
<1>2. IInv /\ [Next]_vars => IInv'
  <2> SUFFICES ASSUME IInv, [Next]_vars PROVE IInv'
    OBVIOUS
  <2>1. CASE Reject \/ Start \/ Explain
    BY <2>1, RejectKeeps, StartKeeps, ExplainKeeps
  <2>2. CASE \E at \in points : BeginPoint(at)
    BY <2>2, BeginPointKeeps
  <2>3. CASE \E id \in Active(snapshot) : ResolveService(id)
    BY <2>3, ResolveServiceKeeps
  <2>4. CASE stack # <<>> /\ \E id \in Top.left : ResolveDependency(id)
    BY <2>4, ResolveDependencyKeeps
  <2>5. CASE ReturnReachable \/ ReturnBroken
    BY <2>5, ReturnReachableKeeps, ReturnBrokenKeeps
  <2>6. CASE UNCHANGED vars
    <3>1. UNCHANGED <<snapshot, points, evidence, stack, broken, outcome>>
      BY <2>6 DEF vars
    <3>2. TypeOK' /\ Phases' /\ StackHolds' /\ BrokenHolds'
      BY <3>1 DEF IInv, TypeOK, Phases, StackHolds, BrokenHolds, At, Called
    <3> QED BY <3>1, <3>2, EvidenceKept DEF IInv
  <2> QED BY <2>1, <2>2, <2>3, <2>4, <2>5, <2>6 DEF Next
<1> QED BY <1>1, <1>2, PTL DEF Spec

\* The state of a simulation always has its types.
THEOREM TypeCorrect == Spec => []TypeOK
<1>1. IInv => TypeOK
  BY DEF IInv
<1> QED BY <1>1, Inductive, PTL

\* The search reports a service reachable exactly when it has a support: for
\* every snapshot ValidateSnapshot accepts, shared dependencies, retired ones
\* and the order of the ids make no difference.
THEOREM SearchFindsSupport == Spec => []ReachabilityIsSupport
<1>1. IInv => ReachabilityIsSupport
  BY DEF IInv
<1> QED BY <1>1, Inductive, PTL

\* The path reported with an unreachable service leads, dependency by
\* dependency, to the first service on it that fails on its own.
THEOREM PathsExplain == Spec => []BrokenPathsLeadToCause
<1>1. IInv => BrokenPathsLeadToCause
  BY DEF IInv
<1> QED BY <1>1, Inductive, PTL

\* A service whose dependencies are being resolved is never entered again:
\* resolveService nests at most as deep as there are active services, and its
\* test for a service it is visiting is never what stops it.
NestsOnce == \A j, k \in 1 .. Len(stack) : stack[j].id = stack[k].id => j = k

THEOREM NestingBounded == Spec => []NestsOnce
<1>1. IInv => NestsOnce
  <2> SUFFICES ASSUME IInv, NEW j \in 1 .. Len(stack), NEW k \in 1 .. Len(stack),
                      stack[j].id = stack[k].id, j < k
               PROVE  FALSE
    <3>1. \A x, y \in 1 .. Len(stack) : x = y \/ x < y \/ y < x
      BY Typed DEF IInv
    <3> QED BY <3>1 DEF NestsOnce
  <2> DEFINE S == {stack[i].id : i \in j .. k - 1}
  <2>1. Len(stack) \in Nat /\ stack # <<>> /\ Valid(snapshot)
    BY Typed DEF IInv, Phases
  <2>2. ASSUME NEW i \in j .. k - 1
        PROVE  /\ stack[i].id \in DOMAIN snapshot.services
               /\ snapshot.services[stack[i].id].deps \intersect S # {}
    <3>1. i \in 1 .. Len(stack) /\ i < Len(stack)
      BY <2>1
    <3>2. Waits(snapshot, At, stack[i], {stack[i + 1].id})
      BY <3>1 DEF IInv, StackHolds, Called
    <3>3. stack[i + 1].id \in S
      <4>1. CASE i = k - 1
        <5>1. i + 1 = k /\ j \in j .. k - 1
          BY <2>1, <4>1
        <5> QED BY <5>1
      <4>2. CASE i # k - 1
        <5>1. i + 1 \in j .. k - 1
          BY <2>1, <4>2
        <5> QED BY <5>1
      <4> QED BY <4>1, <4>2
    <3> HIDE DEF S
    <3> QED BY <3>2, <3>3 DEF Waits, Fails, Active
  <2>3. S \in SUBSET DOMAIN Graph(snapshot) /\ stack[j].id \in S
    <3>1. j \in j .. k - 1
      BY <2>1
    <3> QED BY <2>2, <3>1 DEF Graph
  <2>4. \A m \in S : Graph(snapshot)[m] \intersect S # {}
    BY <2>2 DEF Graph
  <2> HIDE DEF S
  <2> QED BY <2>1, <2>3, <2>4 DEF Valid, Acyclic
<1> QED BY <1>1, Inductive, PTL

\* A service found reachable would be found so with every frozen chain a
\* candidate, over a chain that is not later.
THEOREM MoreCandidatesHelp == Spec => []CandidatesOnlyHelp
<1>1. IInv => CandidatesOnlyHelp
  <2> SUFFICES ASSUME IInv, NEW i \in DOMAIN evidence, NEW id \in ResolvedAt(i),
                      evidence[i].services[id].reachable
               PROVE  LET more == EvaluateDirect(AllCandidates(snapshot),
                                      snapshot.services[id], evidence[i].at)
                      IN  more.reachable /\ more.chain <= evidence[i].services[id].chain
    BY DEF CandidatesOnlyHelp
  <2>1. WellFormed(snapshot)
    BY Typed DEF IInv
  <2>2. LET direct == EvaluateDirect(snapshot, snapshot.services[id], evidence[i].at)
        IN  direct.reachable /\ evidence[i].services[id].chain = direct.chain
    BY DEF IInv, Selected
  <2> QED BY <2>1, <2>2, CandidatesKeepChain
<1> QED BY <1>1, Inductive, PTL

\* When the last timepoint is done, every one is.
LEMMA AllResolved ==
    ASSUME IInv, PointDone
    PROVE  \A i \in DOMAIN evidence : ResolvedAt(i) = Active(snapshot)
<1> DEFINE n == Len(evidence)
<1>1. n \in Nat /\ DOMAIN evidence = 1 .. n /\ (evidence # <<>> <=> n >= 1)
  BY Typed DEF IInv
<1>2. \A i \in 1 .. n - 1 : ResolvedAt(i) = Active(snapshot)
  BY DEF IInv, Complete
<1>3. evidence # <<>> => ResolvedAt(n) = Active(snapshot)
  BY DEF PointDone, Resolved
<1> HIDE DEF n
<1>4. \A i \in 1 .. n : n >= 1 /\ (i \in 1 .. n - 1 \/ i = n)
  BY <1>1
<1> QED BY <1>1, <1>2, <1>3, <1>4

\* What explain says is exact for the critical times: it speaks of no failure
\* when every active service has a support at each of them, and of failures
\* when one has none at some.
VerdictExact ==
    outcome \in {"all reachable", "failures"} =>
        (outcome = "all reachable"
            <=> \A at \in CriticalInstants(snapshot) : ReachableAt(snapshot, at))

THEOREM VerdictCorrect == Spec => []VerdictExact
<1>1. IInv => VerdictExact
  <2> SUFFICES ASSUME IInv, outcome \in {"all reachable", "failures"}
               PROVE  outcome = "all reachable"
                        <=> \A at \in CriticalInstants(snapshot) : ReachableAt(snapshot, at)
    BY DEF VerdictExact
  <2>1. CriticalInstants(snapshot) = {evidence[i].at : i \in DOMAIN evidence}
    BY DEF IInv, Phases, Complete
  <2>2. \A i \in DOMAIN evidence : ResolvedAt(i) = Active(snapshot)
    <3>1. PointDone
      BY DEF IInv, Complete
    <3> QED BY <3>1, AllResolved
  <2>3. \A i \in DOMAIN evidence : \A id \in Active(snapshot) :
           evidence[i].services[id].reachable <=> Supported(snapshot, id, evidence[i].at)
    BY <2>2 DEF IInv, ReachabilityIsSupport
  <2>4. outcome = "all reachable"
          <=> \A i \in DOMAIN evidence : \A id \in Active(snapshot) :
                 evidence[i].services[id].reachable
    BY DEF IInv, Complete
  <2> QED BY <2>1, <2>3, <2>4 DEF ReachableAt
<1> QED BY <1>1, Inductive, PTL

----------------------------------------------------------------------------
(* One input, one result *)

\* Numbers none of which is passed by what the other counts are equal.
LEMMA SameLength ==
    ASSUME NEW m \in Nat, NEW n \in Nat,
           \A k \in 1 .. m : k <= n, \A k \in 1 .. n : k <= m
    PROVE  m = n
<1>1. (m >= 1 => m <= n) /\ (n >= 1 => n <= m)
  OBVIOUS
<1> QED BY <1>1

\* Of two paths to a cause the one is as far as it goes the other.
LEMMA SamePath ==
    ASSUME NEW s, NEW id, NEW at, NEW p \in Seq(Nat), NEW q \in Seq(Nat),
           LeadsToCause(s, p, id, at), LeadsToCause(s, q, id, at)
    PROVE  \A k \in 1 .. Len(p) : k <= Len(q) /\ p[k] = q[k]
<1> DEFINE D == {k \in 1 .. Len(p) : ~ (k <= Len(q) /\ p[k] = q[k])}
<1>1. /\ Len(p) \in Nat /\ Len(q) \in Nat /\ Len(p) >= 1 /\ Len(q) >= 1
      /\ p[1] = id /\ q[1] = id
      /\ \A k \in 1 .. Len(p) : p[k] \in Nat
      /\ \A k \in 1 .. Len(q) : q[k] \in Nat
  <2>1. p # <<>> /\ q # <<>> /\ p[1] = id /\ q[1] = id
    BY DEF LeadsToCause
  <2> QED BY <2>1
<1>2. ASSUME D # {}
      PROVE  FALSE
  <2> DEFINE m == Min(D)
  <2>1. m \in D /\ \A k \in D : m <= k
    <3>1. D \in SUBSET Nat
      BY <1>1
    <3> HIDE DEF D
    <3> QED BY <1>2, <3>1, LeastElement
  <2> HIDE DEF m
  <2>2. PICK k \in Nat : m = k + 1 /\ k \in 1 .. Len(p) - 1
    <3>1. m # 1 /\ m \in 1 .. Len(p)
      BY <1>1, <2>1
    <3>2. m - 1 \in Nat /\ m = (m - 1) + 1 /\ m - 1 \in 1 .. Len(p) - 1
      BY <1>1, <3>1
    <3> QED BY <3>2
  <2>3. k <= Len(q) /\ p[k] = q[k]
    BY <1>1, <2>1, <2>2
  <2>4. k \in 1 .. Len(q) - 1
    <3>1. ~ Fails(s, p[k], at)
      BY <2>2 DEF LeadsToCause
    <3>2. k # Len(q)
      BY <2>3, <3>1 DEF LeadsToCause
    <3> QED BY <1>1, <2>2, <2>3, <3>2
  <2>5. /\ First(p[k + 1], Unsupported(s, p[k], at))
        /\ First(q[k + 1], Unsupported(s, p[k], at))
    BY <2>2, <2>3, <2>4 DEF LeadsToCause
  <2>6. p[k + 1] = q[k + 1]
    <3>1. PICK x \in Nat, y \in Nat : x = p[k + 1] /\ y = q[k + 1]
      BY <1>1, <2>2, <2>4
    <3>2. x <= y /\ y <= x
      BY <2>5, <3>1, Zenon DEF First
    <3>3. x = y
      BY <3>2
    <3> QED
      BY <3>1, <3>3, Zenon
  <2> QED BY <1>1, <2>1, <2>2, <2>4, <2>6
<1> QED BY <1>2

\* Two strictly increasing sequences of timepoints over the same times have
\* the one's times as far as it goes in the other's order.
LEMMA SameTimes ==
    ASSUME NEW s, NEW e \in Seq(Timepoint(s)), NEW f \in Seq(Timepoint(s)),
           {e[i].at : i \in DOMAIN e} = {f[i].at : i \in DOMAIN f},
           \A i \in DOMAIN e : \A j \in DOMAIN e : i < j => e[i].at < e[j].at,
           \A i \in DOMAIN f : \A j \in DOMAIN f : i < j => f[i].at < f[j].at
    PROVE  \A i \in 1 .. Len(e) : i <= Len(f) /\ e[i].at = f[i].at
<1> DEFINE D == {i \in 1 .. Len(e) : ~ (i <= Len(f) /\ e[i].at = f[i].at)}
<1>1. /\ Len(e) \in Nat /\ DOMAIN e = 1 .. Len(e)
      /\ Len(f) \in Nat /\ DOMAIN f = 1 .. Len(f)
      /\ \A i \in 1 .. Len(e) : e[i] \in Timepoint(s)
      /\ \A i \in 1 .. Len(f) : f[i] \in Timepoint(s)
  <2> HIDE DEF Timepoint
  <2> QED OBVIOUS
<1>2. /\ \A i \in 1 .. Len(e) : e[i].at \in Int
      /\ \A i \in 1 .. Len(f) : f[i].at \in Int
  BY <1>1 DEF Timepoint
<1>3. ASSUME D # {}
      PROVE  FALSE
  <2> DEFINE m == Min(D)
  <2>1. m \in D /\ \A i \in D : m <= i
    <3>1. D \in SUBSET Nat
      BY <1>1
    <3> HIDE DEF D
    <3> QED BY <1>3, <3>1, LeastElement
  <2> HIDE DEF m
  <2>2. m \in 1 .. Len(e) /\ \A i \in 1 .. m - 1 : i <= Len(f) /\ e[i].at = f[i].at
    BY <1>1, <2>1
  <2>3. PICK j \in 1 .. Len(f) : f[j].at = e[m].at
    BY <1>1, <2>2
  <2>4. j >= m
    <3>1. ASSUME j < m
          PROVE  FALSE
      <4>1. j \in 1 .. m - 1 /\ j \in 1 .. Len(e) /\ j < m
        BY <1>1, <2>2, <2>3, <3>1
      <4>2. e[j].at < e[m].at /\ e[j].at = f[j].at
        BY <1>1, <2>2, <4>1
      <4> QED BY <1>2, <2>2, <2>3, <4>1, <4>2
    <3> QED BY <1>1, <2>2, <2>3, <3>1
  <2>5. m \in 1 .. Len(f) /\ f[m].at <= e[m].at
    <3>1. m \in 1 .. Len(f)
      BY <1>1, <2>2, <2>3, <2>4
    <3>2. CASE j = m
      BY <1>2, <2>2, <2>3, <3>1, <3>2
    <3>3. CASE m < j
      <4>1. f[m].at < f[j].at
        BY <1>1, <3>1, <3>3
      <4> QED BY <1>2, <2>3, <3>1, <4>1
    <3> QED BY <1>1, <2>2, <2>3, <2>4, <3>1, <3>2, <3>3
  <2>6. PICK i \in 1 .. Len(e) : e[i].at = f[m].at
    BY <1>1, <2>5
  <2>7. i >= m
    <3>1. ASSUME i < m
          PROVE  FALSE
      <4>1. i \in 1 .. m - 1 /\ i \in 1 .. Len(f)
        BY <1>1, <2>2, <2>5, <2>6, <3>1
      <4>2. f[i].at < f[m].at /\ e[i].at = f[i].at
        BY <1>1, <2>2, <2>5, <3>1, <4>1
      <4> QED BY <1>2, <2>5, <2>6, <4>1, <4>2
    <3> QED BY <1>1, <2>2, <2>6, <3>1
  <2>8. e[m].at <= f[m].at
    <3>1. CASE i = m
      BY <1>2, <2>5, <2>6, <3>1
    <3>2. CASE m < i
      <4>1. e[m].at < e[i].at
        BY <1>1, <2>2, <2>6, <3>2
      <4> QED BY <1>2, <2>2, <2>6, <4>1
    <3> QED BY <1>1, <2>2, <2>6, <2>7, <3>1, <3>2
  <2>9. e[m].at = f[m].at
    BY <1>2, <2>2, <2>5, <2>8
  <2> QED BY <1>1, <2>1, <2>5, <2>9
<1> QED BY <1>3

\* The result of a simulation without the search: the critical times in their
\* order, and at each of them what is true of every active service.
IsResult(s, e) ==
    /\ e \in Seq(Timepoint(s))
    /\ {e[i].at : i \in DOMAIN e} = CriticalInstants(s)
    /\ \A i \in DOMAIN e : \A j \in DOMAIN e : i < j => e[i].at < e[j].at
    /\ \A i \in DOMAIN e : \A id \in Active(s) :
          ItemHolds(s, id, e[i].at, e[i].services[id])

Result(s) == CHOOSE e : IsResult(s, e)

\* A snapshot has one result.
LEMMA OneResult ==
    ASSUME NEW s, NEW e, NEW f, IsResult(s, e), IsResult(s, f)
    PROVE  e = f
<1>1. /\ Len(e) \in Nat /\ DOMAIN e = 1 .. Len(e) /\ e \in Seq(Timepoint(s))
      /\ Len(f) \in Nat /\ DOMAIN f = 1 .. Len(f) /\ f \in Seq(Timepoint(s))
      /\ \A i \in 1 .. Len(e) : e[i] \in Timepoint(s)
      /\ \A i \in 1 .. Len(f) : f[i] \in Timepoint(s)
  <2> HIDE DEF Timepoint
  <2> QED BY DEF IsResult
<1>2. /\ \A i \in 1 .. Len(e) : i <= Len(f) /\ e[i].at = f[i].at
      /\ \A i \in 1 .. Len(f) : i <= Len(e) /\ f[i].at = e[i].at
  <2>1. /\ {e[i].at : i \in DOMAIN e} = {f[i].at : i \in DOMAIN f}
        /\ \A i \in DOMAIN e : \A j \in DOMAIN e : i < j => e[i].at < e[j].at
        /\ \A i \in DOMAIN f : \A j \in DOMAIN f : i < j => f[i].at < f[j].at
    BY DEF IsResult
  <2>2. \A i \in 1 .. Len(e) : i <= Len(f) /\ e[i].at = f[i].at
    BY <1>1, <2>1, SameTimes, Zenon
  <2>3. \A i \in 1 .. Len(f) : i <= Len(e) /\ f[i].at = e[i].at
    BY <1>1, <2>1, SameTimes, Zenon
  <2> QED BY <2>2, <2>3
<1>3. Len(e) = Len(f)
  BY <1>1, <1>2, SameLength, Zenon
<1>4. ASSUME NEW i \in 1 .. Len(e), NEW id \in Active(s)
      PROVE  e[i].services[id] = f[i].services[id]
  <2> DEFINE x == e[i].services[id]
             y == f[i].services[id]
             at == e[i].at
  <2>1. x \in Item /\ y \in Item
    BY <1>1, <1>3 DEF Timepoint
  <2>2. ItemHolds(s, id, at, x) /\ ItemHolds(s, id, at, y)
    BY <1>1, <1>2, <1>3 DEF IsResult
  <2> HIDE DEF x, y, at
  <2>3. x.chain = y.chain
    BY <2>2 DEF ItemHolds
  <2>4. x.reachable = y.reachable
    <3>1. x.reachable <=> y.reachable
      BY <2>2, Zenon DEF ItemHolds
    <3>2. x.reachable \in BOOLEAN /\ y.reachable \in BOOLEAN
      BY <2>1 DEF Item
    <3> QED BY <3>1, <3>2
  <2>5. x.path = y.path
    <3>1. CASE x.reachable
      <4>1. x.path = <<id>> /\ y.path = <<id>>
        BY <2>2, <2>4, <3>1, Zenon DEF ItemHolds
      <4> QED BY <4>1
    <3>2. CASE ~ x.reachable
      <4>1. LeadsToCause(s, x.path, id, at) /\ LeadsToCause(s, y.path, id, at)
        BY <2>2, <2>4, <3>2, Zenon DEF ItemHolds
      <4>2. x.path \in Seq(Nat) /\ y.path \in Seq(Nat)
        BY <2>1 DEF Item
      <4>3. /\ \A k \in 1 .. Len(x.path) : k <= Len(y.path) /\ x.path[k] = y.path[k]
            /\ \A k \in 1 .. Len(y.path) : k <= Len(x.path)
        BY <4>1, <4>2, SamePath, Zenon
      <4>4. \A u \in Seq(Nat), w \in Seq(Nat) :
               /\ \A k \in 1 .. Len(u) : k <= Len(w) /\ u[k] = w[k]
               /\ \A k \in 1 .. Len(w) : k <= Len(u)
               => u = w
        <5> SUFFICES ASSUME NEW u \in Seq(Nat), NEW w \in Seq(Nat),
                            \A k \in 1 .. Len(u) : k <= Len(w) /\ u[k] = w[k],
                            \A k \in 1 .. Len(w) : k <= Len(u)
                     PROVE  u = w
          OBVIOUS
        <5>1. /\ Len(u) \in Nat /\ DOMAIN u = 1 .. Len(u)
              /\ Len(w) \in Nat /\ DOMAIN w = 1 .. Len(w)
          OBVIOUS
        <5>2. Len(u) = Len(w)
          BY <5>1, SameLength, Zenon
        <5> QED BY <5>1, <5>2
      <4> QED BY <4>2, <4>3, <4>4
    <3> QED BY <3>1, <3>2
  <2>6. x = y
    BY <2>1, <2>3, <2>4, <2>5 DEF Item
  <2> QED BY <2>6 DEF x, y
<1>5. ASSUME NEW i \in 1 .. Len(e)
      PROVE  e[i] = f[i]
  <2>1. e[i] \in Timepoint(s) /\ f[i] \in Timepoint(s)
    BY <1>1, <1>3
  <2>2. e[i].at = f[i].at
    BY <1>2
  <2>3. e[i].services = f[i].services
    <3>1. /\ e[i].services \in [Active(s) -> Item]
          /\ f[i].services \in [Active(s) -> Item]
      BY <2>1 DEF Timepoint
    <3> QED BY <1>4, <3>1
  <2> QED BY <2>1, <2>2, <2>3 DEF Timepoint
<1> QED BY <1>1, <1>3, <1>5

\* What a simulation ends with is a function of the frozen input: a replay
\* under an unchanged input hash finds what the first simulation found.
Determined ==
    outcome \in {"all reachable", "failures"} => evidence = Result(snapshot)

THEOREM ResultDetermined == Spec => []Determined
<1>1. IInv => Determined
  <2> SUFFICES ASSUME IInv, outcome \in {"all reachable", "failures"}
               PROVE  evidence = Result(snapshot)
    BY DEF Determined
  <2>1. \A i \in DOMAIN evidence : ResolvedAt(i) = Active(snapshot)
    <3>1. PointDone
      BY DEF IInv, Complete
    <3> QED BY <3>1, AllResolved
  <2>2. EvidenceHolds
    BY EvidenceParts DEF IInv
  <2>3. IsResult(snapshot, evidence)
    BY <2>1, <2>2 DEF IInv, TypeOK, Phases, Complete, EvidenceHolds, IsResult
  <2>4. IsResult(snapshot, Result(snapshot))
    BY <2>3 DEF Result
  <2> QED BY <2>3, <2>4, OneResult
<1> QED BY <1>1, Inductive, PTL

\* When explain says all is reachable, and no chain begins or ends within the
\* window, it is: at the times looked at and at every other.
THEOREM CriticalTimesEnough == Spec => []CriticalTimesSuffice
<1>1. IInv /\ VerdictExact => CriticalTimesSuffice
  <2> SUFFICES ASSUME IInv, VerdictExact, outcome = "all reachable",
                      ChainsOutlastWindow(snapshot)
               PROVE  ReachableThroughout
    BY DEF CriticalTimesSuffice
  <2>1. \A at \in CriticalInstants(snapshot) : ReachableAt(snapshot, at)
    BY DEF VerdictExact
  <2>2. WellFormed(snapshot) /\ Valid(snapshot)
    BY Typed DEF IInv, Phases
  <2> QED BY <2>1, <2>2, InstantsSuffice DEF ReachableThroughout
<1> QED BY <1>1, Inductive, VerdictCorrect, PTL
=============================================================================
