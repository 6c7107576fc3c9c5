------------------------ MODULE ServerProcess_proofs ------------------------
(***************************************************************************)
(* Theorems about ServerProcess, for every number of servers, accounts,    *)
(* keys and goroutines, every limit, and however late a goroutine reaches  *)
(* the mutex.                                                              *)
(***************************************************************************)
EXTENDS ServerProcess, DependencyGraphs, FiniteSetTheorems, TLAPS

----------------------------------------------------------------------------
(* The seed *)

\* How far a server has come, seen from what is committed.
ComingUp(s) ==
  LET p == server[s]
  IN  /\ p.stage = "down" => p = Down
      /\ p.stage \in {"finding", "creating"} =>
            p.inserted = 0 /\ 1 .. p.account - 1 \subseteq users
      /\ p.stage = "creating" => p.account \in Accounts
      /\ p.stage = "seeding" => users = Accounts

\* In the transaction of the seed, with the anchors inserted and locked.
Holding(s) == server[s].stage = "seeding" /\ server[s].inserted >= Anchors

\* SeedWholeAndOnce, with what keeps it: only one transaction has inserted the
\* anchors, and no anchors are committed beside it.
SeedInv ==
  /\ StartTypeOK
  /\ SeedWholeAndOnce
  /\ \A s \in Servers : ComingUp(s)
  /\ \A s \in Servers : Holding(s) => copies[Anchors] = 0
  /\ \A s, t \in Servers : Holding(s) /\ Holding(t) => s = t

LEMMA SeedInit == StartInit => SeedInv
BY StartupAssumption
   DEF StartInit, SeedInv, StartTypeOK, SeedWholeAndOnce, ComingUp, Holding, Down,
       At, Process, Stages, Parts, NParts, Anchors, Accounts

\* A step of one server that commits nothing, after which that server is where
\* it may be, preserves the invariant.
LEMMA SeedLocal ==
  ASSUME SeedInv, NEW s \in Servers, NEW p \in Process,
         server' = [server EXCEPT ![s] = p], UNCHANGED <<users, copies>>,
         faults' \in 0 .. MaxFaults, ComingUp(s)',
         p.stage \in {"serving", "draining"} => copies[Anchors] = 1,
         p.stage = "seeding" /\ p.inserted >= Anchors =>
            copies[Anchors] = 0 /\ \A t \in Servers \ {s} : ~ Holding(t)
  PROVE  SeedInv'
<1>1. server \in [Servers -> Process] /\ server' \in [Servers -> Process]
  BY DEF SeedInv, StartTypeOK
<1>2. server'[s] = p /\ \A t \in Servers \ {s} : server'[t] = server[t]
  BY <1>1
<1>3. StartTypeOK'
  BY <1>1 DEF SeedInv, StartTypeOK
<1>4. SeedWholeAndOnce'
  BY <1>2 DEF SeedInv, SeedWholeAndOnce, At
<1>5. \A t \in Servers : ComingUp(t)'
  BY <1>2 DEF SeedInv, ComingUp
<1>6. \A t \in Servers : Holding(t)' => copies[Anchors] = 0
  BY <1>2 DEF SeedInv, Holding
<1>7. \A t, u \in Servers : Holding(t)' /\ Holding(u)' => t = u
  BY <1>2 DEF SeedInv, Holding
<1> QED
  BY <1>3, <1>4, <1>5, <1>6, <1>7 DEF SeedInv

LEMMA ExitKeepsSeed ==
  ASSUME SeedInv, NEW s \in Servers, Exit(s), UNCHANGED <<users, copies>>,
         faults' \in 0 .. MaxFaults
  PROVE  SeedInv'
<1>1. Down \in Process
  BY StartupAssumption DEF Down, Process, Stages, NParts
<1>2. server' = [server EXCEPT ![s] = Down]
  BY DEF Exit
<1>3. ComingUp(s)'
  BY <1>2 DEF ComingUp, Down, SeedInv, StartTypeOK
<1> QED
  BY <1>1, <1>2, <1>3, SeedLocal DEF Down

LEMMA ComeUpKeepsSeed ==
  ASSUME SeedInv, NEW s \in Servers, ComeUp(s)
  PROVE  SeedInv'
<1> DEFINE p == server[s]
<1>1. /\ server \in [Servers -> Process] /\ p \in Process /\ faults \in 0 .. MaxFaults
      /\ NAccounts \in Nat /\ p.account \in 1 .. NAccounts + 1
      /\ users \subseteq Accounts
      /\ copies \in [Parts -> Nat] /\ ComingUp(s)
  BY StartupAssumption DEF SeedInv, StartTypeOK, Process
<1>2. CASE Start(s)
  <2> DEFINE q == [p EXCEPT !.stage = "finding"]
  <2>1. /\ q \in Process /\ server' = [server EXCEPT ![s] = q]
        /\ q.stage = "finding" /\ q.account = 1 /\ q.inserted = 0
        /\ UNCHANGED <<users, copies, faults>>
    BY <1>1, <1>2 DEF Start, Process, Stages, At, ComingUp, Down
  <2>2. ComingUp(s)'
    BY <1>1, <2>1 DEF ComingUp
  <2> HIDE DEF q
  <2> QED
    BY <1>1, <2>1, <2>2, SeedLocal
<1>3. CASE FindUser(s)
  <2> DEFINE q == IF p.account \in users THEN [p EXCEPT !.account = @ + 1]
                  ELSE [p EXCEPT !.stage = "creating"]
  <2>1. /\ p.stage = "finding" /\ p.account \in Accounts
        /\ server' = [server EXCEPT ![s] = q] /\ UNCHANGED <<users, copies, faults>>
    BY <1>1, <1>3 DEF FindUser, At
  <2>2. q \in Process /\ q.stage \in {"finding", "creating"} /\ q.inserted = 0
    BY <1>1, <2>1 DEF Process, Stages, Accounts, ComingUp
  <2>3. ComingUp(s)'
    <3>1. server'[s] = q
      BY <1>1, <2>1
    <3>2. 1 .. p.account - 1 \subseteq users
      BY <1>1, <2>1 DEF ComingUp
    <3>3. CASE p.account \in users
      <4>1. q.stage = "finding" /\ q.account = p.account + 1
        BY <1>1, <2>1, <3>3 DEF Process
      <4>2. 1 .. q.account - 1 \subseteq users
        BY <1>1, <3>2, <3>3, <4>1
      <4> HIDE DEF q
      <4> QED
        BY <2>1, <2>2, <3>1, <4>1, <4>2 DEF ComingUp
    <3>4. CASE p.account \notin users
      <4>1. q.stage = "creating" /\ q.account = p.account
        BY <1>1, <2>1, <3>4 DEF Process
      <4> HIDE DEF q
      <4> QED
        BY <2>1, <2>2, <3>1, <3>2, <4>1 DEF ComingUp
    <3> QED
      BY <3>3, <3>4
  <2> HIDE DEF q
  <2> QED
    BY <1>1, <2>1, <2>2, <2>3, SeedLocal
<1>4. CASE CreateUser(s)
  <2>1. p.stage = "creating" /\ UNCHANGED <<copies, faults>> /\ p.account \in Accounts
    BY <1>1, <1>4 DEF CreateUser, At, ComingUp
  <2>2. CASE p.account \in users
    BY <1>1, <1>4, <2>1, <2>2, ExitKeepsSeed DEF CreateUser
  <2>3. CASE p.account \notin users
    <3> DEFINE q == [p EXCEPT !.stage = "finding", !.account = @ + 1]
    <3>1. /\ users' = users \union {p.account}
          /\ server' = [server EXCEPT ![s] = q]
          /\ q \in Process /\ q.stage = "finding" /\ q.account = p.account + 1
          /\ q.inserted = 0
      BY <1>1, <1>4, <2>1, <2>3 DEF CreateUser, Process, Stages, Accounts, ComingUp
    <3>2. /\ server'[s] = q /\ server' \in [Servers -> Process]
          /\ \A t \in Servers \ {s} : server'[t] = server[t]
      BY <1>1, <3>1
    <3>3. copies[Anchors] = 0 \/ copies[Anchors] = 1
      BY <1>1 DEF SeedInv, SeedWholeAndOnce, Parts, NParts, Anchors
    <3>4. users' \subseteq Accounts /\ (users = Accounts => users' = Accounts)
      BY <1>1, <2>1, <3>1
    <3>5. ComingUp(s)'
      <4>1. 1 .. q.account - 1 \subseteq users'
        BY <1>1, <2>1, <3>1 DEF ComingUp
      <4> HIDE DEF q
      <4> QED
        BY <3>1, <3>2, <4>1 DEF ComingUp
    <3> HIDE DEF q
    <3>6. ASSUME NEW t \in Servers \ {s} PROVE ComingUp(t)'
      BY <3>1, <3>2, <3>4 DEF ComingUp, SeedInv
    <3>7. StartTypeOK' /\ SeedWholeAndOnce'
      BY <1>1, <2>1, <3>1, <3>2, <3>4 DEF SeedInv, StartTypeOK, SeedWholeAndOnce, At
    <3>8. \A t \in Servers : Holding(t)' => Holding(t)
      BY <3>1, <3>2 DEF Holding
    <3> QED
      BY <2>1, <3>5, <3>6, <3>7, <3>8 DEF SeedInv
  <2> QED
    BY <2>2, <2>3
<1>5. CASE CountAnchors(s)
  <2> DEFINE q == [p EXCEPT !.stage =
                    IF copies[Anchors] > 0 THEN "serving" ELSE "seeding"]
  <2>1. /\ p.stage = "finding" /\ p.account \notin Accounts
        /\ server' = [server EXCEPT ![s] = q] /\ UNCHANGED <<users, copies, faults>>
    BY <1>1, <1>5 DEF CountAnchors, At
  <2>2. q \in Process /\ q.stage \in {"serving", "seeding"} /\ q.inserted = p.inserted
    BY <1>1, <2>1 DEF Process, Stages
  <2>3. p.inserted = 0
    BY <1>1, <2>1 DEF ComingUp
  <2>4. Accounts \subseteq users
    <3>1. p.account = NAccounts + 1 /\ 1 .. p.account - 1 \subseteq users
      BY <1>1, <2>1 DEF ComingUp, Accounts
    <3> QED
      BY <1>1, <3>1 DEF Accounts
  <2>5. users' = Accounts
    BY <1>1, <2>1, <2>4
  <2>6. copies[Anchors] \in Nat
    BY <1>1 DEF Parts, NParts, Anchors
  <2>7. q.stage = "serving" => copies[Anchors] = 1
    BY <1>1, <2>1, <2>6 DEF SeedInv, SeedWholeAndOnce, Parts, NParts, Anchors, Process
  <2>8. ComingUp(s)'
    BY <1>1, <2>1, <2>2, <2>5 DEF ComingUp
  <2>9. ~ (q.inserted >= Anchors)
    BY <2>2, <2>3 DEF Anchors
  <2> HIDE DEF q
  <2> QED
    BY <1>1, <2>1, <2>2, <2>7, <2>8, <2>9, SeedLocal
<1>6. CASE InsertPart(s)
  <2> DEFINE part == p.inserted + 1
             q == [p EXCEPT !.inserted = part]
  <2>1. /\ p.stage = "seeding" /\ part \in Parts /\ ~ Busy(s, part)
        /\ UNCHANGED <<users, copies, faults>>
        /\ \/ Exit(s)
           \/ ~ Taken(part) /\ server' = [server EXCEPT ![s].inserted = part]
    BY <1>6 DEF InsertPart, At
  <2>2. CASE Exit(s)
    BY <1>1, <2>1, <2>2, ExitKeepsSeed
  <2>3. CASE ~ Taken(part) /\ server' = [server EXCEPT ![s].inserted = part]
    <3>0. server' = [server EXCEPT ![s] = q]
      BY <2>3
    <3>1. q \in Process /\ q.stage = "seeding" /\ q.inserted = part
      BY <1>1, <2>1 DEF Process, Parts
    <3>2. copies[Anchors] = 0
      BY <1>1, <2>1, <2>3 DEF Taken, SeedInv, SeedWholeAndOnce, Parts, NParts, Anchors
    <3>3. \A t \in Servers \ {s} : ~ Holding(t)
      <4> SUFFICES ASSUME NEW t \in Servers \ {s}, Holding(t) PROVE FALSE
        OBVIOUS
      <4>1. CASE p.inserted = 0
        BY <2>1, <4>1 DEF Busy, Holding, At, Anchors
      <4>2. CASE p.inserted # 0
        <5>1. Holding(s)
          BY <1>1, <2>1, <4>2 DEF Holding, Anchors, Process, NParts
        <5> QED
          BY <5>1 DEF SeedInv
      <4> QED
        BY <4>1, <4>2
    <3>4. ComingUp(s)'
      BY <1>1, <2>1, <3>0, <3>1 DEF ComingUp
    <3> HIDE DEF q
    <3> QED
      BY <1>1, <2>1, <3>0, <3>1, <3>2, <3>3, <3>4, SeedLocal
  <2> QED
    BY <2>1, <2>2, <2>3
<1>7. CASE CommitSeed(s)
  <2> DEFINE q == [p EXCEPT !.stage = "serving"]
  <2>1. /\ p.stage = "seeding" /\ p.inserted = NParts
        /\ copies' = [part \in Parts |-> copies[part] + 1]
        /\ server' = [server EXCEPT ![s] = q] /\ q \in Process /\ q.stage = "serving"
        /\ UNCHANGED <<users, faults>>
    BY <1>1, <1>7 DEF CommitSeed, At, Process, Stages
  <2>2. Holding(s) /\ users = Accounts
    BY <1>1, <2>1 DEF Holding, NParts, Anchors, ComingUp
  <2>3. \A part \in Parts : copies[part] = 0
    BY <2>2 DEF SeedInv, SeedWholeAndOnce
  <2>4. copies' \in [Parts -> Nat] /\ \A part \in Parts : copies'[part] = 1
    BY <2>1, <2>3
  <2>5. Anchors \in Parts
    BY DEF Anchors, Parts, NParts
  <2> HIDE DEF q
  <2>6. server'[s] = q /\ \A t \in Servers \ {s} : server'[t] = server[t]
    BY <1>1, <2>1
  <2>7. StartTypeOK'
    BY <1>1, <2>1, <2>4 DEF SeedInv, StartTypeOK
  <2>8. SeedWholeAndOnce'
    BY <2>1, <2>2, <2>4, <2>5 DEF SeedWholeAndOnce
  <2>9. \A t \in Servers : ComingUp(t)'
    BY <2>1, <2>6 DEF SeedInv, ComingUp
  <2>10. \A t \in Servers : ~ Holding(t)'
    BY <2>1, <2>2, <2>6 DEF SeedInv, Holding
  <2> QED
    BY <2>7, <2>8, <2>9, <2>10 DEF SeedInv
<1> QED
  BY <1>2, <1>3, <1>4, <1>5, <1>6, <1>7 DEF ComeUp

LEMMA SeedStep ==
  ASSUME SeedInv, [Next]_vars
  PROVE  SeedInv'
<1> USE DEF startVars, limiterVars
<1>1. CASE UNCHANGED startVars
  BY <1>1 DEF SeedInv, StartTypeOK, SeedWholeAndOnce, ComingUp, Holding, At
<1>2. ASSUME NEW s \in Servers, Boot(s) PROVE SeedInv'
  BY <1>2, ComeUpKeepsSeed DEF Boot
<1>3. ASSUME NEW s \in Servers, Kill(s) \/ Shutdown(s) PROVE SeedInv'
  <2>1. Exit(s) /\ UNCHANGED <<users, copies>> /\ faults' \in 0 .. MaxFaults
    BY <1>3, StartupAssumption DEF Kill, Stop, Shutdown, SeedInv, StartTypeOK
  <2> QED
    BY <2>1, ExitKeepsSeed
<1>4. ASSUME NEW s \in Servers, Signal(s) PROVE SeedInv'
  <2> DEFINE p == [server[s] EXCEPT !.stage = "draining"]
  <2>1. server[s] \in Process /\ faults \in 0 .. MaxFaults
    BY DEF SeedInv, StartTypeOK
  <2>2. /\ p \in Process /\ p.stage = "draining" /\ server' = [server EXCEPT ![s] = p]
        /\ UNCHANGED <<users, copies>> /\ faults' \in 0 .. MaxFaults
    BY <1>4, <2>1, StartupAssumption DEF Signal, Process, Stages
  <2>3. copies[Anchors] = 1
    BY <1>4 DEF Signal, SeedInv, SeedWholeAndOnce
  <2>4. ComingUp(s)'
    BY <2>1, <2>2 DEF ComingUp, SeedInv, StartTypeOK
  <2> HIDE DEF p
  <2> QED
    BY <2>2, <2>3, <2>4, SeedLocal
<1> QED
  BY <1>1, <1>2, <1>3, <1>4 DEF Next, Pass, Accept, TimePasses, BoundsReached, vars

\* Whatever servers race, and wherever they stop, the seed is whole or absent
\* and made once, and who serves finds it.
THEOREM SeededWholeAndOnce == Spec => []SeedWholeAndOnce
<1>1. Init => SeedInv
  BY SeedInit DEF Init
<1>2. SeedInv /\ [Next]_vars => SeedInv'
  BY SeedStep
<1>3. SeedInv => SeedWholeAndOnce
  BY DEF SeedInv
<1> QED
  BY <1>1, <1>2, <1>3, PTL DEF Spec

\* The servers with what s inserts next in their open transaction: who makes
\* Busy true.
SeedersBefore(s) ==
  {t \in Servers \ {s} :
      /\ At(s, "seeding") /\ server[s].inserted + 1 \in Parts
      /\ At(t, "seeding") /\ server[t].inserted >= server[s].inserted + 1}

NoSeedersCircle == Acyclic([s \in Servers |-> SeedersBefore(s)])

\* Servers that seed at once never wait for each other's unique codes in a
\* circle, however many there are: who has inserted the anchors waits for
\* nobody, and everybody else for that one.
THEOREM SeedersPass == Spec => []NoSeedersCircle
<1>1. Init => SeedInv
  BY SeedInit DEF Init
<1>2. SeedInv /\ [Next]_vars => SeedInv'
  BY SeedStep
<1>3. SeedInv => NoSeedersCircle
  <2> SUFFICES ASSUME SeedInv, NEW S \in SUBSET Servers, S # {}
               PROVE  \E s \in S : SeedersBefore(s) \intersect S = {}
    BY DEF NoSeedersCircle, Acyclic
  <2>1. ASSUME NEW s \in Servers, NEW t \in SeedersBefore(s)
        PROVE  t \in Servers \ {s} /\ Holding(t)
    BY DEF SeedersBefore, SeedInv, StartTypeOK, Process, NParts, Parts, Anchors, Holding, At
  <2>2. CASE \E s \in S : Holding(s)
    <3>1. PICK s \in S : Holding(s)
      BY <2>2
    <3>2. SeedersBefore(s) = {}
      BY <2>1, <3>1 DEF SeedInv
    <3> QED
      BY <3>2
  <2>3. CASE \A s \in S : ~ Holding(s)
    <3>1. PICK s \in S : TRUE
      OBVIOUS
    <3> QED
      BY <2>1, <2>3, <3>1
  <2> QED
    BY <2>2, <2>3
<1> QED
  BY <1>1, <1>2, <1>3, PTL DEF Spec

----------------------------------------------------------------------------
(* The windows *)

Admitted(l, top, start) ==
  {m \in 1 .. top : l[m].admitted /\ l[m].start = start}

\* WindowsKept, of the log of one key.
LogKept(l) ==
  \A n \in DOMAIN l :
    /\ \A m \in 1 .. n - 1 :
          \/ l[m].start = l[n].start
          \/ l[m].start + Minute <= l[n].start
    /\ l[n].admitted <=> Cardinality(Admitted(l, n - 1, l[n].start)) < Limit

\* The bucket is the last window of the log, and counts it up to the limit.
BucketFits(b, l) ==
  IF b = NoBucket THEN l = <<>>
  ELSE /\ b \in Bucket /\ b.count > 0
       /\ \A n \in DOMAIN l :
             l[n].start = b.start \/ l[n].start + Minute <= b.start
       /\ Cardinality(Admitted(l, Len(l), b.start)) =
             IF b.count < Limit THEN b.count ELSE Limit

LEMMA AdmittedFinite ==
  ASSUME NEW l, NEW top \in Nat, NEW start
  PROVE  /\ IsFiniteSet(Admitted(l, top, start))
         /\ Cardinality(Admitted(l, top, start)) \in Nat
<1>1. IsFiniteSet(1 .. top)
  BY FS_Interval
<1>2. Admitted(l, top, start) \subseteq 1 .. top
  BY DEF Admitted
<1>3. IsFiniteSet(Admitted(l, top, start))
  BY <1>1, <1>2, FS_Subset
<1> QED
  BY <1>3, FS_CardinalityType

\* The window a request is counted in is the bucket's, or begins a minute or
\* more after every one in the log.
LEMMA CountKeepsLog ==
  ASSUME NEW l \in Seq(Counted), NEW b \in Bucket \union {NoBucket},
         LogKept(l), BucketFits(b, l), NEW stamp \in Nat, NEW at \in Nat,
         NEW c, c = [WindowFor(b, stamp) EXCEPT !.count = @ + 1],
         NEW e, e = [at |-> at, start |-> c.start, admitted |-> ~ Exceeded(c.count)],
         NEW after, after = Append(l, e)
  PROVE  after \in Seq(Counted) /\ c \in Bucket /\ LogKept(after) /\ BucketFits(c, after)
<1>1. Limit \in Nat \ {0} /\ Minute \in Nat \ {0} /\ NoBucket \notin Bucket
  BY LimiterAssumption
<1>2. WindowFor(b, stamp) \in Bucket
  BY DEF WindowFor, Bucket
<1>3. /\ c \in Bucket /\ c.start = WindowFor(b, stamp).start
      /\ c.count = WindowFor(b, stamp).count + 1 /\ c.count > 0
  BY <1>2 DEF Bucket
<1>4. e \in Counted /\ e.start = c.start /\ (e.admitted <=> c.count <= Limit)
  <2>1. c.start \in Nat /\ c.count \in Nat
    BY <1>3 DEF Bucket
  <2>2. (~ Exceeded(c.count)) \in BOOLEAN /\ (~ Exceeded(c.count) <=> c.count <= Limit)
    BY <1>1, <2>1 DEF Exceeded
  <2>3. e.start = c.start /\ e.admitted = ~ Exceeded(c.count)
    OBVIOUS
  <2>4. e \in Counted
    BY <2>1, <2>2 DEF Counted
  <2> QED
    BY <2>2, <2>3, <2>4
<1>5. PICK last \in Nat : last = Len(l) + 1
  OBVIOUS
<1>6. /\ after \in Seq(Counted) /\ Len(after) = last /\ DOMAIN after = 1 .. last
      /\ DOMAIN l = 1 .. last - 1
      /\ after[last] = e /\ \A n \in 1 .. last - 1 : after[n] = l[n]
      /\ \A n \in 1 .. last - 1 : l[n] \in Counted
  BY <1>4, <1>5
<1>7. \A n \in 1 .. last - 1 :
         l[n].start \in Nat /\ (l[n].start = c.start \/ l[n].start + Minute <= c.start)
  <2> SUFFICES ASSUME NEW n \in 1 .. last - 1
               PROVE  /\ l[n].start \in Nat
                      /\ l[n].start = c.start \/ l[n].start + Minute <= c.start
    OBVIOUS
  <2>1. l[n].start \in Nat
    BY <1>6 DEF Counted
  <2>2. b # NoBucket
    BY <1>5, <1>6 DEF BucketFits
  <2>3. /\ l[n].start = b.start \/ l[n].start + Minute <= b.start
        /\ b.start \in Nat
    BY <1>6, <2>2 DEF BucketFits, Bucket
  <2>4. c.start = b.start \/ b.start + Minute <= c.start
    BY <1>1, <1>3, <2>2, <2>3 DEF WindowFor
  <2>5. c.start \in Nat
    BY <1>3 DEF Bucket
  <2>6. PICK x, y, z, m \in Nat :
           x = l[n].start /\ y = b.start /\ z = c.start /\ m = Minute
    BY <1>1, <2>1, <2>3, <2>5
  <2>7. (x = y \/ x + m <= y) /\ (z = y \/ y + m <= z)
    BY <2>3, <2>4, <2>6, Zenon
  <2>8. x = z \/ x + m <= z
    BY <2>7
  <2> QED
    BY <2>1, <2>6, <2>8, Zenon
\* What was admitted in the window before this request.
<1>8. Cardinality(Admitted(l, last - 1, c.start)) =
         IF c.count - 1 < Limit THEN c.count - 1 ELSE Limit
  <2>1. CASE b # NoBucket /\ stamp - b.start < Minute
    <3>1. c.start = b.start /\ c.count - 1 = b.count
      BY <1>1, <1>3, <2>1 DEF WindowFor, BucketFits, Bucket
    <3> QED
      BY <1>5, <2>1, <3>1 DEF BucketFits
  <2>2. CASE b = NoBucket \/ stamp - b.start >= Minute
    <3>1. c.start = stamp /\ c.count - 1 = 0
      BY <1>3, <2>2 DEF WindowFor
    <3>2. \A n \in 1 .. last - 1 : l[n].start # c.start
      <4> SUFFICES ASSUME NEW n \in 1 .. last - 1 PROVE l[n].start # c.start
        OBVIOUS
      <4>1. b # NoBucket
        BY <1>5, <1>6 DEF BucketFits
      <4>2. /\ l[n].start = b.start \/ l[n].start + Minute <= b.start
            /\ b.start \in Nat /\ l[n].start \in Nat
        BY <1>6, <1>7, <4>1 DEF BucketFits, Bucket
      <4>3. \A x, y, z \in Nat, m \in Nat \ {0} :
               (x = y \/ x + m <= y) /\ z - y >= m => x # z
        OBVIOUS
      <4>4. stamp - b.start >= Minute
        BY <2>2, <4>1
      <4> QED
        BY <1>1, <3>1, <4>2, <4>3, <4>4, Zenon
    <3>3. Admitted(l, last - 1, c.start) = {}
      BY <3>2 DEF Admitted
    <3>4. Cardinality({}) = 0
      BY FS_EmptySet
    <3>5. Cardinality(Admitted(l, last - 1, c.start)) = 0
      BY <3>3, <3>4
    <3> QED
      BY <1>1, <3>1, <3>5
  <2>3. b # NoBucket => b.start \in Nat
    BY DEF Bucket
  <2> QED
    BY <1>1, <2>1, <2>2, <2>3
<1>9. \A n \in 1 .. last : \A start :
         Admitted(after, n - 1, start) = Admitted(l, n - 1, start)
  BY <1>6 DEF Admitted
<1>10. LogKept(after)
  <2> SUFFICES ASSUME NEW n \in 1 .. last
               PROVE  /\ \A m \in 1 .. n - 1 :
                            \/ after[m].start = after[n].start
                            \/ after[m].start + Minute <= after[n].start
                      /\ after[n].admitted <=>
                            Cardinality(Admitted(after, n - 1, after[n].start)) < Limit
    BY <1>6 DEF LogKept
  <2>1. CASE n < last
    <3>1. n \in DOMAIN l /\ after[n] = l[n] /\ \A m \in 1 .. n - 1 : after[m] = l[m]
      BY <1>6, <2>1
    <3>2. Admitted(after, n - 1, after[n].start) = Admitted(l, n - 1, l[n].start)
      BY <1>9, <3>1
    <3> QED
      BY <3>1, <3>2 DEF LogKept
  <2>2. CASE n = last
    <3>1. Admitted(after, n - 1, after[n].start) = Admitted(l, last - 1, c.start)
      BY <1>4, <1>6, <1>9, <2>2
    <3>2. c.count \in Nat
      BY <1>3 DEF Bucket
    <3>3. after[n].admitted <=>
             Cardinality(Admitted(after, n - 1, after[n].start)) < Limit
      BY <1>1, <1>4, <1>6, <1>8, <2>2, <3>1, <3>2
    <3>4. \A m \in 1 .. n - 1 : \/ after[m].start = after[n].start
                               \/ after[m].start + Minute <= after[n].start
      BY <1>4, <1>6, <1>7, <2>2
    <3> QED
      BY <3>3, <3>4
  <2>3. n < last \/ n = last
    OBVIOUS
  <2> QED
    BY <2>1, <2>2, <2>3
<1>11. BucketFits(c, after)
  <2>1. \A n \in DOMAIN after :
           after[n].start = c.start \/ after[n].start + Minute <= c.start
    BY <1>4, <1>6, <1>7
  <2>2. Cardinality(Admitted(after, last, c.start)) =
           IF c.count < Limit THEN c.count ELSE Limit
    <3> DEFINE A == Admitted(l, last - 1, c.start)
    <3>0. last - 1 \in Nat
      BY <1>5
    <3>1. IsFiniteSet(A) /\ Cardinality(A) \in Nat /\ last \notin A
      <4>1. last \notin A
        BY DEF Admitted
      <4> QED
        BY <3>0, <4>1, AdmittedFinite
    <3>2. c.count \in Nat
      BY <1>3 DEF Bucket
    <3>3. CASE e.admitted
      <4>1. Admitted(after, last, c.start) = A \union {last}
        BY <1>4, <1>6, <3>3 DEF Admitted
      <4>2. Cardinality(A \union {last}) = Cardinality(A) + 1
        BY <3>1, FS_AddElement
      <4>3. c.count <= Limit /\ Cardinality(A) = c.count - 1
        BY <1>1, <1>3, <1>4, <1>8, <3>2, <3>3
      <4> HIDE DEF A
      <4>4. Cardinality(Admitted(after, last, c.start)) = c.count
        <5>1. Cardinality(Admitted(after, last, c.start)) = Cardinality(A) + 1
          BY <4>1, <4>2, Zenon
        <5> QED
          BY <3>2, <4>3, <5>1
      <4> QED
        BY <1>1, <3>2, <4>3, <4>4
    <3>4. CASE ~ e.admitted
      <4>1. Admitted(after, last, c.start) = A
        BY <1>4, <1>6, <3>4 DEF Admitted
      <4> QED
        BY <1>1, <1>3, <1>4, <1>8, <3>2, <3>4, <4>1
    <3> QED
      BY <3>3, <3>4
  <2> QED
    BY <1>1, <1>3, <1>6, <2>1, <2>2 DEF BucketFits
<1> QED
  BY <1>3, <1>6, <1>10, <1>11

\* For every key, the log is kept and the bucket fits it.
WindowInv ==
  /\ now \in Nat
  /\ buckets \in [Keys -> Bucket \union {NoBucket}]
  /\ call \in [Calls -> Call \union {NoCall}]
  /\ log \in [Keys -> Seq(Counted)]
  /\ \A k \in Keys : LogKept(log[k]) /\ BucketFits(buckets[k], log[k])

LEMMA EmptyLogKept == LogKept(<<>>) /\ BucketFits(NoBucket, <<>>) /\ <<>> \in Seq(Counted)
BY DEF LogKept, BucketFits

LEMMA WindowInit == LimiterInit => WindowInv
BY EmptyLogKept DEF LimiterInit, WindowInv

LEMMA CountKeepsWindows ==
  ASSUME WindowInv, NEW g \in Calls, Count(g)
  PROVE  WindowInv'
<1>1. call[g] \in Call /\ call[g] # NoCall
  BY DEF WindowInv, Count
<1>2. PICK k \in Keys, stamp \in Nat : call[g].key = k /\ call[g].stamp = stamp
  BY <1>1 DEF Call
<1>3. PICK c : c = [WindowFor(buckets[k], stamp) EXCEPT !.count = @ + 1]
  OBVIOUS
<1>4. PICK e : e = [at |-> now, start |-> c.start, admitted |-> ~ Exceeded(c.count)]
  OBVIOUS
<1>5. PICK after : after = Append(log[k], e)
  OBVIOUS
<1>6. /\ buckets' = [buckets EXCEPT ![k] = c]
      /\ log' = [log EXCEPT ![k] = Append(@, e)]
      /\ call' = [call EXCEPT ![g] = NoCall] /\ now' = now
  BY <1>2, <1>3, <1>4 DEF Count
<1>7. PICK l \in Seq(Counted), b \in Bucket \union {NoBucket}, at \in Nat :
        l = log[k] /\ b = buckets[k] /\ at = now /\ LogKept(l) /\ BucketFits(b, l)
  BY DEF WindowInv
<1>8. after \in Seq(Counted) /\ c \in Bucket /\ LogKept(after) /\ BucketFits(c, after)
  <2>1. c = [WindowFor(b, stamp) EXCEPT !.count = @ + 1]
    BY <1>3, <1>7
  <2>2. e = [at |-> at, start |-> c.start, admitted |-> ~ Exceeded(c.count)]
    BY <1>4, <1>7
  <2>3. after = Append(l, e)
    BY <1>5, <1>7
  <2> QED
    BY <1>7, <2>1, <2>2, <2>3, CountKeepsLog
<1>9. log' = [log EXCEPT ![k] = after]
  BY <1>5, <1>6
<1> QED
  BY <1>6, <1>8, <1>9 DEF WindowInv

LEMMA WindowStep ==
  ASSUME WindowInv, [Next]_vars
  PROVE  WindowInv'
<1> USE DEF startVars, limiterVars
<1>1. CASE UNCHANGED limiterVars
  BY <1>1 DEF WindowInv
<1>2. ASSUME NEW g \in Calls, Pass(g) PROVE WindowInv'
  BY <1>2, CountKeepsWindows DEF Pass
<1>3. ASSUME NEW g \in Calls, NEW k \in Keys, Accept(g, k) PROVE WindowInv'
  <2>1. call' = [call EXCEPT ![g] = [key |-> k, stamp |-> now]]
        /\ UNCHANGED <<now, buckets, log>>
    BY <1>3 DEF Accept, ReadClock
  <2>2. [key |-> k, stamp |-> now] \in Call
    BY DEF Call, WindowInv
  <2> QED
    BY <2>1, <2>2 DEF WindowInv
<1>4. CASE TimePasses
  BY <1>4 DEF TimePasses, Tick, WindowInv
<1>5. ASSUME NEW s \in Servers, Forget(s) PROVE WindowInv'
  <2>1. /\ buckets' = [k \in Keys |-> IF k[1] = s THEN NoBucket ELSE buckets[k]]
        /\ call' = [c \in Calls |-> IF c[1] = s THEN NoCall ELSE call[c]]
        /\ log' = [k \in Keys |-> IF k[1] = s THEN <<>> ELSE log[k]]
        /\ now' = now
    BY <1>5 DEF Forget, WindowInv
  <2> QED
    BY <2>1, EmptyLogKept DEF WindowInv
<1> QED
  BY <1>1, <1>2, <1>3, <1>4, <1>5
     DEF Next, Boot, Kill, Signal, Shutdown, BoundsReached, vars

\* The limiter's windows never overlap and admit what fits in them, in
\* whatever order goroutines reach the mutex with their times.
THEOREM WindowsAreKept == Spec => []WindowsKept
<1>1. Init => WindowInv
  BY WindowInit DEF Init
<1>2. WindowInv /\ [Next]_vars => WindowInv'
  BY WindowStep
<1>3. WindowInv => WindowsKept
  <2> SUFFICES ASSUME WindowInv, NEW k \in Keys, NEW n \in DOMAIN log[k]
               PROVE  /\ \A m \in 1 .. n - 1 :
                            \/ log[k][m].start = log[k][n].start
                            \/ log[k][m].start + Minute <= log[k][n].start
                      /\ log[k][n].admitted <=>
                            Cardinality({m \in 1 .. n - 1 : log[k][m].admitted /\
                                           log[k][m].start = log[k][n].start}) < Limit
    BY DEF WindowsKept
  <2>1. LogKept(log[k])
    BY DEF WindowInv
  <2> QED
    BY <2>1 DEF LogKept, Admitted
<1> QED
  BY <1>1, <1>2, <1>3, PTL DEF Spec

----------------------------------------------------------------------------
(* The burst *)

\* How far the window of a request may have begun before it was counted.  Only
\* the request that opens a window is sure to be close to its beginning.
LogTimed(l) ==
  \A n \in DOMAIN l :
    /\ l[n].start <= l[n].at
    /\ l[n].at - l[n].start < Minute + MaxDelay
    /\ \/ l[n].at - l[n].start <= MaxDelay
       \/ \E m \in 1 .. n - 1 : l[m].admitted /\ l[m].start = l[n].start

\* Division, as far as it is needed.
LEMMA Division ==
  ASSUME NEW x \in Nat, NEW unit \in Nat \ {0}
  PROVE  /\ x \div unit \in Nat
         /\ unit * (x \div unit) <= x
         /\ x < unit * (x \div unit) + unit
OBVIOUS

LEMMA Multiples ==
  ASSUME NEW p \in Nat, NEW q \in Nat, NEW unit \in Nat \ {0}
  PROVE  /\ unit * p \in Nat
         /\ p < q => unit * p + unit <= unit * q
OBVIOUS

\* Instants less than so many units from the first fall in so many units, and
\* instants a unit apart in different ones.
LEMMA Slots ==
  ASSUME NEW x \in Nat, NEW unit \in Nat \ {0}
  PROVE  /\ \A many \in Nat : x < unit * many => x \div unit < many
         /\ \A y \in Nat : x + unit <= y => x \div unit < y \div unit
         /\ x \div unit = 0 => x < unit
<1>1. PICK p \in Nat : p = x \div unit /\ unit * p <= x /\ x < unit * p + unit
  BY Division
<1>2. ASSUME NEW many \in Nat, x < unit * many, many <= p PROVE FALSE
  <2>1. many = p \/ many < p
    BY <1>2
  <2>2. unit * many <= unit * p
    BY <2>1, Multiples
  <2> QED
    BY <1>1, <1>2, <2>2, Multiples
<1>3. ASSUME NEW y \in Nat, x + unit <= y PROVE p < y \div unit
  <2>1. PICK q \in Nat : q = y \div unit /\ y < unit * q + unit
    BY Division
  <2>2. q = p \/ q < p \/ p < q
    OBVIOUS
  <2>3. q < p => unit * q + unit <= unit * p
    BY Multiples
  <2> QED
    BY <1>1, <1>3, <2>1, <2>2, <2>3, Multiples
<1>4. p = 0 => x < unit
  BY <1>1
<1> QED
  BY <1>1, <1>2, <1>3, <1>4

\* The requests let through within a minute are as many as pairs of a window
\* and a place in it, but for the first place of the first window: whoever has
\* it was let through before the minute.
LEMMA BurstOfOneLog ==
  ASSUME NEW l \in Seq(Counted), LogKept(l), LogTimed(l), NEW n \in DOMAIN l
  PROVE  Cardinality({m \in 1 .. n : l[m].admitted /\ l[n].at - l[m].at < Minute})
            < (2 + RoundedUp(MaxDelay, Minute)) * Limit
<1>1. /\ Limit \in Nat \ {0} /\ Minute \in Nat \ {0} /\ MaxDelay \in Nat
      /\ n \in Nat /\ n \in 1 .. n /\ 1 .. n \subseteq DOMAIN l
  BY LimiterAssumption
<1>0. PICK base \in Int : base = l[n].at - 2 * Minute - MaxDelay + 1
  <2>1. l[n] \in Counted
    BY <1>1
  <2>2. PICK at \in Nat : at = l[n].at
    BY <2>1 DEF Counted
  <2>3. at - 2 * Minute - MaxDelay + 1 \in Int
    BY <1>1
  <2> QED
    BY <2>2, <2>3
<1> DEFINE S == {m \in 1 .. n : l[m].admitted /\ l[n].at - l[m].at < Minute}
           Offset(m) == l[m].start - base
           Rank(m) == Cardinality(Admitted(l, m - 1, l[m].start))
<1>2. PICK windows \in Nat : /\ windows = 2 + RoundedUp(MaxDelay, Minute)
                             /\ 2 * Minute + MaxDelay <= Minute * windows
  <2>1. PICK r \in Nat : /\ r = (MaxDelay + Minute - 1) \div Minute
                         /\ MaxDelay + Minute - 1 < Minute * r + Minute
    <3>1. MaxDelay + Minute - 1 \in Nat
      BY <1>1
    <3> QED
      BY <1>1, <3>1, Division
  <2>2. Minute * (2 + r) = 2 * Minute + Minute * r /\ Minute * r \in Nat
    BY <1>1
  <2> QED
    BY <1>1, <2>1, <2>2 DEF RoundedUp
<1>3. \A m \in 1 .. n : /\ l[m].start \in Nat /\ l[m].at \in Nat /\ m \in DOMAIN l
                        /\ l[m].start <= l[m].at
                        /\ l[m].at - l[m].start < Minute + MaxDelay
  <2> SUFFICES ASSUME NEW m \in 1 .. n
               PROVE  /\ l[m].start \in Nat /\ l[m].at \in Nat /\ m \in DOMAIN l
                      /\ l[m].start <= l[m].at
                      /\ l[m].at - l[m].start < Minute + MaxDelay
    OBVIOUS
  <2>1. m \in DOMAIN l /\ l[m] \in Counted
    BY <1>1
  <2> QED
    BY <2>1 DEF Counted, LogTimed
<1>4. \A m \in S : Offset(m) \in Nat /\ Offset(m) < Minute * windows
  <2> SUFFICES ASSUME NEW m \in S
               PROVE  Offset(m) \in Nat /\ Offset(m) < Minute * windows
    OBVIOUS
  <2>1. l[m].start <= l[n].start
    <3>1. CASE m = n
      BY <1>3, <3>1
    <3>2. CASE m # n
      <4>1. l[m].start = l[n].start \/ l[m].start + Minute <= l[n].start
        BY <1>1, <3>2 DEF LogKept
      <4> QED
        BY <1>1, <1>3, <4>1
    <3> QED
      BY <3>1, <3>2
  <2>2. /\ l[m].start \in Nat /\ l[m].at \in Nat /\ l[n].at \in Nat /\ l[n].start \in Nat
        /\ l[n].start <= l[n].at /\ l[n].at - l[m].at < Minute
        /\ l[m].at - l[m].start < Minute + MaxDelay
    BY <1>1, <1>3
  <2>3. Offset(m) \in Int /\ 0 <= Offset(m) /\ Offset(m) < 2 * Minute + MaxDelay
    <3>1. PICK start \in Nat, at \in Nat, last \in Nat, begun \in Nat :
             start = l[m].start /\ at = l[m].at /\ last = l[n].at /\ begun = l[n].start
      BY <2>2
    <3>2. start - base \in Int /\ 0 <= start - base /\ start - base < 2 * Minute + MaxDelay
      <4>1. /\ base = last - 2 * Minute - MaxDelay + 1 /\ start <= begun /\ begun <= last
            /\ last - at < Minute /\ at - start < Minute + MaxDelay
        BY <1>0, <2>1, <2>2, <3>1
      <4> HIDE DEF S
      <4>2. 0 <= start - base /\ start - base < 2 * Minute + MaxDelay
        BY <1>1, <4>1, SMTT(30)
      <4> QED
        BY <4>2
    <3> QED
      BY <3>1, <3>2
  <2>4. Minute * windows \in Nat
    BY <1>1, Multiples
  <2> HIDE DEF Offset
  <2> QED
    BY <1>1, <1>2, <2>3, <2>4
<1>5. \A m \in S : Rank(m) \in 0 .. Limit - 1
  <2> SUFFICES ASSUME NEW m \in S PROVE Rank(m) \in 0 .. Limit - 1
    OBVIOUS
  <2>1. Rank(m) < Limit
    BY <1>3 DEF LogKept
  <2>2. Rank(m) \in Nat
    BY AdmittedFinite
  <2> QED
    BY <1>1, <2>1, <2>2
<1> DEFINE Slot(m) == Offset(m) \div Minute
           F == [m \in S |-> <<Slot(m), Rank(m)>>]
           Box == (0 .. windows - 1) \X (0 .. Limit - 1)
<1>6. \A m \in S : Slot(m) \in 0 .. windows - 1
  <2> SUFFICES ASSUME NEW m \in S PROVE Slot(m) \in 0 .. windows - 1
    OBVIOUS
  <2>1. PICK x \in Nat : x = Offset(m) /\ x < Minute * windows
    BY <1>4
  <2>2. x \div Minute \in Nat /\ x \div Minute < windows
    BY <1>1, <2>1, Slots, Division
  <2> QED
    BY <2>1, <2>2
\* Different requests have different places.
<1>7. \A i, j \in S : i < j => F[i] # F[j]
  <2> SUFFICES ASSUME NEW i \in S, NEW j \in S, i < j
               PROVE  Slot(i) # Slot(j) \/ Rank(i) # Rank(j)
    BY DEF F
  <2>1. CASE l[i].start = l[j].start
    <3> DEFINE A == Admitted(l, i - 1, l[i].start)
               B == Admitted(l, j - 1, l[j].start)
    <3>1. A \subseteq B /\ i \in B /\ i \notin A
      BY <2>1 DEF Admitted
    <3>2. IsFiniteSet(B) /\ Cardinality(B) \in Nat /\ IsFiniteSet(A) /\ Cardinality(A) \in Nat
      BY AdmittedFinite
    <3> HIDE DEF A, B
    <3>3. IsFiniteSet(B \ {i}) /\ Cardinality(B \ {i}) = Cardinality(B) - 1
      BY <3>1, <3>2, FS_RemoveElement
    <3>4. Cardinality(A) <= Cardinality(B \ {i})
      BY <3>1, <3>3, FS_Subset
    <3>5. Cardinality(A) # Cardinality(B)
      BY <3>2, <3>3, <3>4
    <3> QED
      BY <3>5 DEF A, B
  <2>2. CASE l[i].start # l[j].start
    <3>1. l[i].start + Minute <= l[j].start
      BY <1>3, <2>2 DEF LogKept
    <3>2. PICK x \in Nat, y \in Nat : x = Offset(i) /\ y = Offset(j)
      BY <1>4
    <3>3. x + Minute <= y
      <4>1. l[i].start \in Nat /\ l[j].start \in Nat
        BY <1>3
      <4>2. PICK one \in Nat, other \in Nat : one = l[i].start /\ other = l[j].start
        BY <4>1
      <4>3. x = one - base /\ y = other - base /\ one + Minute <= other
        BY <3>1, <3>2, <4>2
      <4> QED
        BY <1>1, <4>3
    <3>4. x \div Minute < y \div Minute /\ x \div Minute \in Nat /\ y \div Minute \in Nat
      BY <1>1, <3>3, Slots, Division
    <3> QED
      BY <3>2, <3>4
  <2> QED
    BY <2>1, <2>2
<1>8. \A m \in S : F[m] # <<0, 0>>
  <2> SUFFICES ASSUME NEW m \in S, Slot(m) = 0, Rank(m) = 0 PROVE FALSE
    OBVIOUS
  <2>1. l[m].start - base < Minute
    <3>1. PICK x \in Nat : x = Offset(m)
      BY <1>4
    <3>2. x \div Minute = 0
      BY <3>1
    <3>3. x < Minute
      BY <1>1, <3>2, Slots
    <3> QED
      BY <3>1, <3>3
  <2>2. ~ (l[m].at - l[m].start <= MaxDelay)
    <3>1. l[m].start \in Nat /\ l[m].at \in Nat /\ l[n].at \in Nat
          /\ l[n].at - l[m].at < Minute
      BY <1>1, <1>3
    <3> QED
      <4>1. PICK start \in Nat, at \in Nat, last \in Nat :
               start = l[m].start /\ at = l[m].at /\ last = l[n].at
        BY <3>1
      <4> QED
        <5>1. /\ base = last - 2 * Minute - MaxDelay + 1 /\ start - base < Minute
              /\ last - at < Minute
          BY <1>0, <2>1, <3>1, <4>1
        <5>2. ~ (at - start <= MaxDelay)
          BY <1>1, <5>1, SMTT(30)
        <5> QED
          BY <4>1, <5>2
  <2>3. PICK j \in 1 .. m - 1 : l[j].admitted /\ l[j].start = l[m].start
    BY <1>3, <2>2 DEF LogTimed
  <2>4. j \in Admitted(l, m - 1, l[m].start)
    BY <2>3 DEF Admitted
  <2>5. IsFiniteSet(Admitted(l, m - 1, l[m].start))
    BY AdmittedFinite
  <2> QED
    BY <2>4, <2>5, FS_EmptySet
<1>9. /\ IsFiniteSet(Box) /\ Cardinality(Box) = windows * Limit
      /\ <<0, 0>> \in Box
  <2>1. windows >= 2
    <3>1. windows = 0 \/ windows = 1 \/ windows >= 2
      OBVIOUS
    <3>2. windows = 0 => Minute * windows = 0
      BY <1>1
    <3>3. windows = 1 => Minute * windows = Minute
      BY <1>1
    <3> QED
      BY <1>1, <1>2, <3>1, <3>2, <3>3
  <2>2. /\ IsFiniteSet(0 .. windows - 1) /\ Cardinality(0 .. windows - 1) = windows
        /\ IsFiniteSet(0 .. Limit - 1) /\ Cardinality(0 .. Limit - 1) = Limit
    <3>1. \A k \in Nat \ {0} : IsFiniteSet(0 .. k - 1) /\ Cardinality(0 .. k - 1) = k
      <4> SUFFICES ASSUME NEW k \in Nat \ {0}
                   PROVE  IsFiniteSet(0 .. k - 1) /\ Cardinality(0 .. k - 1) = k
        OBVIOUS
      <4>1. PICK top \in Int : top = k - 1 /\ ~ (0 > top) /\ top - 0 + 1 = k
        OBVIOUS
      <4>2. /\ IsFiniteSet(0 .. top)
            /\ Cardinality(0 .. top) = IF 0 > top THEN 0 ELSE top - 0 + 1
        BY FS_Interval
      <4> QED
        BY <4>1, <4>2
    <3>2. windows \in Nat \ {0} /\ Limit \in Nat \ {0}
      BY <1>1, <2>1
    <3> QED
      BY <3>1, <3>2
  <2>3. PICK X, Y : X = 0 .. windows - 1 /\ Y = 0 .. Limit - 1
    OBVIOUS
  <2>4. IsFiniteSet(X \X Y) /\ Cardinality(X \X Y) = windows * Limit
    <3>1. /\ IsFiniteSet(X) /\ Cardinality(X) = windows
          /\ IsFiniteSet(Y) /\ Cardinality(Y) = Limit
      BY <2>2, <2>3, Zenon
    <3>2. /\ IsFiniteSet(X \X Y)
          /\ Cardinality(X \X Y) = Cardinality(X) * Cardinality(Y)
      BY <3>1, FS_Product, Zenon
    <3> QED
      BY <3>1, <3>2, Zenon
  <2>5. <<0, 0>> \in Box
    BY <1>1, <2>1
  <2> QED
    BY <2>3, <2>4, <2>5
<1> HIDE DEF Slot, Rank, Offset
<1>10. F \in [S -> Box]
  BY <1>5, <1>6
<1>11. F \in Injection(S, Box)
  <2>1. \A i, j \in S : F[i] = F[j] => i = j
    <3> HIDE DEF F
    <3>1. \A i, j \in S : i \in Nat /\ j \in Nat
      BY <1>1
    <3>2. \A i, j \in S : i = j \/ i < j \/ j < i
      BY <3>1
    <3> QED
      BY <1>7, <3>2
  <2> HIDE DEF F, Box, S
  <2> QED
    BY <1>10, <2>1 DEF Injection, IsInjective
<1>12. F \notin Surjection(S, Box)
  <2> HIDE DEF F, Box, S
  <2> QED
    BY <1>8, <1>9 DEF Surjection
<1>13. Cardinality(S) < windows * Limit
  <2> HIDE DEF F, Box, S
  <2>1. /\ IsFiniteSet(S) /\ Cardinality(S) <= Cardinality(Box)
        /\ Cardinality(S) # Cardinality(Box)
    BY <1>9, <1>11, <1>12, FS_Injection
  <2>2. Cardinality(S) \in Nat /\ Cardinality(Box) \in Nat
    BY <1>9, <2>1, FS_CardinalityType
  <2> QED
    BY <1>9, <2>1, <2>2
<1> QED
  BY <1>2, <1>13

\* No window begins in the future.
NotAhead(b, at) == b # NoBucket => b.start <= at

\* What a request brings to the mutex, and finds there.
InTime(b, stamp, at) ==
  stamp <= at /\ at - stamp <= MaxDelay /\ NotAhead(b, at)

\* What the critical section makes of a bucket, and the entry it is counted by.
After(b, stamp) == [WindowFor(b, stamp) EXCEPT !.count = @ + 1]

EntryFor(b, stamp, at) ==
  [at |-> at, start |-> After(b, stamp).start,
   admitted |-> ~ Exceeded(After(b, stamp).count)]

\* A request joins a window that has not passed for its time, or opens one at
\* its time.
LEMMA CountKeepsTimed ==
  ASSUME NEW l \in Seq(Counted), NEW b \in Bucket \union {NoBucket},
         LogTimed(l), BucketFits(b, l), NEW stamp \in Nat, NEW at \in Nat,
         InTime(b, stamp, at)
  PROVE  /\ LogTimed(Append(l, EntryFor(b, stamp, at)))
         /\ NotAhead(After(b, stamp), at)
<1> DEFINE c == After(b, stamp)
           e == EntryFor(b, stamp, at)
           after == Append(l, e)
<1>1. /\ Limit \in Nat \ {0} /\ Minute \in Nat \ {0} /\ MaxDelay \in Nat
      /\ NoBucket \notin Bucket
  BY LimiterAssumption
<1> USE DEF InTime, NotAhead
<1>2. PICK last \in Nat : last = Len(l) + 1
  OBVIOUS
<1>3. /\ DOMAIN after = 1 .. last /\ DOMAIN l = 1 .. last - 1
      /\ after[last] = e /\ \A n \in 1 .. last - 1 : after[n] = l[n]
  <2> HIDE DEF e
  <2> QED
    BY <1>2
<1>4. e.at = at /\ e.start = c.start
  BY DEF EntryFor
<1>5. c.start = WindowFor(b, stamp).start
  <2>1. WindowFor(b, stamp) \in Bucket
    BY DEF WindowFor, Bucket
  <2> QED
    BY <2>1 DEF Bucket, After
<1> HIDE DEF c, e
<1>6. /\ c.start <= at /\ at - c.start < Minute + MaxDelay
      /\ \/ at - c.start <= MaxDelay
         \/ \E m \in 1 .. last - 1 : l[m].admitted /\ l[m].start = c.start
  <2>1. CASE b = NoBucket \/ stamp - b.start >= Minute
    <3>1. c.start = stamp
      BY <1>5, <2>1 DEF WindowFor
    <3> QED
      BY <1>1, <3>1
  <2>2. CASE b # NoBucket /\ ~ (stamp - b.start >= Minute)
    <3>1. PICK start \in Nat : start = b.start /\ start = c.start /\ b.count \in Nat
      BY <1>5, <2>2 DEF WindowFor, Bucket
    <3>2. start <= at /\ at - start < Minute + MaxDelay
      BY <1>1, <2>2, <3>1
    <3>3. Cardinality(Admitted(l, last - 1, start)) # 0
      <4>1. /\ b.count > 0
            /\ Cardinality(Admitted(l, Len(l), b.start)) =
                  IF b.count < Limit THEN b.count ELSE Limit
        BY <2>2 DEF BucketFits
      <4>2. Len(l) = last - 1
        BY <1>2
      <4> QED
        BY <1>1, <3>1, <4>1, <4>2
    <3>4. PICK m : m \in Admitted(l, last - 1, start)
      BY <3>3, FS_EmptySet
    <3> QED
      BY <3>1, <3>2, <3>4 DEF Admitted
  <2> QED
    BY <2>1, <2>2
<1>7. ASSUME NEW n \in 1 .. last
      PROVE  /\ after[n].start <= after[n].at
             /\ after[n].at - after[n].start < Minute + MaxDelay
             /\ \/ after[n].at - after[n].start <= MaxDelay
                \/ \E m \in 1 .. n - 1 : after[m].admitted /\ after[m].start = after[n].start
  <2>1. CASE n = last
    BY <1>3, <1>4, <1>6, <2>1
  <2>2. CASE n # last
    <3>1. n \in DOMAIN l /\ after[n] = l[n] /\ \A m \in 1 .. n - 1 : after[m] = l[m]
      BY <1>3, <2>2
    <3> QED
      BY <3>1 DEF LogTimed
  <2> QED
    BY <2>1, <2>2
<1> QED
  BY <1>3, <1>6, <1>7 DEF LogTimed, c, e

\* The clock was read at most MaxDelay ago, and no window begins in the future.
TimedInv ==
  /\ \A g \in Calls : call[g] # NoCall =>
        call[g].stamp <= now /\ now - call[g].stamp <= MaxDelay
  /\ \A k \in Keys :
        /\ NotAhead(buckets[k], now)
        /\ LogTimed(log[k])

LEMMA TimedStep ==
  ASSUME WindowInv, TimedInv, [Next]_vars
  PROVE  TimedInv'
<1> USE DEF startVars, limiterVars
<1>1. CASE UNCHANGED limiterVars
  BY <1>1 DEF TimedInv, LogTimed, NotAhead
<1>2. ASSUME NEW g \in Calls, Count(g) PROVE TimedInv'
  <2>1. call[g] \in Call /\ call[g] # NoCall
    BY <1>2 DEF WindowInv, Count
  <2>2. PICK k \in Keys, stamp \in Nat :
           /\ call[g].key = k /\ call[g].stamp = stamp
           /\ stamp <= now /\ now - stamp <= MaxDelay
    BY <2>1 DEF Call, TimedInv
  <2>3. PICK l \in Seq(Counted), b \in Bucket \union {NoBucket}, at \in Nat :
          /\ l = log[k] /\ b = buckets[k] /\ at = now
          /\ LogTimed(l) /\ BucketFits(b, l) /\ NotAhead(b, at)
    BY DEF WindowInv, TimedInv
  <2>4. InTime(b, stamp, at)
    BY <2>2, <2>3 DEF InTime
  <2>5. PICK c, after : c = After(b, stamp) /\ after = Append(l, EntryFor(b, stamp, at))
    OBVIOUS
  <2>6. LogTimed(after) /\ NotAhead(c, at)
    BY <2>3, <2>4, <2>5, CountKeepsTimed
  <2>7. /\ buckets' = [buckets EXCEPT ![k] = c]
        /\ log' = [log EXCEPT ![k] = after]
        /\ call' = [call EXCEPT ![g] = NoCall] /\ now' = now
    BY <1>2, <2>2, <2>3, <2>5 DEF Count, After, EntryFor
  <2> QED
    BY <2>3, <2>6, <2>7 DEF TimedInv, WindowInv, NotAhead
<1>3. ASSUME NEW g \in Calls, NEW k \in Keys, Accept(g, k) PROVE TimedInv'
  <2>1. call' = [call EXCEPT ![g] = [key |-> k, stamp |-> now]]
        /\ UNCHANGED <<now, buckets, log>>
    BY <1>3 DEF Accept, ReadClock
  <2>2. now <= now /\ now - now <= MaxDelay
    BY LimiterAssumption DEF WindowInv
  <2> QED
    BY <2>1, <2>2 DEF TimedInv, WindowInv, NotAhead
<1>4. CASE TimePasses
  <2>1. /\ now' = now + 1 /\ UNCHANGED <<buckets, call, log>>
        /\ \A g \in Calls : call[g] # NoCall => now - call[g].stamp < MaxDelay
    BY <1>4 DEF TimePasses, Tick
  <2>2. ASSUME NEW g \in Calls, call[g] # NoCall
        PROVE  call[g].stamp <= now + 1 /\ (now + 1) - call[g].stamp <= MaxDelay
    <3>1. PICK stamp \in Nat, at \in Nat :
             stamp = call[g].stamp /\ at = now /\ stamp <= at /\ at - stamp < MaxDelay
      BY <2>1, <2>2 DEF TimedInv, WindowInv, NotAhead, Call
    <3>2. stamp <= at + 1 /\ (at + 1) - stamp <= MaxDelay
      BY <3>1, LimiterAssumption
    <3> QED
      BY <3>1, <3>2
  <2>3. ASSUME NEW k \in Keys, buckets[k] # NoBucket PROVE buckets[k].start <= now + 1
    <3>1. PICK start \in Nat, at \in Nat : start = buckets[k].start /\ at = now /\ start <= at
      BY <2>3 DEF TimedInv, WindowInv, Bucket, NotAhead
    <3> QED
      BY <3>1
  <2> QED
    BY <2>1, <2>2, <2>3 DEF TimedInv, NotAhead
<1>5. ASSUME NEW s \in Servers, Forget(s) PROVE TimedInv'
  <2>1. /\ buckets' = [k \in Keys |-> IF k[1] = s THEN NoBucket ELSE buckets[k]]
        /\ call' = [c \in Calls |-> IF c[1] = s THEN NoCall ELSE call[c]]
        /\ log' = [k \in Keys |-> IF k[1] = s THEN <<>> ELSE log[k]]
        /\ now' = now
    BY <1>5 DEF Forget, WindowInv
  <2>2. LogTimed(<<>>)
    BY DEF LogTimed
  <2> QED
    BY <2>1, <2>2 DEF TimedInv, NotAhead
<1> QED
  BY <1>1, <1>2, <1>3, <1>4, <1>5
     DEF Next, Pass, Boot, Kill, Signal, Shutdown, BoundsReached, vars

\* No minute lets through as many requests as fit in two windows, and in one
\* more for every minute a goroutine may be late, whatever the limit.
THEOREM BurstsAreBounded == Spec => []BurstBounded
<1>1. Init => WindowInv /\ TimedInv
  <2>1. LogTimed(<<>>)
    BY DEF LogTimed
  <2> QED
    BY <2>1, WindowInit DEF Init, LimiterInit, TimedInv, NotAhead
<1>2. WindowInv /\ TimedInv /\ [Next]_vars => WindowInv' /\ TimedInv'
  BY WindowStep, TimedStep
<1>3. WindowInv /\ TimedInv => BurstBounded
  <2> SUFFICES ASSUME WindowInv, TimedInv, NEW k \in Keys, NEW n \in DOMAIN log[k]
               PROVE  Cardinality({m \in 1 .. n : log[k][m].admitted /\
                                     log[k][n].at - log[k][m].at < Minute})
                         < (2 + RoundedUp(MaxDelay, Minute)) * Limit
    BY DEF BurstBounded
  <2>1. PICK l \in Seq(Counted) : l = log[k] /\ LogKept(l) /\ LogTimed(l)
    BY DEF WindowInv, TimedInv
  <2> QED
    BY <2>1, BurstOfOneLog
<1> QED
  BY <1>1, <1>2, <1>3, PTL DEF Spec
=============================================================================
