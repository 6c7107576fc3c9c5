----------------------- MODULE ScenarioFreeze_proofs -----------------------
(***************************************************************************)
(* What a frozen snapshot is worth although it is read in several          *)
(* statements: theorems for every inventory, every page size and any       *)
(* number of changes while it is read.                                     *)
(***************************************************************************)
EXTENDS ScenarioFreeze, FiniteSetTheorems, TLAPS

(***************************************************************************)
(* The page.                                                               *)
(***************************************************************************)

\* What comes before a chain is finite and does not hold the chain.
LEMMA BeforeFinite ==
  ASSUME NEW E \in SUBSET ChainIds, NEW c \in E
  PROVE  /\ IsFiniteSet(E) /\ IsFiniteSet(Before(c, E))
         /\ Cardinality(E) \in Nat /\ Cardinality(Before(c, E)) \in Nat
         /\ Cardinality(Before(c, E)) < Cardinality(E)
<1>1. IsFiniteSet(E)
  BY FS_Subset, FreezeAssumption DEF FreezeAssumption
<1>2. Before(c, E) \subseteq E \ {c}
  BY FreezeAssumption DEF FreezeAssumption, Before
<1>3. IsFiniteSet(E \ {c}) /\ Cardinality(E \ {c}) = Cardinality(E) - 1
  BY <1>1, FS_RemoveElement
<1>4. IsFiniteSet(Before(c, E)) /\ Cardinality(Before(c, E)) <= Cardinality(E \ {c})
  BY <1>2, <1>3, FS_Subset
<1>5. Cardinality(E) \in Nat /\ Cardinality(Before(c, E)) \in Nat
  BY <1>1, <1>4, FS_CardinalityType
<1> QED
  BY <1>1, <1>3, <1>4, <1>5

\* An earlier chain has fewer before it.
LEMMA BeforeGrows ==
  ASSUME NEW E \in SUBSET ChainIds, NEW c \in E, NEW d \in E, Rank[c] < Rank[d]
  PROVE  Cardinality(Before(c, E)) < Cardinality(Before(d, E))
<1>1. Rank[c] \in Nat /\ Rank[d] \in Nat
  BY FreezeAssumption DEF FreezeAssumption
<1>2. Before(c, E) \subseteq Before(d, E) \ {c}
  <2> SUFFICES ASSUME NEW e \in E, Rank[e] < Rank[c]
               PROVE  Rank[e] < Rank[d] /\ e # c
    BY DEF Before
  <2>1. Rank[e] \in Nat
    BY FreezeAssumption DEF FreezeAssumption
  <2> QED
    BY <1>1, <2>1
<1>3. c \in Before(d, E)
  BY DEF Before
<1>4. IsFiniteSet(Before(d, E)) /\ Cardinality(Before(d, E)) \in Nat
      /\ Cardinality(Before(c, E)) \in Nat
  BY BeforeFinite
<1>5. IsFiniteSet(Before(d, E) \ {c})
      /\ Cardinality(Before(d, E) \ {c}) = Cardinality(Before(d, E)) - 1
  BY <1>3, <1>4, FS_RemoveElement
<1>6. Cardinality(Before(c, E)) <= Cardinality(Before(d, E) \ {c})
  BY <1>2, <1>5, FS_Subset
<1> QED
  BY <1>4, <1>5, <1>6

\* A chain that is not on the page is kept out by a full one, all of whose
\* chains come before it.
LEMMA PageFull ==
  ASSUME NEW E \in SUBSET ChainIds, NEW x \in E, x \notin Page(E)
  PROVE  /\ Cardinality(Page(E)) = PageSize
         /\ \A c \in Page(E) : Rank[c] < Rank[x]
<1> DEFINE at == [c \in E |-> Cardinality(Before(c, E))]
           n == Cardinality(E)
           on == [c \in Page(E) |-> at[c]]
<1>1. n \in Nat /\ IsFiniteSet(E) /\ PageSize \in Nat
  BY BeforeFinite, FreezeAssumption DEF FreezeAssumption
<1>2. at \in [E -> 0 .. n - 1]
  BY <1>1, BeforeFinite
<1>3. \A c, d \in E : Rank[c] < Rank[d] => at[c] < at[d]
  BY BeforeGrows
<1>4. \A c, d \in E : c # d => at[c] # at[d]
  <2> SUFFICES ASSUME NEW c \in E, NEW d \in E, c # d PROVE at[c] # at[d]
    OBVIOUS
  <2>1. Rank[c] < Rank[d] \/ Rank[d] < Rank[c]
    BY FreezeAssumption DEF FreezeAssumption
  <2>2. at[c] \in 0 .. n - 1 /\ at[d] \in 0 .. n - 1
    BY <1>2
  <2> HIDE DEF at, n
  <2> QED
    BY <1>1, <1>3, <2>1, <2>2
<1>5. PageSize <= at[x] /\ at[x] \in 0 .. n - 1
  <2>1. ~ (at[x] < PageSize)
    BY DEF Page
  <2>2. at[x] \in 0 .. n - 1
    BY <1>2
  <2> HIDE DEF at, n
  <2> QED
    BY <1>1, <2>1, <2>2
<1>6. \A k \in 0 .. n - 1 : \E c \in E : at[c] = k
  <2>1. at \in Injection(E, 0 .. n - 1)
    BY <1>2, <1>4 DEF Injection, IsInjective
  <2>2. IsFiniteSet(0 .. n - 1) /\ Cardinality(0 .. n - 1) = n
    <3> HIDE DEF n
    <3>1. n - 1 \in Int /\ 0 \in Int
      BY <1>1
    <3>2. IsFiniteSet(0 .. n - 1)
          /\ Cardinality(0 .. n - 1) = IF 0 > n - 1 THEN 0 ELSE (n - 1) - 0 + 1
      BY <3>1, FS_Interval
    <3> QED
      BY <1>1, <3>2
  <2>3. at \in Surjection(E, 0 .. n - 1)
    BY <2>1, <2>2, FS_Injection
  <2> QED
    BY <2>3 DEF Surjection
<1>7. \A c \in E : c \in Page(E) <=> at[c] < PageSize
  BY DEF Page
<1>8. Page(E) \subseteq E
  BY DEF Page
<1> HIDE DEF at, n
<1>9. Cardinality(Page(E)) = PageSize
  <2>1. on \in [Page(E) -> 0 .. PageSize - 1]
    <3> SUFFICES ASSUME NEW c \in Page(E) PROVE at[c] \in 0 .. PageSize - 1
      OBVIOUS
    <3>1. at[c] \in 0 .. n - 1 /\ at[c] < PageSize
      BY <1>2, <1>7, <1>8
    <3> QED
      BY <1>1, <3>1
  <2>2. \A k \in 0 .. PageSize - 1 : \E c \in Page(E) : on[c] = k
    <3> SUFFICES ASSUME NEW k \in 0 .. PageSize - 1 PROVE \E c \in Page(E) : on[c] = k
      OBVIOUS
    <3>1. k \in 0 .. n - 1 /\ k < PageSize
      BY <1>1, <1>5
    <3>2. PICK c \in E : at[c] = k
      BY <1>6, <3>1
    <3> QED
      BY <1>7, <3>1, <3>2
  <2>3. \A c, d \in Page(E) : c # d => on[c] # on[d]
    BY <1>4, <1>8
  <2> HIDE DEF on
  <2>4. on \in Bijection(Page(E), 0 .. PageSize - 1)
    BY <2>1, <2>2, <2>3 DEF Bijection, Injection, Surjection, IsInjective
  <2>5. ExistsBijection(Page(E), 0 .. PageSize - 1)
    BY <2>4 DEF ExistsBijection
  <2>6. IsFiniteSet(Page(E))
    BY <1>1, <1>8, FS_Subset
  <2>7. Cardinality(Page(E)) = Cardinality(0 .. PageSize - 1)
    BY <2>5, <2>6, FS_Bijection
  <2>8. PageSize - 1 \in Int /\ 0 \in Int
    BY <1>1
  <2>9. Cardinality(0 .. PageSize - 1)
            = IF 0 > PageSize - 1 THEN 0 ELSE (PageSize - 1) - 0 + 1
    BY <2>8, FS_Interval
  <2>10. Cardinality(0 .. PageSize - 1) = PageSize
    BY <1>1, <2>9
  <2> QED
    BY <2>7, <2>10
<1>10. ASSUME NEW c \in Page(E) PROVE Rank[c] < Rank[x]
  <2>1. c \in E /\ at[c] < PageSize /\ at[c] \in 0 .. n - 1 /\ x # c
    BY <1>2, <1>7, <1>8
  <2>2. Rank[c] < Rank[x] \/ Rank[x] < Rank[c]
    BY <2>1, FreezeAssumption DEF FreezeAssumption
  <2>3. Rank[x] < Rank[c] => at[x] < at[c]
    BY <1>3, <2>1
  <2> QED
    BY <1>1, <1>5, <2>1, <2>2, <2>3
<1> QED
  BY <1>9, <1>10

(***************************************************************************)
(* The invariant: what has been read so far is a page of what existed, and *)
(* what existed still does.                                                *)
(***************************************************************************)

\* The request got as far as reading the chains.
Listed ==
    \/ freeze.stage \in {"listed", "frozen"}
    \/ freeze.refusal \in {"candidate_missing", "cyclic"}

ChainsRead ==
    IF Listed
    THEN /\ FrozenChains = Page(freeze.existed)
         /\ freeze.candidates \subseteq freeze.existed
         /\ freeze.existed \subseteq Existing
    ELSE FrozenChains = {}

CandidatesChecked ==
    freeze.stage = "checked" => freeze.candidates \subseteq Existing

ServicesFrozen ==
    IF freeze.stage = "frozen"
    THEN \A s \in ServiceIds : freeze.services[s] # Absent =>
            /\ \A d \in freeze.services[s].edges : freeze.services[d] # Absent
            /\ chains[freeze.services[s].chain] # Absent
    ELSE \A s \in ServiceIds : freeze.services[s] = Absent

MissingExplained ==
    freeze.refusal = "candidate_missing" => ~ (freeze.candidates \subseteq FrozenChains)

Refused == freeze.refusal # "none" => freeze.stage = "refused"

\* The chains read are those of one of the moments seen so far, the services
\* those of this one or of a later one.
ChainsOf(m) == m \in DOMAIN past /\ freeze.chains = PageOf(past[m].chains)

PastSound ==
    /\ freeze.stage \in {"checked", "listed"} => past[Len(past)] = Now
    /\ freeze.stage \in {"checked", "listed", "frozen"} =>
          past # <<>> /\ \A c \in freeze.candidates : past[1].chains[c] # Absent
    /\ freeze.stage = "listed" => \E m \in DOMAIN past : ChainsOf(m)
    /\ freeze.stage = "frozen" =>
          \E m, n \in DOMAIN past :
             m <= n /\ ChainsOf(m) /\ freeze.services = past[n].services

FreezeInv ==
    /\ TypeOK
    /\ References
    /\ Refused /\ CandidatesChecked /\ ChainsRead /\ ServicesFrozen
    /\ MissingExplained
    /\ PastSound

\* What the changes of others may not do: nothing is removed.
NothingRemoved ==
    /\ \A c \in ChainIds : chains[c] # Absent => chains'[c] # Absent
    /\ \A s \in ServiceIds : services[s] # Absent => services'[s] # Absent

\* Changes keep the types and the references.
LEMMA ChangeKeepsRows ==
  ASSUME TypeOK, References, Next
  PROVE  /\ chains' \in [ChainIds -> ChainStates \union {Absent}]
         /\ services' \in [ServiceIds -> Service \union {Absent}]
         /\ References'
         /\ NothingRemoved
<1> USE FreezeAssumption DEF FreezeAssumption
<1>1. ASSUME NEW c \in ChainIds, ImportChain(c)
      PROVE  /\ chains' \in [ChainIds -> ChainStates \union {Absent}]
             /\ services' \in [ServiceIds -> Service \union {Absent}]
             /\ References'
             /\ NothingRemoved
  <2>1. /\ chains[c] = Absent /\ chains' = [chains EXCEPT ![c] = "validated"]
        /\ services' = services
    BY <1>1 DEF ImportChain
  <2>2. "validated" \in ChainStates
    BY DEF ChainStates
  <2>3. \A d \in ChainIds : chains[d] # Absent => chains'[d] = chains[d]
    BY <2>1 DEF TypeOK
  <2>4. "validated" # Absent
    BY <2>2
  <2>5. chains' \in [ChainIds -> ChainStates \union {Absent}]
    BY <2>1, <2>2 DEF TypeOK
  <2>6. NothingRemoved
    BY <2>1, <2>3 DEF NothingRemoved, TypeOK
  <2>7. ASSUME NEW t \in ServiceIds, services[t] # Absent
        PROVE  chains'[services[t].chain] # Absent
    <3>1. services[t].chain \in ChainIds /\ chains[services[t].chain] # Absent
      BY <2>7 DEF References, RefersTo, TypeOK, Service
    <3> QED
      BY <2>3, <3>1
  <2>8. References'
    BY <2>1, <2>7 DEF References, RefersTo
  <2> QED
    BY <2>1, <2>5, <2>6, <2>8 DEF TypeOK
<1>2. ASSUME NEW c \in ChainIds, NEW to \in ChainStates, MoveChain(c, to)
      PROVE  /\ chains' \in [ChainIds -> ChainStates \union {Absent}]
             /\ services' \in [ServiceIds -> Service \union {Absent}]
             /\ References'
             /\ NothingRemoved
  <2>1. /\ chains[c] # Absent /\ chains' = [chains EXCEPT ![c] = to]
        /\ CanTransitionChain(chains[c], to)
        /\ services' = services
    BY <1>2 DEF MoveChain
  <2>2. to # Absent
    OBVIOUS
  <2>3. \A d \in ChainIds : chains[d] # Absent =>
            chains'[d] # Absent /\ (chains'[d] = chains[d] \/ (d = c /\ chains'[d] = to))
    BY <2>1 DEF TypeOK
  <2>4. chains' \in [ChainIds -> ChainStates \union {Absent}]
    BY <2>1 DEF TypeOK
  <2>5. NothingRemoved
    BY <2>1, <2>2, <2>3 DEF NothingRemoved, TypeOK
  <2>6. References'
    BY <2>1, <2>3 DEF References, RefersTo, TypeOK, Service
  <2> QED
    BY <2>1, <2>4, <2>5, <2>6 DEF TypeOK
<1>3. ASSUME NEW s \in ServiceIds, NEW chain \in ChainIds, NEW edges \in SUBSET ServiceIds,
             StoreService(s, chain, edges)
      PROVE  /\ chains' \in [ChainIds -> ChainStates \union {Absent}]
             /\ services' \in [ServiceIds -> Service \union {Absent}]
             /\ References'
             /\ NothingRemoved
  <2> DEFINE row == [chain |-> chain, edges |-> edges,
                     state |-> IF services[s] = Absent THEN "active" ELSE services[s].state]
  <2>1. /\ RefersTo(s, chain, edges) /\ chains' = chains
        /\ services' = [services EXCEPT ![s] = row]
    BY <1>3 DEF StoreService
  <2>2. row \in Service /\ row.chain = chain /\ row.edges = edges
        /\ (services[s] # Absent => row.state = services[s].state)
    BY DEF Service, TypeOK
  <2> HIDE DEF row
  <2>3. row # Absent
    BY <2>2
  <2>4. services' \in [ServiceIds -> Service \union {Absent}]
    BY <2>1, <2>2 DEF TypeOK
  <2>5. services'[s] = row /\ \A t \in ServiceIds \ {s} : services'[t] = services[t]
    BY <2>1 DEF TypeOK
  <2>6. NothingRemoved
    BY <2>1, <2>2, <2>3, <2>5 DEF NothingRemoved, TypeOK
  <2>7. ASSUME NEW t \in ServiceIds, services'[t] # Absent
        PROVE  RefersTo(t, services[t].chain, services[t].edges)'
    <3>1. CASE t = s
      BY <2>1, <2>2, <2>3, <2>5, <3>1 DEF RefersTo
    <3>2. CASE t # s
      <4>1. services'[t] = services[t] /\ RefersTo(t, services[t].chain, services[t].edges)
        BY <2>5, <2>7, <3>2 DEF References
      <4>2. services[t].edges \subseteq ServiceIds
        BY <2>7, <4>1 DEF TypeOK, Service
      <4> QED
        BY <2>1, <2>3, <2>5, <4>1, <4>2 DEF RefersTo
    <3> QED
      BY <3>1, <3>2
  <2>8. References'
    BY <2>7 DEF References
  <2> QED
    BY <2>1, <2>4, <2>6, <2>8 DEF TypeOK
<1>4. ASSUME NEW s \in ServiceIds, RetireService(s)
      PROVE  /\ chains' \in [ChainIds -> ChainStates \union {Absent}]
             /\ services' \in [ServiceIds -> Service \union {Absent}]
             /\ References'
             /\ NothingRemoved
  <2> DEFINE row == [services[s] EXCEPT !.state = "inactive"]
  <2>1. /\ services[s] # Absent /\ chains' = chains
        /\ services' = [services EXCEPT ![s] = row]
    BY <1>4 DEF RetireService
  <2>2. services[s] \in Service
    BY <2>1 DEF TypeOK
  <2>3. row \in Service /\ row.chain = services[s].chain /\ row.edges = services[s].edges
        /\ row.state = "inactive"
    BY <2>2 DEF Service
  <2> HIDE DEF row
  <2>4. row # Absent
    BY <2>3
  <2>5. services' \in [ServiceIds -> Service \union {Absent}]
    BY <2>1, <2>3 DEF TypeOK
  <2>6. services'[s] = row /\ \A t \in ServiceIds \ {s} : services'[t] = services[t]
    BY <2>1 DEF TypeOK
  <2>7. NothingRemoved
    BY <2>1, <2>3, <2>4, <2>6 DEF NothingRemoved, TypeOK
  <2>8. ASSUME NEW t \in ServiceIds, services'[t] # Absent
        PROVE  RefersTo(t, services[t].chain, services[t].edges)'
    <3>1. /\ services[t] # Absent
          /\ services'[t].chain = services[t].chain
          /\ services'[t].edges = services[t].edges
      BY <2>1, <2>3, <2>6, <2>8
    <3>2. RefersTo(t, services[t].chain, services[t].edges)
      BY <3>1 DEF References
    <3>3. services[t].edges \subseteq ServiceIds
      BY <3>1 DEF TypeOK, Service
    <3> QED
      BY <2>1, <2>4, <2>6, <3>1, <3>2, <3>3 DEF RefersTo
  <2>9. References'
    BY <2>8 DEF References
  <2> QED
    BY <2>1, <2>5, <2>7, <2>9 DEF TypeOK
<1> QED
  BY <1>1, <1>2, <1>3, <1>4 DEF Next

\* A change leaves the request alone.
LEMMA ChangeSound ==
  ASSUME FreezeInv, Change
  PROVE  FreezeInv'
<1> USE FreezeAssumption DEF FreezeAssumption
<1>0. /\ Next /\ UNCHANGED freeze
      /\ changes < MaxChanges /\ changes' = changes + 1
      /\ freeze.stage \in {"idle", "checked", "listed"}
      /\ past' = IF freeze = Idle THEN past ELSE Append(past, Now')
  BY DEF Change
<1>1. /\ chains' \in [ChainIds -> ChainStates \union {Absent}]
      /\ services' \in [ServiceIds -> Service \union {Absent}]
      /\ References'
      /\ NothingRemoved
  BY <1>0, ChangeKeepsRows DEF FreezeInv
<1>2. Existing \subseteq Existing'
  BY <1>1 DEF Existing, NothingRemoved
<1>3. TypeOK'
  <2>1. Now' \in Inventories
    BY <1>1 DEF Now, Inventories
  <2>2. past' \in Seq(Inventories)
    BY <1>0, <2>1 DEF FreezeInv, TypeOK
  <2> QED
    BY <1>0, <1>1, <2>2 DEF FreezeInv, TypeOK
<1>4. Refused' /\ CandidatesChecked' /\ MissingExplained'
  BY <1>0, <1>2 DEF FreezeInv, Refused, CandidatesChecked, MissingExplained, FrozenChains
<1>5. ChainsRead'
  BY <1>0, <1>2 DEF FreezeInv, ChainsRead, Listed, FrozenChains, Page, Before
<1>6. ServicesFrozen'
  BY <1>0 DEF FreezeInv, ServicesFrozen
<1>7. PastSound'
  <2>1. CASE freeze.stage = "idle"
    BY <1>0, <2>1 DEF PastSound
  <2>2. CASE freeze.stage \in {"checked", "listed"}
    <3>1. past' = Append(past, Now') /\ past \in Seq(Inventories) /\ past # <<>>
      BY <1>0, <2>2 DEF Idle, FreezeInv, TypeOK, PastSound
    <3>2. /\ past'[Len(past')] = Now' /\ past' # <<>>
          /\ \A m \in DOMAIN past : m \in DOMAIN past' /\ past'[m] = past[m]
          /\ 1 \in DOMAIN past
      BY <3>1
    <3>3. \A c \in freeze.candidates : past'[1].chains[c] # Absent
      BY <2>2, <3>2 DEF FreezeInv, PastSound
    <3>4. ASSUME freeze.stage = "listed"
          PROVE  \E m \in DOMAIN past' : freeze.chains = PageOf(past'[m].chains)
      BY <3>2, <3>4 DEF FreezeInv, PastSound, ChainsOf
    <3> QED
      BY <1>0, <2>2, <3>2, <3>3, <3>4 DEF PastSound, ChainsOf, PageOf, Page, Before
  <2> QED
    BY <1>0, <2>1, <2>2
<1> QED
  BY <1>1, <1>3, <1>4, <1>5, <1>6, <1>7 DEF FreezeInv

\* The request leaves the inventory alone, and knows what it has read.
LEMMA FindCandidatesSound ==
  ASSUME FreezeInv, NEW candidates \in SUBSET ChainIds, FindCandidates(candidates)
  PROVE  FreezeInv'
<1> USE FreezeAssumption DEF FreezeAssumption
<1>1. UNCHANGED <<chains, services, changes>> /\ past' = <<Now>>
  BY DEF FindCandidates
<1>2. /\ freeze'.candidates = candidates
      /\ freeze'.stage \in {"checked", "refused"}
      /\ freeze'.stage = "checked" => candidates \subseteq Existing
      /\ freeze'.refusal \in {"none", "no_candidate"}
      /\ freeze'.refusal = "none" <=> freeze'.stage = "checked"
      /\ freeze'.chains = [c \in ChainIds |-> Absent]
      /\ freeze'.services = [s \in ServiceIds |-> Absent]
      /\ freeze'.existed = {}
  BY DEF FindCandidates, AllFound, Idle
<1>3. freeze' \in Freeze /\ Now \in Inventories
  BY DEF FindCandidates, Idle, Freeze, Stages, Refusals, FreezeInv, TypeOK, Now,
         Inventories
<1>4. TypeOK' /\ References'
  BY <1>1, <1>3 DEF FreezeInv, TypeOK, References, RefersTo
<1>5. FrozenChains' = {} /\ ~ Listed'
  BY <1>2 DEF FrozenChains, Listed
<1>6. Refused' /\ CandidatesChecked' /\ ChainsRead' /\ ServicesFrozen' /\ MissingExplained'
  BY <1>1, <1>2, <1>5
     DEF Refused, CandidatesChecked, ChainsRead, ServicesFrozen, MissingExplained, Existing
<1>7. PastSound'
  BY <1>1, <1>2 DEF PastSound, Now, Existing
<1> QED
  BY <1>4, <1>6, <1>7 DEF FreezeInv

LEMMA ListChainsSound ==
  ASSUME FreezeInv, ListChains
  PROVE  FreezeInv'
<1> USE FreezeAssumption DEF FreezeAssumption
<1>1. UNCHANGED <<chains, services, changes, past>> /\ freeze.stage = "checked"
  BY DEF ListChains
<1> DEFINE listed == ChainsListed(freeze.candidates)
<1>2. freeze \in Freeze
  BY DEF FreezeInv, TypeOK
<1>3. /\ freeze'.candidates = freeze.candidates
      /\ freeze'.stage = "listed" /\ freeze'.refusal = freeze.refusal
      /\ freeze'.chains = listed
      /\ freeze'.services = freeze.services
      /\ freeze'.existed = Existing
  BY <1>2 DEF ListChains, Freeze
<1>4. freeze.refusal = "none"
  BY <1>1, <1>2 DEF FreezeInv, Refused
<1>5. Page(Existing) \subseteq Existing /\ Existing \subseteq ChainIds
  BY DEF Page, Existing
<1>6. /\ listed \in [ChainIds -> ChainStates \union {Absent}]
      /\ \A c \in ChainIds : listed[c] # Absent <=> c \in Page(Existing)
      /\ \A c \in Page(Existing) : listed[c] = chains[c]
  BY <1>5 DEF ChainsListed, Existing, FreezeInv, TypeOK
<1> HIDE DEF listed
<1>7. freeze' = [freeze EXCEPT !.stage = "listed", !.existed = Existing, !.chains = listed]
  BY DEF ListChains, listed
<1>8. freeze' \in Freeze
  BY <1>2, <1>5, <1>6, <1>7 DEF Freeze, Stages
<1>9. TypeOK' /\ References'
  BY <1>1, <1>8 DEF FreezeInv, TypeOK, References, RefersTo
<1>10. FrozenChains' = Page(Existing)
  BY <1>3, <1>5, <1>6 DEF FrozenChains
<1>11. ChainsRead'
  <2>1. FrozenChains' = Page(freeze.existed)'
    BY <1>3, <1>10 DEF Page, Before
  <2> QED
    BY <1>1, <1>3, <2>1 DEF FreezeInv, CandidatesChecked, ChainsRead, Listed, Existing
<1>12. ServicesFrozen'
  BY <1>1, <1>3 DEF FreezeInv, ServicesFrozen
<1>13. PastSound'
  <2>1. past # <<>> /\ past \in Seq(Inventories) /\ past[Len(past)] = Now
    BY <1>1 DEF FreezeInv, TypeOK, PastSound
  <2>2. Len(past) \in DOMAIN past /\ past[Len(past)].chains = chains
    BY <2>1 DEF Now
  <2>3. listed = PageOf(chains)
    BY DEF listed, ChainsListed, PageOf, Existing
  <2>4. \E m \in DOMAIN past : listed = PageOf(past[m].chains)
    BY <2>2, <2>3
  <2> QED
    BY <1>1, <1>3, <2>1, <2>4 DEF FreezeInv, PastSound, ChainsOf, Now
<1>14. Refused' /\ CandidatesChecked' /\ MissingExplained'
  BY <1>3, <1>4 DEF Refused, CandidatesChecked, MissingExplained
<1> QED
  BY <1>9, <1>11, <1>12, <1>13, <1>14 DEF FreezeInv

LEMMA FreezeServicesSound ==
  ASSUME FreezeInv, FreezeServices
  PROVE  FreezeInv'
<1> USE FreezeAssumption DEF FreezeAssumption
<1>1. UNCHANGED <<chains, services, changes, past>> /\ freeze.stage = "listed"
  BY DEF FreezeServices
<1>2. freeze \in Freeze /\ Listed
  BY <1>1 DEF FreezeInv, TypeOK, Listed
<1>3. /\ freeze'.candidates = freeze.candidates /\ freeze'.chains = freeze.chains
      /\ freeze'.existed = freeze.existed
      /\ freeze' \in Freeze
  <2>1. services \in [ServiceIds -> Service \union {Absent}]
    BY DEF FreezeInv, TypeOK
  <2>2. PICK stage \in Stages, refusal \in Refusals,
             frozen \in [ServiceIds -> Service \union {Absent}] :
          freeze' = [freeze EXCEPT !.stage = stage, !.refusal = refusal, !.services = frozen]
    <3>1. \A refusal \in Refusals : Refuse(refusal) => freeze' =
            [freeze EXCEPT !.stage = "refused", !.refusal = refusal, !.services = freeze.services]
      BY <1>2 DEF Refuse, Freeze
    <3>2. freeze' = [freeze EXCEPT !.stage = "frozen", !.services = services] => freeze' =
            [freeze EXCEPT !.stage = "frozen", !.refusal = freeze.refusal, !.services = services]
      BY <1>2 DEF Freeze
    <3>3. /\ "refused" \in Stages /\ "frozen" \in Stages
          /\ "candidate_missing" \in Refusals /\ "cyclic" \in Refusals
          /\ freeze.refusal \in Refusals
          /\ freeze.services \in [ServiceIds -> Service \union {Absent}]
      BY <1>2 DEF Freeze, Stages, Refusals
    <3>4. \/ Refuse("candidate_missing") \/ Refuse("cyclic")
          \/ freeze' = [freeze EXCEPT !.stage = "frozen", !.services = services]
      BY DEF FreezeServices, ServicesRead
    <3>5. CASE Refuse("candidate_missing") \/ Refuse("cyclic")
      BY <3>1, <3>3, <3>5
    <3>6. CASE freeze' = [freeze EXCEPT !.stage = "frozen", !.services = services]
      BY <2>1, <3>2, <3>3, <3>6
    <3> QED
      BY <3>4, <3>5, <3>6
  <2> QED
    BY <1>2, <2>2 DEF Freeze
<1>4. \/ /\ freeze'.stage = "refused" /\ freeze'.services = freeze.services
         /\ \/ freeze'.refusal = "candidate_missing" /\ ~ (freeze.candidates \subseteq FrozenChains)
            \/ freeze'.refusal = "cyclic"
      \/ /\ freeze'.stage = "frozen" /\ freeze'.services = services
         /\ freeze'.refusal = freeze.refusal
  BY <1>2 DEF FreezeServices, Refuse, ServicesRead, Freeze
<1>5. freeze.refusal = "none"
  BY <1>1, <1>2 DEF FreezeInv, Refused
<1>6. Listed'
  BY <1>4 DEF Listed
<1>7. FrozenChains' = FrozenChains /\ Existing' = Existing
  BY <1>1, <1>3 DEF FrozenChains, Existing
<1>8. ChainsRead'
  BY <1>2, <1>3, <1>6, <1>7 DEF FreezeInv, ChainsRead, Page, Before
<1>9. TypeOK' /\ References'
  BY <1>1, <1>3 DEF FreezeInv, TypeOK, References, RefersTo
<1>10. Refused' /\ CandidatesChecked' /\ MissingExplained'
  BY <1>3, <1>4, <1>5, <1>7 DEF Refused, CandidatesChecked, MissingExplained
<1>11. ServicesFrozen'
  <2>1. ASSUME NEW s \in ServiceIds, services[s] # Absent
        PROVE  /\ chains[services[s].chain] # Absent
               /\ \A d \in services[s].edges : services[d] # Absent
    BY <2>1 DEF FreezeInv, References, RefersTo
  <2> QED
    BY <1>1, <1>4, <2>1 DEF FreezeInv, ServicesFrozen
<1>12. PastSound'
  <2>1. past # <<>> /\ past \in Seq(Inventories) /\ past[Len(past)] = Now
    BY <1>1 DEF FreezeInv, TypeOK, PastSound
  <2>2. PICK m \in DOMAIN past : freeze.chains = PageOf(past[m].chains)
    BY <1>1 DEF FreezeInv, PastSound, ChainsOf
  <2>3. /\ Len(past) \in DOMAIN past /\ m <= Len(past)
        /\ past[Len(past)].services = services
    BY <2>1 DEF Now
  <2>4. \E k, n \in DOMAIN past : /\ k <= n /\ freeze.chains = PageOf(past[k].chains)
                                  /\ services = past[n].services
    BY <2>2, <2>3
  <2>5. \A c \in freeze.candidates : past[1].chains[c] # Absent
    BY <1>1 DEF FreezeInv, PastSound
  <2> QED
    BY <1>1, <1>3, <1>4, <2>1, <2>4, <2>5 DEF PastSound, ChainsOf
<1> QED
  BY <1>8, <1>9, <1>10, <1>11, <1>12 DEF FreezeInv

\* The invariant holds at the start and is kept by every step.
LEMMA FreezeInductive == FreezeSpec => []FreezeInv
<1> USE FreezeAssumption DEF FreezeAssumption
<1>1. ASSUME FreezeInit PROVE FreezeInv
  <2>1. freeze = Idle /\ changes = 0 /\ past = <<>> /\ Init
    BY <1>1 DEF FreezeInit
  <2>2. freeze \in Freeze
    BY <2>1 DEF Idle, Freeze, Stages, Refusals
  <2>3. TypeOK /\ References
    BY <2>1, <2>2 DEF TypeOK, Init
  <2> QED
    BY <2>1, <2>3 DEF FreezeInv, Refused, CandidatesChecked, ChainsRead, Listed,
         ServicesFrozen, MissingExplained, PastSound, FrozenChains, Idle
<1>2. ASSUME FreezeInv, [FreezeNext]_vars PROVE FreezeInv'
  <2>1. CASE \E candidates \in SUBSET ChainIds : FindCandidates(candidates)
    BY <1>2, <2>1, FindCandidatesSound
  <2>2. CASE ListChains
    BY <1>2, <2>2, ListChainsSound
  <2>3. CASE FreezeServices
    BY <1>2, <2>3, FreezeServicesSound
  <2>4. CASE Leave
    <3>1. freeze' = Idle /\ past' = <<>> /\ UNCHANGED <<chains, services, changes>>
      BY <2>4 DEF Leave
    <3>2. freeze' \in Freeze
      BY <3>1 DEF Idle, Freeze, Stages, Refusals
    <3>3. TypeOK' /\ References'
      BY <1>2, <3>1, <3>2 DEF FreezeInv, TypeOK, References, RefersTo
    <3>4. FrozenChains' = {} /\ ~ Listed'
      BY <3>1 DEF FrozenChains, Listed, Idle
    <3> QED
      BY <3>1, <3>3, <3>4 DEF FreezeInv, Refused, CandidatesChecked, ChainsRead,
           ServicesFrozen, MissingExplained, PastSound, Idle
  <2>5. CASE Change
    BY <1>2, <2>5, ChangeSound
  <2>6. CASE UNCHANGED vars
    BY <1>2, <2>6 DEF vars, FreezeInv, TypeOK, References, RefersTo, Refused,
         CandidatesChecked, ChainsRead, Listed, Existing, FrozenChains, Page, Before,
         ServicesFrozen, MissingExplained, PastSound, ChainsOf, Now
  <2> QED
    BY <1>2, <2>1, <2>2, <2>3, <2>4, <2>5, <2>6 DEF FreezeNext
<1> QED
  BY <1>1, <1>2, PTL DEF FreezeSpec

(***************************************************************************)
(* What readers of a snapshot rely on.                                     *)
(***************************************************************************)

\* Every state of the request and of the inventory it reads is well typed.
THEOREM FreezeTypeCorrect == FreezeSpec => []TypeOK
<1>1. FreezeInv => TypeOK
  BY DEF FreezeInv
<1> QED
  BY <1>1, FreezeInductive, PTL

\* The dependencies of frozen services are frozen with them, for any
\* inventory: all services come from one statement, retired ones included.
THEOREM FrozenResolve == FreezeSpec => []FrozenServicesResolve
<1>1. FreezeInv => FrozenServicesResolve
  BY DEF FreezeInv, ServicesFrozen, FrozenServicesResolve
<1> QED
  BY <1>1, FreezeInductive, PTL

\* A service is frozen without its chain only if the chain came after the
\* chains were read, or fell off a full page, whatever the page's size.
THEOREM MissingChains == FreezeSpec => []MissingChainIsExplained
<1>1. ASSUME FreezeInv PROVE MissingChainIsExplained
  <2> SUFFICES ASSUME freeze.stage = "frozen", NEW s \in ServiceIds,
                      freeze.services[s] # Absent,
                      freeze.chains[freeze.services[s].chain] = Absent,
                      freeze.services[s].chain \in freeze.existed
               PROVE  /\ Cardinality(FrozenChains) = PageSize
                      /\ \A c \in FrozenChains : Rank[c] < Rank[freeze.services[s].chain]
    BY DEF MissingChainIsExplained
  <2>1. FrozenChains = Page(freeze.existed)
    BY <1>1 DEF FreezeInv, ChainsRead, Listed
  <2>2. freeze.services[s].chain \notin FrozenChains
    BY DEF FrozenChains
  <2>3. freeze.existed \in SUBSET ChainIds
    BY <1>1 DEF FreezeInv, TypeOK, Freeze
  <2> QED
    BY <2>1, <2>2, <2>3, PageFull
<1> QED
  BY <1>1, FreezeInductive, PTL

\* A candidate found a moment before is refused as missing only if a full page
\* kept it out, whatever the page's size.
THEOREM MissingCandidates == FreezeSpec => []MissingCandidateIsExplained
<1>1. ASSUME FreezeInv PROVE MissingCandidateIsExplained
  <2> SUFFICES ASSUME freeze.refusal = "candidate_missing"
               PROVE  /\ Cardinality(FrozenChains) = PageSize
                      /\ \E candidate \in freeze.candidates \ FrozenChains :
                            \A c \in FrozenChains : Rank[c] < Rank[candidate]
    BY DEF MissingCandidateIsExplained
  <2>1. FrozenChains = Page(freeze.existed) /\ freeze.candidates \subseteq freeze.existed
    BY <1>1 DEF FreezeInv, ChainsRead, Listed
  <2>2. PICK candidate \in freeze.candidates : candidate \notin FrozenChains
    BY <1>1 DEF FreezeInv, MissingExplained
  <2>3. freeze.existed \in SUBSET ChainIds
    BY <1>1 DEF FreezeInv, TypeOK, Freeze
  <2> QED
    BY <2>1, <2>2, <2>3, PageFull
<1> QED
  BY <1>1, FreezeInductive, PTL

\* A snapshot is put together from two moments of its creation, the services'
\* not before the chains', for an inventory and a page of any size and however
\* often the inventory changes between the reads.
THEOREM SnapshotsOfTwoMoments == FreezeSpec => []SnapshotOfTwoMoments
<1>1. FreezeInv => SnapshotOfTwoMoments
  BY DEF FreezeInv, PastSound, ChainsOf, SnapshotOfTwoMoments
<1> QED
  BY <1>1, FreezeInductive, PTL
=============================================================================
