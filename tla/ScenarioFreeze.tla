--------------------------- MODULE ScenarioFreeze ---------------------------
(***************************************************************************)
(* How RolloverScenarioService.Create freezes the inventory: the candidate *)
(* chains, the chains and the services are read in statements of their     *)
(* own, outside any transaction, while the inventory changes.  Of the      *)
(* chains only the first page is read.  What comes out is the frozen input *)
(* that RolloverScenarios stores and TrustPaths simulates.                 *)
(***************************************************************************)
EXTENDS Inventory, DependencyGraphs, Naturals, Sequences, FiniteSets

CONSTANTS
    Rank,        \* the order of the chain list: valid_to, then the newer id
    PageSize,    \* 200 in the code
    MaxChanges   \* bound: how often the inventory changes

ASSUME FreezeAssumption ==
    /\ Rank \in [ChainIds -> Nat]
    /\ \A c, d \in ChainIds : Rank[c] = Rank[d] => c = d
    /\ IsFiniteSet(ChainIds)
    /\ PageSize \in Nat /\ MaxChanges \in Nat
    /\ Absent \notin Service \union ChainStates

VARIABLES
    freeze,   \* the request and what it has read
    changes,  \* how often the inventory has changed
    past      \* history: the inventories since the candidates were looked up,
              \* until all is read

vars == <<chains, services, freeze, changes, past>>

\*   checked   the candidates exist
\*   listed    the chains are read
\*   frozen    the services are read too, and the snapshot is valid
Stages == {"idle", "checked", "listed", "frozen", "refused"}

Refusals == {"none", "no_candidate", "candidate_missing", "cyclic"}

Freeze ==
    [stage : Stages, refusal : Refusals, candidates : SUBSET ChainIds,
     chains : [ChainIds -> ChainStates \union {Absent}],
     services : [ServiceIds -> Service \union {Absent}],
     existed : SUBSET ChainIds]   \* history: the chains when they were listed

Idle == [stage |-> "idle", refusal |-> "none", candidates |-> {},
         chains |-> [c \in ChainIds |-> Absent],
         services |-> [s \in ServiceIds |-> Absent], existed |-> {}]

Now == [chains |-> chains, services |-> services]

Inventories == [chains : [ChainIds -> ChainStates \union {Absent}],
                services : [ServiceIds -> Service \union {Absent}]]

TypeOK ==
    /\ chains \in [ChainIds -> ChainStates \union {Absent}]
    /\ services \in [ServiceIds -> Service \union {Absent}]
    /\ freeze \in Freeze
    /\ changes \in 0 .. MaxChanges
    /\ past \in Seq(Inventories)

FreezeInit == Init /\ freeze = Idle /\ changes = 0 /\ past = <<>>

Existing == {c \in ChainIds : chains[c] # Absent}

Before(c, existing) == {d \in existing : Rank[d] < Rank[c]}

\* chains.List: ORDER BY valid_to, id DESC LIMIT 200.
Page(existing) ==
    {c \in existing : Cardinality(Before(c, existing)) < PageSize}

Refuse(refusal) ==
    freeze' = [freeze EXCEPT !.stage = "refused", !.refusal = refusal]

\* Mutant: the number of candidates found is not compared.
AnyFound(candidates) == TRUE

AllFound(candidates) == candidates \subseteq Existing

\* chains.GetByIDs, after the request was validated.
FindCandidates(candidates) ==
    /\ freeze = Idle
    /\ candidates # {}
    /\ freeze' = [Idle EXCEPT !.candidates = candidates,
                    !.stage = IF AllFound(candidates) THEN "checked" ELSE "refused",
                    !.refusal = IF AllFound(candidates) THEN "none" ELSE "no_candidate"]
    /\ past' = <<Now>>
    /\ UNCHANGED <<chains, services, changes>>

\* Mutant: the candidates are frozen instead of the list.
CandidatesListed(candidates) ==
    [c \in ChainIds |-> IF c \in candidates THEN chains[c] ELSE Absent]

ChainsListed(candidates) ==
    [c \in ChainIds |-> IF c \in Page(Existing) THEN chains[c] ELSE Absent]

ListChains ==
    /\ freeze.stage = "checked"
    /\ freeze' = [freeze EXCEPT !.stage = "listed", !.existed = Existing,
                                !.chains = ChainsListed(freeze.candidates)]
    /\ UNCHANGED <<chains, services, changes, past>>

FrozenChains == {c \in ChainIds : freeze.chains[c] # Absent}

\* Mutant: only the active services are read.
ActiveRead ==
    [s \in ServiceIds |->
        IF services[s] # Absent /\ services[s].state = "active"
        THEN services[s] ELSE Absent]

\* services.All: retired services included.
ServicesRead == services

Graph(table) ==
    [s \in {t \in ServiceIds : table[t] # Absent} |-> table[s].edges]

\* Mutant: the services come with their chains, and the listed ones among
\* these are frozen as they are by then.
FreezeServicesAndTheirChains ==
    LET Used == {c \in FrozenChains : \E s \in ServiceIds :
                    services[s] # Absent /\ services[s].chain = c}
    IN  /\ freeze.stage = "listed"
        /\ freeze' = [freeze EXCEPT !.stage = "frozen", !.services = ServicesRead,
              !.chains = [c \in ChainIds |-> IF c \in Used THEN chains[c] ELSE @[c]]]
        /\ UNCHANGED <<chains, services, changes, past>>

\* The read of the services, buildSnapshot and the checks of ValidateSnapshot.
FreezeServices ==
    /\ freeze.stage = "listed"
    /\ UNCHANGED <<chains, services, changes, past>>
    /\ \/ /\ ~ (freeze.candidates \subseteq FrozenChains)
          /\ Refuse("candidate_missing")
       \/ /\ freeze.candidates \subseteq FrozenChains
          /\ ~ Acyclic(Graph(ServicesRead))
          /\ Refuse("cyclic")
       \/ /\ freeze.candidates \subseteq FrozenChains
          /\ Acyclic(Graph(ServicesRead))
          /\ freeze' = [freeze EXCEPT !.stage = "frozen", !.services = ServicesRead]

\* The request is over: stored, refused, or a read failed.
Leave ==
    /\ freeze # Idle
    /\ freeze' = Idle
    /\ past' = <<>>
    /\ UNCHANGED <<chains, services, changes>>

\* Other requests change the inventory: before this one, and until all of it
\* is read.  What changes later is nothing to the snapshot.
Change ==
    /\ changes < MaxChanges
    /\ freeze.stage \in {"idle", "checked", "listed"}
    /\ Next
    /\ changes' = changes + 1
    /\ past' = IF freeze = Idle THEN past ELSE Append(past, Now')
    /\ UNCHANGED freeze

FreezeNext ==
    \/ \E candidates \in SUBSET ChainIds : FindCandidates(candidates)
    \/ ListChains \/ FreezeServices \/ Leave
    \/ Change

FreezeSpec == FreezeInit /\ [][FreezeNext]_vars

----------------------------------------------------------------------------
(* Properties *)

\* Every dependency of a frozen service is frozen with it, though the code
\* that freezes them does not look: the simulation follows dependencies
\* without asking whether they are there, retired ones included.
FrozenServicesResolve ==
    freeze.stage = "frozen" =>
        \A s \in ServiceIds : freeze.services[s] # Absent =>
            \A d \in freeze.services[s].edges : freeze.services[d] # Absent

\* The simulation reports a service as broken when its chain is not frozen.
\* That happens only to a chain that was imported after the chains were read
\* and before the services were, or that a full page of chains kept out.
MissingChainIsExplained ==
    freeze.stage = "frozen" =>
        \A s \in ServiceIds :
            LET chain == freeze.services[s].chain
            IN  freeze.services[s] # Absent /\ freeze.chains[chain] = Absent =>
                    \/ chain \notin freeze.existed
                    \/ /\ Cardinality(FrozenChains) = PageSize
                       /\ \A c \in FrozenChains : Rank[c] < Rank[chain]

\* "candidate chain is missing", after all candidates were found to exist, is
\* said only of a candidate that a full page kept out.
MissingCandidateIsExplained ==
    freeze.refusal = "candidate_missing" =>
        /\ Cardinality(FrozenChains) = PageSize
        /\ \E candidate \in freeze.candidates \ FrozenChains :
              \A c \in FrozenChains : Rank[c] < Rank[candidate]

\* Of the chains of an inventory, those a list of them returns.
PageOf(table) ==
    LET existing == {c \in ChainIds : table[c] # Absent}
    IN  [c \in ChainIds |-> IF c \in Page(existing) THEN table[c] ELSE Absent]

\* A snapshot mixes no more than two moments, both of its own creation: its
\* chains are the first page of the inventory as it stood at one of them, all
\* its services are the inventory's at that one or at a later one, and every
\* candidate was there before both.
SnapshotOfTwoMoments ==
    freeze.stage = "frozen" =>
        /\ \A c \in freeze.candidates : past[1].chains[c] # Absent
        /\ \E m, n \in DOMAIN past :
              /\ m <= n
              /\ freeze.chains = PageOf(past[m].chains)
              /\ freeze.services = past[n].services
=============================================================================
