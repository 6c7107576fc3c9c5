----------------------------- MODULE Inventory -----------------------------
(***************************************************************************)
(* What the inventory promises those who read it, with no requests, no     *)
(* transactions and no races: chains are imported validated and only move  *)
(* forward, services are created, rewired and retired, every reference     *)
(* leads to a row, and nothing is ever removed.  That the dependencies     *)
(* have no cycle is not promised.                                          *)
(*                                                                         *)
(* TrustInventory implements its chains and DependentServices its          *)
(* services; ScenarioFreeze reads it while it changes.                     *)
(***************************************************************************)
EXTENDS DomainConstants

CONSTANTS
    ChainIds,    \* certificate chains
    ServiceIds,  \* dependent services
    Absent       \* the value of an id that is not in use

VARIABLES
    chains,      \* chain -> its state, or Absent
    services     \* service -> its row, or Absent

Service == [chain : ChainIds, edges : SUBSET ServiceIds,
            state : {"active", "inactive"}]

\* A row at a service's place refers to rows only, and not to itself.
RefersTo(s, chain, edges) ==
    /\ chains[chain] # Absent
    /\ \A d \in edges \ {s} : services[d] # Absent
    /\ s \notin edges

References ==
    \A s \in ServiceIds : services[s] # Absent =>
        RefersTo(s, services[s].chain, services[s].edges)

\* Every service stored at the start is active.
Init ==
    /\ chains \in [ChainIds -> ChainStates \union {Absent}]
    /\ services \in [ServiceIds -> Service \union {Absent}]
    /\ References
    /\ \A s \in ServiceIds : services[s] # Absent => services[s].state = "active"

ImportChain(c) ==
    /\ chains[c] = Absent
    /\ chains' = [chains EXCEPT ![c] = "validated"]
    /\ UNCHANGED services

MoveChain(c, to) ==
    /\ chains[c] # Absent
    /\ CanTransitionChain(chains[c], to)
    /\ chains' = [chains EXCEPT ![c] = to]
    /\ UNCHANGED services

\* A service is created, or rewired: retired services stay retired.
StoreService(s, chain, edges) ==
    /\ RefersTo(s, chain, edges)
    /\ services' = [services EXCEPT ![s] =
            [chain |-> chain, edges |-> edges,
             state |-> IF @ = Absent THEN "active" ELSE @.state]]
    /\ UNCHANGED chains

RetireService(s) ==
    /\ services[s] # Absent
    /\ services[s].state = "active"
    /\ services' = [services EXCEPT ![s].state = "inactive"]
    /\ UNCHANGED chains

Next ==
    \/ \E c \in ChainIds : ImportChain(c) \/ \E to \in ChainStates : MoveChain(c, to)
    \/ \E s \in ServiceIds :
        \/ \E chain \in ChainIds, edges \in SUBSET ServiceIds :
                StoreService(s, chain, edges)
        \/ RetireService(s)

Spec == Init /\ [][Next]_<<chains, services>>
=============================================================================
