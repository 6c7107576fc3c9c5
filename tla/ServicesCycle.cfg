SPECIFICATION Spec
CONSTANTS
    w1 = w1
    w2 = w2
    owner = owner
    operator = operator
    teamA = teamA
    teamB = teamB
    gateway = gateway
    billing = billing
    chain1 = chain1
    chain9 = chain9
    Workers = {w1, w2}
    Users = {owner, operator}
    RoleOf <- MCRoleOf
    TeamOf <- MCTeamOf
    Teams = {teamA, teamB}
    Codes = {gateway, billing}
    Chains = {chain1}
    ChainRefs = {chain1, chain9}
    Payloads <- MCPayloads
    NoService = NoService
    NoGraph = NoGraph
    None = None
    SeedRows <- Seeded
    MaxHistory = 2
SYMMETRY MCSymmetry
INVARIANT
    GraphStaysAcyclic
