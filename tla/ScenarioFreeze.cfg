SPECIFICATION MCSpec
CONSTANTS
    legacy = legacy
    next = next
    late = late
    edge = edge
    billing = billing
    ChainIds = {legacy, next, late}
    ServiceIds = {edge, billing}
    Absent = Absent
    Rank <- MCRank
    PageSize = 2
    MaxChanges = 2
INVARIANTS
    FrozenServicesResolve
    MissingChainIsExplained
    MissingCandidateIsExplained
    SnapshotOfTwoMoments
