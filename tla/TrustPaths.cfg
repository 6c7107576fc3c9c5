SPECIFICATION Spec
CONSTANTS
    Snapshots <- MCSnapshots
    Minute = 2
    ZeroTime = 0
CHECK_DEADLOCK FALSE
INVARIANTS
    ReachabilityIsSupport
    BrokenPathsLeadToCause
    CandidatesOnlyHelp
    CriticalTimesSuffice
