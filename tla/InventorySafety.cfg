SPECIFICATION Spec
CONSTANTS
    w1 = w1
    w2 = w2
    Workers = {w1, w2}
    AnchorCodes = {"legacy", "next"}
    ChainCodes = {"platform", "edge"}
    Certificates <- MCCertificates
    Bundles <- MCBundles
    Fingerprints = {"seed", "f1", "f2", "f3"}
    Expiring = 1
    NoRow = NoRow
    SeedAnchors <- MCSeedAnchors
    SeedChains <- MCSeedChains
    MaxTime = 4
    MaxHistory = 3
SYMMETRY MCSymmetry
INVARIANTS
    TypeOK
    StoredStateLags
    OpenChainsHaveValidAnchors
    InventoryFollowsAudit
    ComparisonFindsOverlap
PROPERTIES
    LifecyclesMoveForward
    ImplementsInventory
