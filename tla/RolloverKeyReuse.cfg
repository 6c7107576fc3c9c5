SPECIFICATION Spec
CONSTANTS
    w1 = w1
    w2 = w2
    owner = owner
    admin = admin
    reviewer = reviewer
    s1 = s1
    s2 = s2
    s3 = s3
    in1 = in1
    in2 = in2
    in3 = in3
    k1 = k1
    k2 = k2
    res1 = res1
    res2 = res2
    Workers = {w1}
    Users = {owner, admin, reviewer}
    RoleOf <- MCRoleOf
    Ids = {s1, s2}
    Inputs = {in1, in2}
    Keys = {k1, k2}
    NoKey = NoKey
    Results = {res1, res2}
    Evaluate <- MCEvaluate
    NoResult = NoResult
    NoUser = NoUser
    NoScenario = NoScenario
    None = None
    SeedRows <- Seeded
    MaxHistory = 6
INVARIANT
    KeyRunsOneSimulation
