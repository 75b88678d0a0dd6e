CONSTANTS
    b1 = b1
    b2 = b2
    p1 = p1
    p2 = p2
    Batch = {b1}
    Project = {p1}
    ProjectOf <- OneProject
    Worker = {w1, w2}
    Replayer = {r1, r2}
    None = None
    MaxAttempts = 2
    MaxStalled = 1
    PageSize = 1
    ReplayLimit = 1
    Plans <- RecoveryPlans
SPECIFICATION FairSpec
INVARIANT EffectsExplained
PROPERTY DeliversInTime
